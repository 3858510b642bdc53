---------------------------- MODULE FusionSafety ----------------------------
(***************************************************************************)
(* What an accepted VIN rests on.                                          *)
(***************************************************************************)
EXTENDS VinFusion

VinAccepted == phase = "done" /\ fr.status = "ACCEPT"

(* The kit character of an accepted VIN was read by somebody: it is never  *)
(* made from 0, 3 or 8 by the rules alone, whichever gate was rescued.     *)
Pos5IsSeen == VinAccepted => fr.vin[Pos5] \in Seen(reads, Pos5)

(* No VIN is accepted over another whole VIN of its model that trusted     *)
(* variants, raw or clahe, have read with as much weight.                  *)
NoTrustedRival ==
  VinAccepted => \A i \in DOMAIN reads :
    LET t == reads[i].text
        trusted == {k \in Exact(reads, t) : reads[k].base \in Trusted}
    IN trusted # {} /\ t # fr.vin /\ (\E m \in ModelOf(fr.vin) : Valid(m, t))
         => Total(reads, trusted) < Total(reads, Exact(reads, fr.vin))

(* An accepted VIN is one of the model its prefix names, in every position: *)
(* no rescue passes a character the rules forbid, and the model for which  *)
(* the characters were elected is the one the VIN is then taken for.       *)
AcceptedIsValid == VinAccepted => \E m \in ModelOf(fr.vin) : Valid(m, fr.vin)

(* The cascade stops early only if the VIN was read in two groups of       *)
(* frames, and the frames these groups began with are not near to one      *)
(* another: pictures of one frame never count as two pieces of evidence.   *)
EarlyIsIndependent ==
  early => /\ fr.status = "ACCEPT"
           /\ \E i, j \in DOMAIN reads :
                /\ reads[i].text = fr.vin /\ reads[j].text = fr.vin
                /\ ~Near(reads[i].group, reads[j].group)

(* Bounds: two kits, a kit misread, another year and digit, a digit        *)
(* misread in two ways, another model; the same frame twice, or two.       *)
SomeTexts ==
  { <<"F", "D", "8", "4", "T", "1">>, <<"F", "C", "8", "4", "T", "1">>,
    <<"F", "3", "8", "4", "T", "1">>, <<"F", "D", "8", "4", "V", "7">>,
    <<"F", "D", "8", "4", "T", "Z">>, <<"F", "D", "8", "4", "T", "E">>,
    <<"H", "D", "4", "A", "T", "1">> }
SomeFilters == << [base |-> "raw", rotation |-> 0], [base |-> "relief", rotation |-> 0] >>
SomePlates == { <<4, 4>>, <<0, 4>> }
=============================================================================
