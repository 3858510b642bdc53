----------------------------- MODULE VinFusion -----------------------------
(***************************************************************************)
(* How the readings of a plate become one VIN: the variants of its crops   *)
(* and the cascade that reads them (ocr_worker.py, ocr_variants.py), the   *)
(* vote for every position and the gates (vin_fusion.py) under the rules   *)
(* of the two models (vin_rules.py).                                       *)
(*                                                                         *)
(* A text is the six positions where the rules, the confusions or a gate   *)
(* make a difference: 4, 5, 6, 8, 10 and a digit of the serial number. The *)
(* other eleven are read right. Confidences and weights are in hundredths, *)
(* probabilities, margins and scores in thousandths, rounded down. All     *)
(* crops have the same quality.                                            *)
(***************************************************************************)
EXTENDS Integers, Sequences, FiniteSets, FiniteSetsExt

CONSTANTS
  Texts,      \* bound: what the engine may read
  Confs,      \* bound: with what confidence
  Filters,    \* variants_enabled, each with its rotation, in their order
  MaxTasks,   \* max_ocr_attempts, 0 for no limit
  Plates      \* bound: the hashes of the crops of a plate

BaseWeight == [raw |-> 100, clahe |-> 100, relief |-> 90, inverted |-> 80, binary |-> 70]
Variant == [base : DOMAIN BaseWeight, rotation : Int]

ASSUME FusionConstants ==
  /\ \A c \in Confs : c \in 1 .. 100
  /\ Filters \in Seq(Variant) /\ MaxTasks \in Nat
  /\ \A crops \in Plates : crops \in Seq(Nat) /\ crops # << >>

Place == 1 .. 6
Pos5 == 2
Year == 5
Serial == 6
Untold == 17 - Cardinality(Place)    \* positions read right

(***************************************************************************)
(* vin_rules.py, and CONFUSIONS of vin_postprocess.py                      *)
(***************************************************************************)
Digits == {"0", "1", "2", "3", "4", "5", "6", "7", "8", "9"}
Kits == {"A", "B", "C", "D", "G", "H", "J"}
Rules ==
  [QY   |-> <<{"F"}, Kits, {"8"}, {"4"},      {"T", "V", "W"},      Digits>>,
   BL7M |-> <<{"H"}, Kits, {"4"}, {"G", "A"}, {"T", "U", "V", "W"}, Digits>>]
Models == <<"QY", "BL7M">>

Confusions ==
  { {"0", "O"}, {"0", "D"}, {"0", "Q"}, {"0", "8"}, {"0", "9"}, {"1", "I"}, {"1", "T"},
    {"1", "7"}, {"1", "L"}, {"1", "J"}, {"2", "Z"}, {"2", "7"}, {"3", "8"}, {"3", "B"},
    {"4", "A"}, {"5", "S"}, {"5", "6"}, {"6", "G"}, {"6", "8"}, {"7", "T"}, {"8", "B"},
    {"B", "R"}, {"D", "O"}, {"E", "F"}, {"F", "P"}, {"G", "C"}, {"I", "J"}, {"L", "J"},
    {"O", "Q"} }

(* validate, model_from_vin                                                *)
Valid(m, text) == \A p \in Place : text[p] \in Rules[m][p]
ModelOf(text) == {m \in {"QY", "BL7M"} : text[1] \in Rules[m][1]}

(***************************************************************************)
(* Readings: [crop, group, base, rotation, conf, text]                     *)
(***************************************************************************)
Trusted == {"raw", "clahe"}

RotationWeight(deg) ==      \* degrees; 0 is the crop as it is, or deskewed
  IF deg = 0 THEN 100 ELSE IF deg \in -3 .. 3 THEN 90 ELSE IF deg \in -6 .. 6 THEN 80 ELSE 70
VariantWeight(r) == (BaseWeight[r.base] * RotationWeight(r.rotation)) \div 100
Weight(r) == (r.conf * VariantWeight(r)) \div 10

SumOver(S, W(_)) == SumFunctionOnSet([i \in S |-> W(i)], S)
Total(reads, S) == SumOver(S, LAMBDA i : Weight(reads[i]))

(* _weighted_avg_conf                                                      *)
AverageConf(reads) ==
  (100 * Total(reads, DOMAIN reads))
     \div SumOver(DOMAIN reads, LAMBDA i : VariantWeight(reads[i]))

(***************************************************************************)
(* _collect_votes, _candidate_evidence, _select_for_model                  *)
(***************************************************************************)
Seen(reads, p) == {reads[i].text[p] : i \in DOMAIN reads}
Voters(reads, p, c) == {i \in DOMAIN reads : reads[i].text[p] = c}

(* A character the model does not allow votes for those it is mistaken     *)
(* for, all together with 0.6 of its weight, or for itself with half.      *)
Neighbours(m, p, c) == {a \in Rules[m][p] : {c, a} \in Confusions}
Candidates(m, p, c) ==
  IF c \in Rules[m][p] \/ Neighbours(m, p, c) = {} THEN {c} ELSE Neighbours(m, p, c)
Share(m, p, c) ==
  IF c \in Rules[m][p] THEN 60
  ELSE IF Neighbours(m, p, c) = {} THEN 30
  ELSE 36 \div Cardinality(Neighbours(m, p, c))

Backers(reads, m, p, c) == {i \in DOMAIN reads : c \in Candidates(m, p, reads[i].text[p])}
Evidence(reads, m, p, c) ==
  SumOver(Backers(reads, m, p, c),
          LAMBDA i : Weight(reads[i]) * Share(m, p, reads[i].text[p]))

(* A tie goes to the character met first.                                  *)
Leader(S, value, first) ==
  CHOOSE c \in S : \A d \in S \ {c} :
    value[c] > value[d] \/ (value[c] = value[d] /\ first[c] <= first[d])

Votes(reads, m, p) ==
  [c \in UNION {Candidates(m, p, d) : d \in Seen(reads, p)} |-> Evidence(reads, m, p, c)]
First(reads, m, p) ==
  [c \in UNION {Candidates(m, p, d) : d \in Seen(reads, p)} |-> Min(Backers(reads, m, p, c))]

(* One position: the character chosen, its probability and its margin. One *)
(* the model does not allow does not lower the margin of one it allows.    *)
Choice(m, p, ev, best) ==
  LET all == SumOver(DOMAIN ev, LAMBDA c : ev[c])
      others == {c \in DOMAIN ev \ {best} : best \in Rules[m][p] => c \in Rules[m][p]}
      second == IF others = {} THEN 0 ELSE Max({ev[c] : c \in others})
  IN [char |-> best, prob |-> (1000 * ev[best]) \div all,
      margin |-> IF ev[best] > second THEN (1000 * (ev[best] - second)) \div all ELSE 0]

Elect(m, p, ev, first) == Choice(m, p, ev, Leader(DOMAIN ev, ev, first))
Select(reads, m, p) == Elect(m, p, Votes(reads, m, p), First(reads, m, p))

FullyButOne(right) == right >= Cardinality(Place) - 1    \* mutant
Fully(right) == right = Cardinality(Place)

Scored(reads, m, places) ==
  LET right == Cardinality({p \in Place : places[p].char \in Rules[m][p]})
      prob == (1000 * Untold + SumOver(Place, LAMBDA p : places[p].prob)) \div 17
  IN [model |-> m, places |-> places, fully |-> Fully(right), prob |-> prob,
      score |-> (500 * (Untold + right)) \div 17 + prob \div 4 + AverageConf(reads) \div 4]
ForModel(reads, m) == Scored(reads, m, [p \in Place |-> Select(reads, m, p)])

(* The models in their order; a later one has to be better.                *)
Better(a, b) ==
  IF (b.fully /\ ~a.fully) \/ (b.fully = a.fully /\ b.score > a.score) THEN b ELSE a
BestModel(reads) == Better(ForModel(reads, Models[1]), ForModel(reads, Models[2]))

(***************************************************************************)
(* The gates of fuse, with the thresholds of config/settings.yaml          *)
(***************************************************************************)
Limit == [score |-> 800, groups |-> 2, readings |-> 3, risky |-> 200, variable |-> 80,
          serial |-> 120, kit |-> 200, kitVariants |-> 3, rival |-> 55, conf |-> 74,
          rescue |-> 900]

TextOf(best) == [p \in Place |-> best.places[p].char]

Exact(reads, vin) == {i \in DOMAIN reads : reads[i].text = vin}
Groups(reads, S) == {reads[i].group : i \in S}
Bases(reads, S) == {reads[i].base : i \in S}

RivalsInTwoFrames(reads, vin, m) == \* mutant: a rival has to be read in two frames
  {t \in {reads[i].text : i \in DOMAIN reads} \ {vin} :
     /\ m \in ModelOf(t) /\ Valid(m, t)
     /\ Bases(reads, Exact(reads, t)) \cap Trusted # {}
     /\ Cardinality(Groups(reads, Exact(reads, t))) >= 2
     /\ 100 * Total(reads, Exact(reads, t)) >= Limit.rival * Total(reads, Exact(reads, vin))}

(* _exact_evidence: another whole VIN of this model, by a trusted variant. *)
Rivals(reads, vin, m) ==
  {t \in {reads[i].text : i \in DOMAIN reads} \ {vin} :
     /\ m \in ModelOf(t) /\ Valid(m, t)
     /\ Bases(reads, Exact(reads, t)) \cap Trusted # {}
     /\ 100 * Total(reads, Exact(reads, t)) >= Limit.rival * Total(reads, Exact(reads, vin))}

(* exact_mean_conf, exact_groups and trusted_bases                         *)
WellRead(reads, vin) ==
  LET exact == Exact(reads, vin)
  IN /\ SumOver(exact, LAMBDA i : reads[i].conf) >= Limit.conf * Cardinality(exact)
     /\ \/ Cardinality(Groups(reads, exact)) >= 2
        \/ Cardinality(Bases(reads, exact) \cap Trusted) >= 2

Pos5MarginOnly(reads, d, m) ==      \* mutant: a correction needs no support
  d.char \in Rules[m][Pos5] /\ d.margin >= Limit.kit

(* raw_direct                                                              *)
RawPos5(reads) ==
  LET seen == Seen(reads, Pos5)
  IN Leader(seen, [c \in seen |-> Total(reads, Voters(reads, Pos5, c))],
                  [c \in seen |-> Min(Voters(reads, Pos5, c))])

(* _pos5_gate: the groups and variants counted are those that read the     *)
(* character itself.                                                       *)
Pos5Gate(reads, d, m) ==
  LET voters == Voters(reads, Pos5, d.char)
  IN /\ d.char \in Rules[m][Pos5] /\ d.margin >= Limit.kit
     /\ voters = {} => /\ \/ Cardinality(Groups(reads, voters)) >= Limit.groups
                          \/ Cardinality({<<reads[i].base, reads[i].rotation>> : i \in voters})
                             >= Limit.kitVariants
                       /\ RawPos5(reads) \notin {"0", "3", "6", "8", "R"}

(* "known_model" cannot fail: best["model"] stands in for an unknown prefix.*)
(* accept_single_read is off.                                              *)
FailedGates(reads, best, vin, m) ==
  LET margin(p) == best.places[p].margin
      supported == Untold + Cardinality({p \in Place : Voters(reads, p, vin[p]) # {}})
  IN {g \in {"final_score", "crops_or_consensus", "structurally_valid", "risky_margin",
             "variable_margin", "serial_margin", "exact_conflict", "raw_support_ratio", "pos5"} :
        CASE g = "final_score" -> best.score < Limit.score
          [] g = "crops_or_consensus" -> Cardinality(Groups(reads, DOMAIN reads)) < Limit.groups
                                         /\ ~(Len(reads) >= Limit.readings /\ best.prob >= 800)
          [] g = "structurally_valid" -> ~best.fully
          [] g = "risky_margin" -> margin(Pos5) < Limit.risky \/ margin(Year) < Limit.risky
          [] g = "variable_margin" -> \E p \in Place : margin(p) < Limit.variable
          [] g = "serial_margin" -> margin(Serial) < Limit.serial
          [] g = "exact_conflict" -> Rivals(reads, vin, m) # {}
          [] g = "raw_support_ratio" -> 2 * supported < 17
          [] g = "pos5" -> ~Pos5Gate(reads, best.places[Pos5], best.model)}

Rescuable == {"pos5", "risky_margin", "variable_margin"}

(* exact_direct_rescued: the character was read, and no other the model    *)
(* allows.                                                                 *)
DirectRescue(reads, best, vin, m) ==
  /\ best.fully /\ Seen(reads, Pos5) \cap Rules[m][Pos5] = {vin[Pos5]}
  /\ Rivals(reads, vin, m) = {} /\ WellRead(reads, vin)

(* pos5_rescued: the character was not read, but the whole VIN was.        *)
StructureRescue(reads, best, vin, m, failed) ==
  /\ "pos5" \in failed /\ best.fully /\ vin[Pos5] \notin Seen(reads, Pos5)
  /\ RawPos5(reads) \in {"3", "8"} /\ best.score >= Limit.rescue
  /\ Rivals(reads, vin, m) = {} /\ Exact(reads, vin) # {} /\ WellRead(reads, vin)

NoResult == [status |-> "NO_READ", vin |-> << >>, exactGroups |-> 0]

Judge(reads, best, vin, m, failed) ==
  LET rescued == /\ failed \subseteq Rescuable
                 /\ \/ DirectRescue(reads, best, vin, m)
                    \/ StructureRescue(reads, best, vin, m, failed)
  IN [status |-> IF failed = {} \/ rescued THEN "ACCEPT" ELSE "OCR_AMBIGUOUS",
      vin |-> vin,
      exactGroups |-> Cardinality(Groups(reads, Exact(reads, vin)))]

(* The model of the VIN, by its prefix, or the best one.                   *)
ModelFor(best, vin) ==
  IF ModelOf(vin) = {} THEN best.model ELSE CHOOSE n \in ModelOf(vin) : TRUE

Gated(reads, best, vin, m) == Judge(reads, best, vin, m, FailedGates(reads, best, vin, m))
FuseAs(reads, best) == Gated(reads, best, TextOf(best), ModelFor(best, TextOf(best)))
Fuse(reads) == IF reads = << >> THEN NoResult ELSE FuseAs(reads, BestModel(reads))

(***************************************************************************)
(* The cascade: _build_tasks, _run_variant_cascade and the det fallback    *)
(* of _process_job                                                         *)
(***************************************************************************)
VARIABLES
  hashes,  \* the hashes of the crops
  batch,   \* the tasks of the batch not yet read
  reads,   \* VariantReads, in the order of the tasks
  broken,  \* a timeout, or the circuit is open
  phase,   \* "primary", "retry", "det", "done"
  early,   \* safe_early
  fr       \* the last FusionResult

cascadeVars == <<hashes, batch, reads, broken, phase, early, fr>>

(* _group_near_duplicate_crops: a crop joins the first group whose first   *)
(* member is near; independent_crop_hash_distance is 1 here.               *)
Near(i, j) == hashes[i] - hashes[j] \in -1 .. 1
Representative[i \in DOMAIN hashes] ==
  LET reps == {j \in 1 .. i - 1 : Representative[j] = j /\ Near(i, j)}
  IN IF reps = {} THEN i ELSE Min(reps)

(* interleave_variants: a task is the number of its variant and that of    *)
(* its crop; the first variant of every crop comes first, and MaxTasks     *)
(* cuts off the last.                                                      *)
Rank(t) == (t[1] - 1) * Len(hashes) + t[2]
Tasks == {t \in (DOMAIN Filters) \X (DOMAIN hashes) : MaxTasks = 0 \/ Rank(t) <= MaxTasks}

IsPrimary(t) == Filters[t[1]].rotation = 0 /\ Filters[t[1]].base \in Trusted
PrimaryTasks == {t \in Tasks : IsPrimary(t)}
RetryTasks == Tasks \ PrimaryTasks
DetTasks == {t \in PrimaryTasks :
               Cardinality({u \in PrimaryTasks : Rank(u) <= Rank(t)}) <= Len(hashes)}

CascadeInit ==
  /\ hashes \in Plates
  /\ batch = PrimaryTasks /\ reads = << >> /\ broken = FALSE
  /\ phase = "primary" /\ early = FALSE /\ fr = NoResult

(* _read_pool, with the tasks in their order: a text of seventeen          *)
(* characters, or nothing that votes, perhaps because the task timed out.  *)
ReadTask ==
  \E t \in batch :
    /\ \A u \in batch : Rank(t) <= Rank(u)
    /\ batch' = batch \ {t}
    /\ \/ \E text \in Texts, conf \in Confs :
            /\ reads' = Append(reads, [crop |-> t[2], group |-> Representative[t[2]],
                                      base |-> Filters[t[1]].base,
                                      rotation |-> Filters[t[1]].rotation,
                                      conf |-> conf, text |-> text])
            /\ UNCHANGED broken
       \/ broken' \in {broken, TRUE} /\ UNCHANGED reads
    /\ UNCHANGED <<hashes, phase, early, fr>>

(* The deadline of the batch, or a fatal answer of one of its tasks        *)
BatchBreaks ==
  /\ batch # {}
  /\ broken' = TRUE /\ batch' = {}
  /\ UNCHANGED <<hashes, reads, phase, early, fr>>

Goto(next, tasks) == phase' = next /\ batch' = tasks

WantsDet == ~broken /\ Cardinality({reads[i].text : i \in DOMAIN reads}) < 2

AfterRetry == IF WantsDet THEN Goto("det", DetTasks) ELSE Goto("done", {})

EarlyIfAccepted(result) == result.status = "ACCEPT"     \* mutant: by one crop
SafeEarly(result) == result.status = "ACCEPT" /\ result.exactGroups >= 2

PrimaryFused ==
  /\ phase = "primary" /\ batch = {}
  /\ fr' = Fuse(reads)
  /\ early' = SafeEarly(fr')
  /\ IF early' \/ broken THEN Goto("done", {})
     ELSE IF RetryTasks = {} THEN AfterRetry
     ELSE Goto("retry", RetryTasks)
  /\ UNCHANGED <<hashes, reads, broken>>

RetryFused ==
  /\ phase = "retry" /\ batch = {}
  /\ fr' = Fuse(reads)
  /\ AfterRetry
  /\ UNCHANGED <<hashes, reads, broken, early>>

DetFused ==
  /\ phase = "det" /\ batch = {}
  /\ fr' = Fuse(reads)
  /\ Goto("done", {})
  /\ UNCHANGED <<hashes, reads, broken, early>>

CascadeNext == ReadTask \/ BatchBreaks \/ PrimaryFused \/ RetryFused \/ DetFused

CascadeSpec == CascadeInit /\ [][CascadeNext]_cascadeVars
=============================================================================
