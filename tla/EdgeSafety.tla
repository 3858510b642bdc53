----------------------------- MODULE EdgeSafety -----------------------------
(***************************************************************************)
(* What the audit of the trigger signal has to show.                       *)
(***************************************************************************)
EXTENDS EdgeAudit, FiniteSetsExt, SequencesExt

(* The samples i to j are equal and span the debounce time.                *)
Stable(i, j) ==
  /\ \A k \in i .. j : samples[k].raw = samples[j].raw
  /\ samples[j].at - samples[i].at >= Need(samples[j].raw)

StableEnds == {j \in DOMAIN samples : \E i \in 1 .. j : Stable(i, j)}

(* The debounced value is that of the last stable stretch in the whole     *)
(* history of samples, whatever bounces and missing samples came between   *)
(* (feed keeps one time stamp in place of the history).                    *)
DebouncedIsLastStable ==
  debounced = IF StableEnds = {} THEN 0 ELSE samples[Max(StableEnds)].raw

(* The time of the first sample of the stretch of equal samples that ends  *)
(* at time t.                                                              *)
StretchStart(t) ==
  LET Upto  == {k \in DOMAIN samples : samples[k].at <= t}
      Other == {k \in Upto : samples[k].raw # samples[Max(Upto)].raw}
  IN samples[IF Other = {} THEN 1 ELSE Max(Other) + 1].at

Distance(a, b) == IF a < b THEN b - a ELSE a - b

(* The width of a pulse is that of the line as it was sampled: the delays  *)
(* of its two debounced edges cancel but for the gap between two samples   *)
(* (edge_audit.py counts the width from one debounced edge to the next).   *)
WidthIsOfThePulse ==
  \A i \in 2 .. Len(rows) : rows[i].edge = 0 =>
    Distance(rows[i].width, StretchStart(rows[i].at) - StretchStart(rows[i - 1].at))
      < Distance(DebounceOn, DebounceOff) + Max(Gaps)

(* Sampled in every interval, off at the start, and no stretch between two *)
(* others shorter than the debounce time.                                  *)
CleanLine ==
  /\ \A k \in DOMAIN samples : samples[k].at = k
  /\ samples # << >> => samples[1].raw = 0
  /\ \A k \in DOMAIN samples :
       k > 1 /\ samples[k].raw # samples[k - 1].raw /\ StretchStart(k - 1) > 1 =>
         k - StretchStart(k - 1) > Need(samples[k - 1].raw)

(* On a clean line the audit and the pipeline, which count the minimum     *)
(* interval separately and from different moments, agree: the accepted     *)
(* edges are the triggers that started a session.                          *)
AuditAgrees ==
  CleanLine =>
    {rows[i].at : i \in {j \in DOMAIN rows : rows[j].decision = "ACCEPTED"}}
      = {s + DebounceOn : s \in {x \in ToSet(starts) : x + DebounceOn <= now}}
=============================================================================
