----------------------------- MODULE BatchService -----------------------------
(***************************************************************************)
(* What run_batch promises the OCR worker: every task of a batch gets an   *)
(* answer, the first one stands, and the call returns when the last has    *)
(* its own.  An engine found unusable is told at once for all tasks that   *)
(* are left, and for every task of every later batch.  How processes die,  *)
(* hang and are replaced meanwhile is left to OcrPool, which implements    *)
(* this.                                                                   *)
(***************************************************************************)
EXTENDS Naturals

CONSTANTS
  Task,     \* the tasks of the longest batch, numbered from 1
  Saying    \* what may be said of a task, "none" and "unavailable" among it

VARIABLES
  open,     \* run_batch has not returned
  size,     \* how many tasks the batch has
  said,     \* what has been said of each task, "none" at first
  broken    \* the engine is unusable

Missing == {t \in Task : t <= size /\ said[t] = "none"}
Read == {t \in Task : t <= size /\ said[t] \in {"ok", "empty"}}

Init ==
  /\ open = FALSE /\ size = 0 /\ broken = FALSE
  /\ said = [t \in Task |-> "none"]

Begin(n) ==
  /\ ~open
  /\ open' = TRUE /\ size' = n
  /\ said' = [t \in Task |-> IF broken /\ t <= n THEN "unavailable" ELSE "none"]
  /\ UNCHANGED broken

(* One task, or several at a deadline; never one that has its answer.      *)
Tell(tasks, answer) ==
  /\ open /\ tasks \subseteq Missing
  /\ said' = [t \in Task |-> IF t \in tasks THEN answer ELSE said[t]]
  /\ UNCHANGED <<open, size, broken>>

Break ==
  /\ open /\ Missing # {}
  /\ said' = [t \in Task |-> IF t \in Missing THEN "unavailable" ELSE said[t]]
  /\ broken' = TRUE
  /\ UNCHANGED <<open, size>>

(* A batch of which nothing could be read may show the engine unusable.    *)
End ==
  /\ open /\ Missing = {}
  /\ open' = FALSE
  /\ \/ UNCHANGED broken
     \/ Read = {} /\ broken' = TRUE
  /\ UNCHANGED <<size, said>>

Next ==
  \/ \E n \in Task : Begin(n)
  \/ \E tasks \in SUBSET Task, answer \in Saying \ {"none", "unavailable"} : Tell(tasks, answer)
  \/ Break \/ End

Spec == Init /\ [][Next]_<<open, size, said, broken>>
=============================================================================
