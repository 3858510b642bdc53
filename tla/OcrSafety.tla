------------------------------ MODULE OcrSafety ------------------------------
(***************************************************************************)
(* What the OCR worker and the submission of jobs promise the session.     *)
(***************************************************************************)
EXTENDS OcrWork

(* A job is told as a failure once, or as a result (a second time only when *)
(* the callback raised), never as both: the attempt of a session whose VIN  *)
(* is accepted is not counted as NO_READ and its plate is not unlocked.     *)
OneVerdictPerJob ==
  \A j \in Job :
    /\ told[j] \in {<< >>, <<"fail">>, <<"result">>, <<"result", "result">>}
    /\ fate[j] = "told" => told[j] # << >>

(* A job ends without any callback as a duplicate only if the VIN it was    *)
(* decided with has been told to its session by another job: never because  *)
(* the body before showed the same VIN, nor because the session has been    *)
(* told a different one.                                                    *)
SilentOnlyIfKnown ==
  \A j \in Job : fate[j] = "duplicate" =>
    \E k \in Job :
      /\ k # j /\ of[k] = of[j] /\ said[k] = said[j]
      /\ "result" \in {told[k][i] : i \in DOMAIN told[k]}

(* The in-flight event of a session, which makes the watchdog wait in the   *)
(* grace, is clear only while a job of it is on its way, or after one that  *)
(* ended without a callback (dropped, refused, drained, lost, a duplicate)  *)
(* or whose callback raised.                                                *)
MarkHasJob ==
  \A s \in Body : waits[s] =>
    \E j \in Job : of[j] = s /\ fate[j] # "told"

(* Until it has been told, a job on its way holds the in-flight mark of its *)
(* session, so that the watchdog waits for it, as long as no body starts    *)
(* while the last one's job is being read: starting a body resets the mark, *)
(* and the plate lock is all that keeps a second job from clearing it.      *)
JobIsMarked ==
  ~set.overlap => \A j \in Job : OnItsWay(j) /\ told[j] = << >> =>
                    inflight = of[j] /\ waits[of[j]]

(* Once the retry guard has given a terminal reason (plate exit, no time    *)
(* left) no further attempt of that session is admitted.                    *)
RefusalIsFinal ==
  [][\A s \in Body : guard[s].over =>
       /\ guard'[s].over
       /\ \A j \in Job : of'[j] = s => of[j] = s]_<<guard, of>>

(* A queued job is read, or dropped for a newer one, as long as the thread  *)
(* is meant to run, whatever the engine does and whatever raises.           *)
JobEnds ==
  \A j \in Job : fate[j] = "queued" ~> fate[j] # "queued" \/ ~running
=============================================================================
