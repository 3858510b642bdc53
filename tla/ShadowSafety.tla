---------------------------- MODULE ShadowSafety ----------------------------
(***************************************************************************)
(* What shadow OCR must keep: whole evidence, the production text, the     *)
(* collector's jobs, and its own progress past an engine that hangs.       *)
(***************************************************************************)
EXTENDS ShadowOcr

(* The roles of ocr_orchestrator.py; one of the two Paddle profiles stands *)
(* for both.                                                               *)
TwoEngines == <<"ENGRAVED_V121", "PADDLE_RAW">>

(* A crop whose evidence was stored has exactly one row for every engine,  *)
(* whether it answered, raised or was too late, and no crop has two rows   *)
(* of an engine (OcrOrchestrator.run, ShadowOcrStage._process): a late     *)
(* answer, a failure and a timeout exclude each other.                     *)
EvidenceIsWhole ==
  \A i \in Input, e \in Roles :
    rows[i][e] <= 1 /\ (fut[i] = "done" => rows[i][e] = 1)

(* Closing the collector processes every job it had when the close began,  *)
(* the one its thread has taken and not yet counted included, unless a     *)
(* wait timed out (ActiveLearningCollector.flush, close).                  *)
CloseKeepsJobs == down \in {"engines", "done"} /\ ~hurried => owed \subseteq handled

(* Every crop submitted is processed, failed or cancelled, though engines  *)
(* hang in their calls and the service shuts down.                         *)
CropEnds ==
  \A i \in Input :
    fut[i] \in {"queued", "running"} ~> fut[i] \in {"done", "failed", "cancelled"}
=============================================================================
