------------------------------ MODULE PoolSafety ------------------------------
(***************************************************************************)
(* What the process pool promises the OCR worker.                          *)
(***************************************************************************)
EXTENDS OcrPool

Outcome == Answer \cup {"none", "crash", "timeout"}
Batch == 0 .. MaxBatches

Request == [task : Task, batch : Batch]
Reply == [task : Task, batch : Batch, status : Answer]
Place == {"idle", "top", "expire", "assign", "submit", "poll", "look", "finish"}
Progress == [pc : Place, at : Worker, scan : SUBSET Worker, size : 0 .. Tasks,
             preload : BOOLEAN]

TypeOK ==
  /\ up \in [Worker -> BOOLEAN] /\ engine \in [Worker -> BOOLEAN]
  /\ warmed \in [Worker -> BOOLEAN] /\ late \in [Worker -> BOOLEAN]
  /\ inQ \in [Worker -> Seq(Request)] /\ outQ \in [Worker -> Seq(Reply)]
  /\ inflight \in [Worker -> {0} \cup Task]
  /\ pending \in SUBSET Task
  /\ results \in [Task -> [status : Outcome, batch : Batch]]
  /\ restarts \in 0 .. MaxRestarts
  /\ circuit \in BOOLEAN /\ batch \in Batch /\ batchLate \in BOOLEAN
  /\ run \in Progress

(* Every task of a batch is answered before run_batch returns, whatever     *)
(* crashed, hung, expired or was cut off by the circuit: the "missing       *)
(* result" of _finish never stands for a task that was forgotten.           *)
EveryTaskAnswered ==
  At("finish") => \A t \in 1 .. run.size : results[t].status # "none"

(* An answer was computed for this batch: nothing a worker read for an      *)
(* earlier batch, whose caller was told TIMEOUT or CRASH, is taken for the  *)
(* text of a variant of this one.                                           *)
OwnResults ==
  \A t \in Task : results[t].status # "none" => results[t].batch = batch

(* Between two batches no living worker is at work on a task that was       *)
(* answered for it, and none has an answer waiting.                         *)
NoStaleWork ==
  At("idle") => \A w \in Worker : up[w] => inQ[w] = << >> /\ outQ[w] = << >>

(* With an open circuit no worker is given a task and none is left running  *)
(* one: an engine that cannot be built is not built again for every         *)
(* variant (test_ocr_runtime_failure_telemetry.py:106).                     *)
CircuitStopsWork ==
  circuit => \A w \in Worker : inflight[w] = 0 /\ (up[w] => inQ[w] = << >>)

(* A worker believed warm has its engine loaded; otherwise a task that has  *)
(* to load the model would get the short deadline and the worker would be   *)
(* killed while loading, again and again.                                   *)
WarmedIsLoaded ==
  \A w \in Worker : up[w] /\ warmed[w] /\ inflight[w] = 0 => engine[w]

(* Refinement of the promise in BatchService.                               *)
Service == INSTANCE BatchService WITH
  Saying <- Outcome, open <- ~At("idle"), size <- run.size,
  said <- [t \in Task |-> results[t].status], broken <- circuit

(* Whatever crashes, hangs, expires or answers late, run_batch keeps to its *)
(* promise: no answer of a task is replaced by another or by none, and an   *)
(* unusable engine is never tried again.                                    *)
BatchKept == Service!Spec

(* run_batch returns, also when every worker is dead or hangs and none may  *)
(* be restarted.                                                            *)
BatchEnds == ~At("idle") ~> At("idle")
=============================================================================
