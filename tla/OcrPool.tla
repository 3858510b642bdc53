------------------------------- MODULE OcrPool -------------------------------
(***************************************************************************)
(* OCRProcessPool (backend/ai/ocr_process.py): the thread that runs a      *)
(* batch of image variants, and the worker processes that read them, may   *)
(* hang, may die at any moment and may find their engine unusable.         *)
(*                                                                         *)
(* The state starts after start(): one process per worker, no engine built.*)
(***************************************************************************)
EXTENDS Naturals, Sequences

CONSTANTS
  Workers,       \* n_workers: the workers are 1 .. Workers
  Tasks,         \* the longest batch
  MaxRestarts,   \* max_restarts, over the life of the pool
  MaxBatches     \* bound on the calls of run_batch

ASSUME PoolConstants ==
  /\ Workers \in Nat \ {0} /\ Tasks \in Nat /\ Workers <= Tasks
  /\ MaxRestarts \in Nat /\ MaxBatches \in Nat

Worker == 1 .. Workers
Task == 1 .. Tasks
Answer == {"ok", "empty", "error", "unavailable"}
Unanswered == [status |-> "none", batch |-> 0]

VARIABLES
  up,         \* is the process of the worker alive
  engine,     \* has that process built its OCR engine
  warmed,     \* _Worker.warmed, what the main side believes of it
  inQ, outQ,  \* the two queues of the worker
  late,       \* is the worker's per-task deadline over
  inflight,   \* the task handed to the worker, 0 if none
  pending,    \* tasks not yet handed out
  results,    \* the answer to each task, with the batch it was computed for
  restarts,   \* _total_restarts
  circuit,    \* _engine_unavailable
  batch,      \* number of the batch
  batchLate,  \* is the deadline of the batch over
  run         \* where run_batch is

procs == <<up, engine, inQ, outQ>>
vars == <<procs, warmed, late, inflight, pending, results, restarts, circuit,
          batch, batchLate, run>>

At(pc) == run.pc = pc
Go(pc, w, rest) == run' = [run EXCEPT !.pc = pc, !.at = w, !.scan = rest]

Init ==
  /\ up = [w \in Worker |-> TRUE]
  /\ engine = [w \in Worker |-> FALSE]
  /\ warmed = [w \in Worker |-> FALSE]
  /\ inQ = [w \in Worker |-> << >>] /\ outQ = [w \in Worker |-> << >>]
  /\ late = [w \in Worker |-> FALSE]
  /\ inflight = [w \in Worker |-> 0]
  /\ pending = {} /\ results = [t \in Task |-> Unanswered]
  /\ restarts = 0 /\ circuit = FALSE /\ batch = 0 /\ batchLate = FALSE
  /\ run = [pc |-> "idle", at |-> 1, scan |-> {}, size |-> 0, preload |-> FALSE]

(***************************************************************************)
(* The worker process and the clock.                                       *)
(***************************************************************************)
(* Three constructor calls with fewer and fewer arguments; the next one is *)
(* tried only if the library did not know an argument of the last.         *)
Attempt == {"built", "signature", "broken"}
Built(tries) ==
  \E i \in 1 .. 3 : tries[i] = "built" /\ \A j \in 1 .. i - 1 : tries[j] = "signature"

(* _build fails with an import error (fatal or not), a model directory that *)
(* is missing, or without a constructor that works.                         *)
BuildFailure == {"error", "unavailable"}

(* _infer: text, no text, a MKLDNN primitive that failed, or another        *)
(* exception of the library, which is fatal if a GPU library is missing.    *)
Inference == {"ok", "empty", "mkldnn", "error", "unavailable"}

(* read: a failed primitive rebuilds the engine without MKLDNN and reads    *)
(* once more; MKLDNN is off then, and the same failure a plain exception.   *)
Read(first, rebuilt, second) ==
  IF first # "mkldnn" THEN first
  ELSE IF ~rebuilt THEN "unavailable"
  ELSE IF second = "mkldnn" THEN "error" ELSE second

TurnAnswers(loaded) ==
  {Read(first, Built(tries), second) : first \in Inference,
     tries \in [1 .. 3 -> Attempt], second \in Inference}
  \cup (IF loaded THEN {} ELSE BuildFailure)

(* One turn of _worker_main: an engine that read something stays loaded,   *)
(* any exception drops it.                                                 *)
WorkerAnswers(w) ==
  /\ up[w] /\ inQ[w] # << >>
  /\ \E s \in TurnAnswers(engine[w]) :
       /\ outQ' = [outQ EXCEPT ![w] = Append(@,
            [task |-> Head(inQ[w]).task, batch |-> Head(inQ[w]).batch, status |-> s])]
       /\ engine' = [engine EXCEPT ![w] = s \in {"ok", "empty"}]
  /\ inQ' = [inQ EXCEPT ![w] = Tail(@)]
  /\ UNCHANGED <<up, warmed, late, inflight, pending, results, restarts, circuit,
                 batch, batchLate, run>>

(* A crash in native code; what is in the queues stays there.              *)
WorkerDies(w) ==
  /\ up[w]
  /\ up' = [up EXCEPT ![w] = FALSE] /\ engine' = [engine EXCEPT ![w] = FALSE]
  /\ UNCHANGED <<inQ, outQ, warmed, late, inflight, pending, results, restarts,
                 circuit, batch, batchLate, run>>

TaskDeadlinePasses(w) ==
  /\ inflight[w] # 0 /\ ~late[w]
  /\ late' = [late EXCEPT ![w] = TRUE]
  /\ UNCHANGED <<procs, warmed, inflight, pending, results, restarts, circuit,
                 batch, batchLate, run>>

BatchDeadlinePasses ==
  /\ ~At("idle") /\ ~batchLate
  /\ batchLate' = TRUE
  /\ UNCHANGED <<procs, warmed, late, inflight, pending, results, restarts,
                 circuit, batch, run>>

(***************************************************************************)
(* Parts of run_batch.                                                     *)
(***************************************************************************)
RestartKeepsQueues(w) ==            \* mutant: the new process gets the old queues
  /\ warmed' = [warmed EXCEPT ![w] = FALSE]
  /\ engine' = [engine EXCEPT ![w] = FALSE]
  /\ restarts < MaxRestarts
  /\ restarts' = restarts + 1
  /\ up' = [up EXCEPT ![w] = TRUE]
  /\ UNCHANGED <<inQ, outQ>>

(* _Worker.kill: terminated, killed if need be, forgotten in any case      *)
Kill(w) ==
  /\ warmed' = [warmed EXCEPT ![w] = FALSE]
  /\ engine' = [engine EXCEPT ![w] = FALSE]

(* _Worker.start: new queues, and a process that may fail to start         *)
StartWorker(w) ==
  /\ inQ' = [inQ EXCEPT ![w] = << >>] /\ outQ' = [outQ EXCEPT ![w] = << >>]
  /\ \E started \in BOOLEAN : up' = [up EXCEPT ![w] = started]

(* _restart_worker: the process is killed; below the limit a new one is    *)
(* started.                                                                *)
Restart(w) ==
  /\ Kill(w)
  /\ \/ /\ restarts < MaxRestarts
        /\ restarts' = restarts + 1
        /\ StartWorker(w)
     \/ /\ restarts >= MaxRestarts
        /\ up' = [up EXCEPT ![w] = FALSE]
        /\ UNCHANGED <<restarts, inQ, outQ>>

Result(s) == [status |-> s, batch |-> batch]

(* results[ti] = ...; del inflight[wi] for a worker that gave no answer    *)
GiveUp(w, s) ==
  /\ results' = [results EXCEPT ![inflight[w]] = Result(s)]
  /\ inflight' = [inflight EXCEPT ![w] = 0]
  /\ late' = [late EXCEPT ![w] = FALSE]
  /\ Restart(w)

(* The next worker of the for loop over a copy of inflight, or a new round *)
(* of the while loop.                                                      *)
ScanOn(w) ==
  IF run.scan = {w} THEN Go("top", 1, {}) ELSE Go("poll", 1, run.scan \ {w})

(***************************************************************************)
(* run_batch and preload.                                                  *)
(***************************************************************************)
Refused == circuit

(* Entry: with an open circuit every task is answered at once.             *)
BeginBatch(n, isPreload) ==
  /\ At("idle") /\ batch < MaxBatches
  /\ batch' = batch + 1 /\ batchLate' = FALSE
  /\ run' = [pc |-> IF Refused THEN "finish" ELSE "top", at |-> 1, scan |-> {},
             size |-> n, preload |-> isPreload]
  /\ pending' = IF Refused THEN {} ELSE 1 .. n
  /\ results' = [t \in Task |-> IF Refused /\ t <= n
                                  THEN [status |-> "unavailable", batch |-> batch + 1]
                                  ELSE Unanswered]
  /\ UNCHANGED <<procs, warmed, late, inflight, restarts, circuit>>

RunBatch == \E n \in Task : BeginBatch(n, FALSE)

(* preload: one dummy image for each worker, before any other batch        *)
Preload == batch = 0 /\ BeginBatch(Workers, TRUE)

ExpiredInFlight ==                  \* mutant: only running tasks can expire
  batchLate /\ \E w \in Worker : inflight[w] # 0
Expired == batchLate

(* The head of the while loop.                                             *)
Top ==
  /\ At("top")
  /\ IF pending = {} /\ \A w \in Worker : inflight[w] = 0
       THEN Go("finish", 1, {})
       ELSE IF Expired THEN Go("expire", 1, {}) ELSE Go("assign", 1, {})
  /\ UNCHANGED <<procs, warmed, late, inflight, pending, results, restarts,
                 circuit, batch, batchLate>>

ExpireWorkerLeaves(w) ==            \* mutant: the process is left at its task
  /\ At("expire") /\ inflight[w] # 0
  /\ results' = [results EXCEPT ![inflight[w]] = Result("timeout")]
  /\ inflight' = [inflight EXCEPT ![w] = 0]
  /\ UNCHANGED <<procs, warmed, late, pending, restarts, circuit, batch,
                 batchLate, run>>

(* _expire_batch: a native call can only be ended with its process         *)
ExpireWorker(w) ==
  /\ At("expire") /\ inflight[w] # 0
  /\ GiveUp(w, "timeout")
  /\ UNCHANGED <<pending, circuit, batch, batchLate, run>>

ExpirePending ==
  /\ At("expire") /\ \A w \in Worker : inflight[w] = 0
  /\ results' = [t \in Task |-> IF t \in pending THEN Result("timeout") ELSE results[t]]
  /\ pending' = {}
  /\ Go("finish", 1, {})
  /\ UNCHANGED <<procs, warmed, late, inflight, restarts, circuit, batch, batchLate>>

(* The end of one turn of the for loop over the workers; after the last    *)
(* the tasks now in flight are gone through.                               *)
AssignOn(after) ==
  IF run.at < Workers THEN Go("assign", run.at + 1, {})
  ELSE LET busy == {w \in Worker : after[w] # 0}
       IN Go(IF busy = {} THEN "top" ELSE "poll", 1, busy)

Busy(w) == inflight[w] # 0 \/ pending = {}

AssignSkips ==
  /\ At("assign") /\ Busy(run.at)
  /\ AssignOn(inflight)
  /\ UNCHANGED <<procs, warmed, late, inflight, pending, results, restarts,
                 circuit, batch, batchLate>>

(* A worker found dead is restarted, and passed over if it is dead again.  *)
AssignRestarts ==
  /\ At("assign") /\ ~Busy(run.at) /\ ~up[run.at]
  /\ Restart(run.at)
  /\ IF up'[run.at] THEN Go("submit", run.at, {}) ELSE AssignOn(inflight)
  /\ UNCHANGED <<late, inflight, pending, results, circuit, batch, batchLate>>

(* The first pending task is handed to the worker; or submit raises.       *)
AssignTask ==
  /\ At("submit") \/ (At("assign") /\ ~Busy(run.at) /\ up[run.at])
  /\ \E t \in pending :
       /\ \A u \in pending : t <= u
       /\ pending' = pending \ {t}
       /\ \/ /\ inQ' = [inQ EXCEPT ![run.at] = Append(@, [task |-> t, batch |-> batch])]
             /\ inflight' = [inflight EXCEPT ![run.at] = t]
             /\ late' = [late EXCEPT ![run.at] = FALSE]
             /\ UNCHANGED results
          \/ /\ results' = [results EXCEPT ![t] = Result("error")]
             /\ UNCHANGED <<inQ, inflight, late>>
       /\ AssignOn(inflight')
  /\ UNCHANGED <<up, engine, outQ, warmed, restarts, circuit, batch, batchLate>>

(* poll returns an answer, which is not fatal                              *)
PollAnswer(w) ==
  /\ At("poll") /\ w \in run.scan /\ outQ[w] # << >>
  /\ LET msg == Head(outQ[w])
     IN /\ msg.status # "unavailable"
        /\ results' = [results EXCEPT ![msg.task] =
                         [status |-> msg.status, batch |-> msg.batch]]
        /\ warmed' = [warmed EXCEPT ![w] = msg.status \in {"ok", "empty"}]
  /\ outQ' = [outQ EXCEPT ![w] = Tail(@)]
  /\ inflight' = [inflight EXCEPT ![w] = 0]
  /\ late' = [late EXCEPT ![w] = FALSE]
  /\ ScanOn(w)
  /\ UNCHANGED <<up, engine, inQ, pending, restarts, circuit, batch, batchLate>>

Others(w) == {v \in Worker : v # w /\ inflight[v] # 0}

CutOffPending(w) == pending         \* mutant: tasks of other workers are forgotten
CutOff(w) == pending \cup {inflight[v] : v \in Others(w)}

(* A fatal answer opens the circuit: pending tasks and the tasks of the    *)
(* other workers are answered for them, and those workers are killed.      *)
PollFatal(w) ==
  /\ At("poll") /\ w \in run.scan /\ outQ[w] # << >>
  /\ LET msg == Head(outQ[w])
     IN /\ msg.status = "unavailable"
        /\ results' = [t \in Task |->
             IF t \in CutOff(w) THEN Result("unavailable")
             ELSE IF t = msg.task THEN [status |-> "unavailable", batch |-> msg.batch]
             ELSE results[t]]
        /\ up' = [v \in Worker |-> up[v] /\ v \notin Others(w)]
        /\ engine' = [v \in Worker |-> engine[v] /\ v \notin Others(w)]
        /\ warmed' = [v \in Worker |-> warmed[v] /\ v # w /\ v \notin Others(w)]
  /\ outQ' = [outQ EXCEPT ![w] = Tail(@)]
  /\ inflight' = [v \in Worker |-> 0] /\ late' = [v \in Worker |-> FALSE]
  /\ pending' = {} /\ circuit' = TRUE
  /\ Go("finish", 1, {})
  /\ UNCHANGED <<inQ, restarts, batch, batchLate>>

(* poll returns None; the worker may answer or die before it is looked at  *)
PollNothing(w) ==
  /\ At("poll") /\ w \in run.scan /\ outQ[w] = << >>
  /\ Go("look", w, run.scan)
  /\ UNCHANGED <<procs, warmed, late, inflight, pending, results, restarts,
                 circuit, batch, batchLate>>

FoundDead ==
  /\ At("look") /\ ~up[run.at]
  /\ GiveUp(run.at, "crash")
  /\ ScanOn(run.at)
  /\ UNCHANGED <<pending, circuit, batch, batchLate>>

FoundLate ==
  /\ At("look") /\ up[run.at] /\ late[run.at]
  /\ GiveUp(run.at, "timeout")
  /\ ScanOn(run.at)
  /\ UNCHANGED <<pending, circuit, batch, batchLate>>

FoundBusy ==
  /\ At("look") /\ up[run.at] /\ ~late[run.at]
  /\ ScanOn(run.at)
  /\ UNCHANGED <<procs, warmed, late, inflight, pending, results, restarts,
                 circuit, batch, batchLate>>

(* _finish; preload opens the circuit if no dummy image could be read.     *)
Finish ==
  /\ At("finish")
  /\ LET filled == [t \in Task |-> IF t <= run.size /\ results[t].status = "none"
                                     THEN Result("error") ELSE results[t]]
     IN /\ results' = filled
        /\ circuit' = (circuit \/ (run.preload
             /\ \A t \in 1 .. run.size : filled[t].status \notin {"ok", "empty"}))
  /\ Go("idle", 1, {})
  /\ UNCHANGED <<procs, warmed, late, inflight, pending, restarts, batch, batchLate>>

Environment ==
  \/ \E w \in Worker : WorkerAnswers(w) \/ WorkerDies(w) \/ TaskDeadlinePasses(w)
  \/ BatchDeadlinePasses

BatchStep ==
  \/ Top \/ ExpirePending \/ AssignSkips \/ AssignRestarts \/ AssignTask
  \/ FoundDead \/ FoundLate \/ FoundBusy \/ Finish
  \/ \E w \in Worker : \/ ExpireWorker(w) \/ PollAnswer(w) \/ PollFatal(w)
                       \/ PollNothing(w)

Next == Environment \/ RunBatch \/ Preload \/ BatchStep

Spec == Init /\ [][Next]_vars

(* run_batch runs on, and every batch has a deadline (batch_timeout_sec).  *)
FairSpec == Spec /\ WF_vars(BatchStep) /\ WF_vars(BatchDeadlinePasses)
=============================================================================
