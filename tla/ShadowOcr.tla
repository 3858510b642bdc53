------------------------------ MODULE ShadowOcr ------------------------------
(***************************************************************************)
(* Shadow OCR: every crop given to the production OCR is also read by the  *)
(* evidence engines of v1.2.1 (ocr_shadow_hook.py, ocr_shadow_stage.py,    *)
(* ocr_orchestrator.py), whose readings become rows of the database        *)
(* (ocr_v121_db.py) and work for the collector's thread (ocr_collector.py).*)
(*                                                                         *)
(* Threads: the inference thread that dispatches crops, the one worker of  *)
(* the shadow executor, a thread per engine and crop, the collector's and *)
(* the server's, which shuts the stage down.                               *)
(***************************************************************************)
EXTENDS Naturals, Sequences, FiniteSets

CONSTANTS
  Inputs,     \* bound: crops dispatched
  Order,      \* the engines' roles, in the order they are built and gathered
  QueueMax    \* the collector's queue (256)

Roles == {Order[n] : n \in DOMAIN Order}

ASSUME ShadowConstants == Inputs \in Nat /\ QueueMax \in Nat \ {0} /\ Order \in Seq(STRING)

Input == 1 .. Inputs
Nothing == 0

VARIABLES
  wanted,     \* the engines the configuration enables
  submitted,  \* _submitted: crops that were admitted
  caller,     \* the inference thread: at _lock, or past it with a crop
  accepting,  \* _executor is not None
  executor,   \* the executor takes and runs work: "up", "down"
  fut,        \* what became of each crop
  queue,      \* the executor's queue
  pc, job,    \* where its worker is, with which crop
  k,          \* how many engines it has built, or gathered
  built, stage, \* _built; _stage is not None
  ready, open,  \* engines that are healthy; that hold a session or a pool
  th,         \* each engine's thread for each crop
  expired,    \* the crop's deadline has passed
  got,        \* what was gathered of each engine, and is not stored yet
  rows,       \* rows of ocr_engine_results
  cq, hand, inflight, halt, handled, \* the collector: queue, job in hand,
              \* _inflight, _stop, jobs processed
  collector,  \* its thread: "none", "up", "gone"
  down,       \* where the shutdown is
  toClose,    \* engines it has not closed yet
  owed, hurried \* jobs the collector had when its close began; it timed out

call == <<submitted, caller>>
work == <<fut, queue>>
worker == <<pc, job, k>>
build == <<built, stage, ready>>
run == <<th, expired, got>>
collecting == <<cq, hand, inflight, handled, collector>>
closing == <<accepting, executor, down, toClose, owed, hurried, halt>>
vars == <<wanted, call, work, worker, build, open, run, rows, collecting, closing>>

Init ==
  /\ wanted \in SUBSET Roles
  /\ submitted = {} /\ caller = [at |-> "idle", input |-> Nothing]
  /\ accepting = TRUE /\ executor = "up"
  /\ fut = [i \in Input |-> "new"] /\ queue = <<>>
  /\ pc = "idle" /\ job = Nothing /\ k = 0
  /\ built = FALSE /\ stage = FALSE /\ ready = {}
  /\ open = [e \in Roles |-> FALSE]
  /\ th = [i \in Input |-> [e \in Roles |-> "none"]]
  /\ expired = FALSE /\ got = [e \in Roles |-> "none"]
  /\ rows = [i \in Input |-> [e \in Roles |-> 0]]
  /\ cq = <<>> /\ hand = Nothing /\ inflight = 0 /\ halt = FALSE /\ handled = {}
  /\ collector = "none"
  /\ down = "no" /\ toClose = {} /\ owed = {} /\ hurried = FALSE

(* _lock is held by the whole of _build; the other holders take one step.  *)
LockFree == pc /= "building"

(* A Paddle adapter makes its process pool whenever it finds none.         *)
Reopens(e) == e /= "ENGRAVED_V121"

(***************************************************************************)
(* The inference thread: dispatch_shadow_ocr_input.                        *)
(***************************************************************************)
Enters(i) ==
  /\ submitted' = submitted \cup {i}
  /\ caller' = IF i \in submitted THEN [at |-> "idle", input |-> Nothing]
               ELSE [at |-> "admitted", input |-> i]

(* A new crop is the next one of Input.                                    *)
Dispatch(i) ==
  /\ caller.at = "idle" /\ \A j \in 1 .. i - 1 : j \in submitted
  /\ IF LockFree THEN Enters(i)
     ELSE submitted' = submitted /\ caller' = [at |-> "waiting", input |-> i]
  /\ UNCHANGED <<wanted, work, worker, build, open, run, rows, collecting, closing>>

LockGranted ==
  /\ caller.at = "waiting" /\ LockFree
  /\ Enters(caller.input)
  /\ UNCHANGED <<wanted, work, worker, build, open, run, rows, collecting, closing>>

(* The executor is read after the lock is released.                        *)
ReadExecutor ==
  /\ caller.at = "admitted"
  /\ IF accepting
     THEN fut' = fut /\ caller' = [caller EXCEPT !.at = "submitting"]
     ELSE /\ fut' = [fut EXCEPT ![caller.input] = "refused"]
          /\ caller' = [at |-> "idle", input |-> Nothing]
  /\ UNCHANGED <<wanted, submitted, queue, worker, build, open, run, rows, collecting, closing>>

(* An executor that was shut down since raises.                            *)
Submit ==
  /\ caller.at = "submitting"
  /\ caller' = [at |-> "idle", input |-> Nothing]
  /\ LET i == caller.input IN
     IF executor = "up"
     THEN queue' = Append(queue, i) /\ fut' = [fut EXCEPT ![i] = "queued"]
     ELSE queue' = queue /\ fut' = [fut EXCEPT ![i] = "refused"]
  /\ UNCHANGED <<wanted, submitted, worker, build, open, run, rows, collecting, closing>>

(***************************************************************************)
(* The executor's worker: _run_input.                                      *)
(***************************************************************************)
Goto(where) == pc' = where /\ UNCHANGED job

Ends(how) ==
  /\ pc' = "idle" /\ job' = Nothing /\ k' = 0
  /\ fut' = [fut EXCEPT ![job] = how]

Take ==
  /\ pc = "idle" /\ queue /= <<>>
  /\ job' = Head(queue) /\ queue' = Tail(queue)
  /\ fut' = [fut EXCEPT ![job'] = "running"]
  /\ pc' = "taken"
  /\ UNCHANGED <<wanted, call, k, build, open, run, rows, collecting, closing>>

(* _build returns at once when it was entered before, whatever came of it. *)
BuildBegins ==
  /\ pc = "taken"
  /\ IF built THEN built' = built /\ Goto("check") ELSE built' = TRUE /\ Goto("building")
  /\ UNCHANGED <<wanted, call, work, k, stage, ready, open, run, rows, collecting, closing>>

(* initialize never raises: an engine that fails is not ready. A Paddle    *)
(* adapter has made its pool even so.                                      *)
Initialize(e) ==
  /\ ready' \in {ready, ready \cup {e}}
  /\ open' = [open EXCEPT ![e] = e \in ready' \/ Reopens(e)]

BuildEngine ==
  /\ pc = "building" /\ k < Len(Order)
  /\ k' = k + 1
  /\ LET e == Order[k + 1] IN
     IF e \in wanted THEN Initialize(e) ELSE UNCHANGED <<ready, open>>
  /\ UNCHANGED <<wanted, call, work, pc, job, built, stage, run, rows, collecting, closing>>

BuiltAll == pc = "building" /\ k = Len(Order)

(* The engines initialized before a missing one was noticed, or before the *)
(* migration raised, stay as they are.                                     *)
BuildMissing ==
  /\ BuiltAll /\ wanted /= Roles
  /\ Goto("check") /\ k' = 0
  /\ UNCHANGED <<wanted, call, work, build, open, run, rows, collecting, closing>>

MigrationFails ==
  /\ BuiltAll /\ ready = Roles
  /\ Goto("check") /\ k' = 0
  /\ UNCHANGED <<wanted, call, work, build, open, run, rows, collecting, closing>>

BuildUnhealthy ==
  /\ BuiltAll /\ wanted = Roles /\ ready /= Roles
  /\ open' = [e \in Roles |-> FALSE]
  /\ Goto("check") /\ k' = 0
  /\ UNCHANGED <<wanted, call, work, build, run, rows, collecting, closing>>

Publish ==
  /\ BuiltAll /\ ready = Roles
  /\ stage' = TRUE /\ collector' = "up"
  /\ Goto("check") /\ k' = 0
  /\ UNCHANGED <<wanted, call, work, built, ready, open, run, rows, cq, hand, inflight,
                 handled, closing>>

(* _stage is read twice; None at either reading ends the crop.             *)
CheckStage ==
  /\ pc \in {"check", "enter"}
  /\ IF ~stage THEN Ends("failed") /\ UNCHANGED run
     ELSE /\ UNCHANGED fut /\ k' = k
          /\ IF pc = "check" THEN Goto("enter") /\ UNCHANGED run
             ELSE /\ Goto("gather") /\ expired' = FALSE
                  /\ th' = [th EXCEPT ![job] = [e \in Roles |-> IF Reopens(e) THEN "called" ELSE "running"]]
                  /\ got' = [e \in Roles |-> "none"]
  /\ UNCHANGED <<wanted, call, queue, build, open, rows, collecting, closing>>

(***************************************************************************)
(* The engines' threads. An engine may stay in its call for ever; what a   *)
(* call returns after its deadline is dropped.                             *)
(***************************************************************************)
Recognize(i, e) ==
  /\ th[i][e] = "called"
  /\ th' = [th EXCEPT ![i][e] = "running"]
  /\ open' = [open EXCEPT ![e] = TRUE]
  /\ UNCHANGED <<wanted, call, work, worker, build, expired, got, rows, collecting, closing>>

Current(i, e) == i = job /\ pc = "gather" /\ got[e] = "none"

(* Not ready, no characters and gated characters are results; the session  *)
(* may be closed under the call.                                           *)
EngravedOutcome == {"result", "failure"}

(* So are an unavailable pool, its timeouts and crashes, and no VIN.       *)
PaddleOutcome == {"result", "failure"}

EngineEnds(i, e) ==
  /\ th[i][e] = "running"
  /\ \E how \in IF Reopens(e) THEN PaddleOutcome ELSE EngravedOutcome :
       th' = [th EXCEPT ![i][e] = IF Current(i, e) THEN how ELSE "none"]
  /\ UNCHANGED <<wanted, call, work, worker, build, open, expired, got, rows, collecting, closing>>

(***************************************************************************)
(* The orchestrator: OcrOrchestrator.run.                                  *)
(***************************************************************************)
Deadline ==
  /\ pc = "gather" /\ ~expired
  /\ expired' = TRUE
  /\ UNCHANGED <<wanted, call, work, worker, build, open, th, got, rows, collecting, closing>>

Answered(e) == th[job][e] \in {"result", "failure"}

(* mutant: a future that timed out leaves nothing behind *)
RecordAnswered(e) == got' = [got EXCEPT ![e] = IF Answered(e) THEN th[job][e] ELSE "none"]

Record(e) == got' = [got EXCEPT ![e] = IF Answered(e) THEN th[job][e] ELSE "timeout"]

(* mutant: result() is called without a timeout *)
PatienceForEver(e) == Answered(e)

Patience(e) == Answered(e) \/ expired

Gather ==
  /\ pc = "gather" /\ k < Len(Order)
  /\ LET e == Order[k + 1] IN
     /\ Patience(e)
     /\ Record(e)
     /\ th' = [th EXCEPT ![job][e] = IF Answered(e) THEN "none" ELSE @]
  /\ k' = k + 1
  /\ UNCHANGED <<wanted, call, work, pc, job, build, open, expired, rows, collecting, closing>>

Gathered ==
  /\ pc = "gather" /\ k = Len(Order)
  /\ Goto("store") /\ k' = 0 /\ expired' = FALSE
  /\ UNCHANGED <<wanted, call, work, build, open, th, got, rows, collecting, closing>>

(***************************************************************************)
(* The stage: a row for every result, then for every timeout, then for     *)
(* every failure, each committed on its own; a write that fails ends the   *)
(* crop. write_final is False: the final text is the production OCR's.     *)
(***************************************************************************)
Left == {e \in Roles : got[e] /= "none"}
Rank(e) == CASE got[e] = "result" -> 1 [] got[e] = "timeout" -> 2 [] OTHER -> 3

Insert(e) == rows' = [rows EXCEPT ![job][e] = @ + 1]

Store(e) ==
  /\ pc = "store" /\ e \in Left /\ \A f \in Left : Rank(e) <= Rank(f)
  /\ Insert(e)
  /\ got' = [got EXCEPT ![e] = "none"]
  /\ UNCHANGED <<wanted, call, work, worker, build, open, th, expired, collecting, closing>>

StoreFails ==
  /\ pc = "store" /\ Left /= {}
  /\ got' = [e \in Roles |-> "none"] /\ Ends("failed")
  /\ UNCHANGED <<wanted, call, queue, build, open, th, expired, rows, collecting, closing>>

(* ActiveLearningCollector.submit: a full queue drops the job.             *)
Room == Len(cq) < QueueMax
Offer == cq' = IF Room THEN Append(cq, job) ELSE cq

Finish ==
  /\ pc = "store" /\ Left = {}
  /\ Offer
  /\ Ends("done")
  /\ UNCHANGED <<wanted, call, queue, build, open, run, rows, hand, inflight, handled, collector, closing>>

(***************************************************************************)
(* The collector's thread.                                                 *)
(***************************************************************************)
CollectorTakes ==
  /\ collector = "up" /\ hand = Nothing /\ ~halt /\ cq /= <<>>
  /\ hand' = Head(cq) /\ cq' = Tail(cq)
  /\ UNCHANGED <<wanted, call, work, worker, build, open, run, rows, inflight, handled,
                 collector, closing>>

CollectorCounts ==
  /\ hand /= Nothing /\ inflight = 0
  /\ inflight' = 1
  /\ UNCHANGED <<wanted, call, work, worker, build, open, run, rows, cq, hand, handled,
                 collector, closing>>

(* _process writes crops, metadata and items, or raises: both end the job. *)
CollectorProcesses ==
  /\ hand /= Nothing /\ inflight = 1
  /\ hand' = Nothing /\ inflight' = 0 /\ handled' = handled \cup {hand}
  /\ UNCHANGED <<wanted, call, work, worker, build, open, run, rows, cq, collector, closing>>

(* The get that waits, or the loop's test, sees the stop.                  *)
CollectorEnds ==
  /\ collector = "up" /\ hand = Nothing /\ halt
  /\ collector' = "gone"
  /\ UNCHANGED <<wanted, call, work, worker, build, open, run, rows, cq, hand, inflight,
                 handled, closing>>

(***************************************************************************)
(* The server's thread: shutdown_shadow_ocr(wait=False). What it took, the *)
(* stage and the collector or neither, is closed after the executor.       *)
(***************************************************************************)
ShutTakes ==
  /\ down = "no" /\ LockFree
  /\ accepting' = FALSE /\ stage' = FALSE
  /\ toClose' = IF stage THEN Roles ELSE {}
  /\ down' = "cancel"
  /\ UNCHANGED <<wanted, call, work, worker, built, ready, open, run, rows, collecting,
                 executor, owed, hurried, halt>>

ShutCancels ==
  /\ down = "cancel"
  /\ executor' = "down" /\ queue' = <<>>
  /\ fut' = [i \in Input |-> IF fut[i] = "queued" THEN "cancelled" ELSE fut[i]]
  /\ IF toClose = {}
     THEN down' = "done" /\ owed' = owed
     ELSE down' = "flush" /\ owed' = {cq[n] : n \in DOMAIN cq} \cup ({hand} \ {Nothing})
  /\ UNCHANGED <<wanted, call, worker, build, open, run, rows, collecting, accepting,
                 toClose, hurried, halt>>

(* mutant: the flush looks at the job in hand only *)
FlushedInHand == inflight = 0

(* Each wait gives up after its timeout.                                   *)
Flushed == cq = <<>> /\ inflight = 0

ShutFlushes ==
  /\ down = "flush"
  /\ \/ Flushed /\ hurried' = hurried
     \/ ~Flushed /\ hurried' = TRUE
  /\ halt' = TRUE /\ down' = "join"
  /\ UNCHANGED <<wanted, call, work, worker, build, open, run, rows, collecting, accepting,
                 executor, toClose, owed>>

ShutJoins ==
  /\ down = "join"
  /\ hurried' = (hurried \/ collector /= "gone")
  /\ down' = "engines"
  /\ UNCHANGED <<wanted, call, work, worker, build, open, run, rows, collecting, accepting,
                 executor, toClose, owed, halt>>

ShutCloses ==
  /\ down = "engines"
  /\ \E e \in toClose : toClose' = toClose \ {e} /\ open' = [open EXCEPT ![e] = FALSE]
  /\ down' = IF toClose' = {} THEN "done" ELSE "engines"
  /\ UNCHANGED <<wanted, call, work, worker, build, run, rows, collecting, accepting,
                 executor, owed, hurried, halt>>

-----------------------------------------------------------------------------
Caller == (\E i \in Input : Dispatch(i)) \/ LockGranted \/ ReadExecutor \/ Submit

Build == BuildBegins \/ BuildEngine \/ BuildMissing \/ MigrationFails \/ BuildUnhealthy \/ Publish

Worker ==
  \/ Take \/ Build \/ CheckStage
  \/ Deadline \/ Gather \/ Gathered
  \/ (\E e \in Roles : Store(e)) \/ StoreFails \/ Finish

Engines == \E i \in Input, e \in Roles : Recognize(i, e) \/ EngineEnds(i, e)

Collector == CollectorTakes \/ CollectorCounts \/ CollectorProcesses \/ CollectorEnds

Shutdown == ShutTakes \/ ShutCancels \/ ShutFlushes \/ ShutJoins \/ ShutCloses

Next == Caller \/ Worker \/ Engines \/ Collector \/ Shutdown

Spec == Init /\ [][Next]_vars

(* The executor's worker runs; an engine's call need not end, nor does     *)
(* anybody have to shut the stage down.                                    *)
FairSpec == Spec /\ WF_vars(Worker)
=============================================================================
