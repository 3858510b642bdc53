------------------------------ MODULE PoolProofs ------------------------------
(***************************************************************************)
(* Theorems about the process pool, for any number of workers, tasks,      *)
(* restarts and batches.                                                   *)
(***************************************************************************)
EXTENDS PoolSafety, TLAPS

USE PoolConstants

(* A restart, successful or refused, keeps the types.                      *)
LEMMA RestartTypes ==
  ASSUME TypeOK, NEW w \in Worker, Restart(w)
  PROVE  /\ up' \in [Worker -> BOOLEAN] /\ engine' \in [Worker -> BOOLEAN]
         /\ warmed' \in [Worker -> BOOLEAN] /\ restarts' \in 0 .. MaxRestarts
         /\ inQ' \in [Worker -> Seq(Request)]
         /\ outQ' \in [Worker -> Seq(Reply)]
<1>1. up' \in [Worker -> BOOLEAN] /\ engine' \in [Worker -> BOOLEAN]
      /\ warmed' \in [Worker -> BOOLEAN]
  BY DEF TypeOK, Restart, Kill, StartWorker
<1>2. restarts' \in 0 .. MaxRestarts
  BY DEF TypeOK, Restart, Kill, StartWorker
<1>3. inQ' \in [Worker -> Seq(Request)]
  <2>1. << >> \in Seq(Request)
    OBVIOUS
  <2>2. inQ \in [Worker -> Seq(Request)]
    BY DEF TypeOK
  <2>3. inQ' = [inQ EXCEPT ![w] = << >>] \/ inQ' = inQ
    BY DEF Restart, Kill, StartWorker
  <2> QED BY <2>1, <2>2, <2>3
<1>4. outQ' \in [Worker -> Seq(Reply)]
  <2>1. << >> \in Seq(Reply)
    OBVIOUS
  <2>2. outQ \in [Worker -> Seq(Reply)]
    BY DEF TypeOK
  <2>3. outQ' = [outQ EXCEPT ![w] = << >>] \/ outQ' = outQ
    BY DEF Restart, Kill, StartWorker
  <2> QED BY <2>1, <2>2, <2>3
<1> QED BY <1>1, <1>2, <1>3, <1>4

(* The program counter stays in its type.                                  *)
LEMMA GoTypes ==
  ASSUME TypeOK, NEW pc \in Place,
         NEW w \in Worker, NEW rest \in SUBSET Worker, Go(pc, w, rest)
  PROVE  run' \in Progress
BY DEF TypeOK, Go, Progress

LEMMA FirstWorker == 1 \in Worker
BY DEF Worker

LEMMA ScanTypes ==
  ASSUME TypeOK, NEW w \in Worker, ScanOn(w)
  PROVE  run' \in Progress
BY FirstWorker, GoTypes DEF Place, ScanOn, TypeOK, Progress

LEMMA AssignTypes ==
  ASSUME TypeOK, NEW after, AssignOn(after)
  PROVE  run' \in Progress
<1>1. CASE run.at < Workers
  <2>1. run.at + 1 \in Worker
    BY <1>1 DEF TypeOK, Worker, Progress
  <2> QED BY <1>1, <2>1, GoTypes DEF AssignOn, Place
<1>2. CASE ~(run.at < Workers)
  <2> DEFINE busy == {w \in Worker : after[w] # 0}
  <2>1. busy \in SUBSET Worker
    OBVIOUS
  <2>2. Go(IF busy = {} THEN "top" ELSE "poll", 1, busy)
    BY <1>2 DEF AssignOn
  <2> QED BY <2>1, <2>2, GoTypes, FirstWorker DEF Place
<1> QED BY <1>1, <1>2

(* A nonempty queue splits into elements of its type.                      *)
LEMMA QueueParts ==
  ASSUME NEW S, NEW q \in Seq(S), q # << >>
  PROVE  Head(q) \in S /\ Tail(q) \in Seq(S)
OBVIOUS

(* Whatever the engine goes through in one turn, the worker gives one of    *)
(* the four answers.                                                        *)
LEMMA TurnAnswersTypes == ASSUME NEW loaded PROVE TurnAnswers(loaded) \subseteq Answer
<1>1. ASSUME NEW first \in Inference, NEW rebuilt, NEW second \in Inference
      PROVE  Read(first, rebuilt, second) \in Answer
  BY DEF Read, Inference, Answer
<1>2. BuildFailure \subseteq Answer
  BY DEF BuildFailure, Answer
<1> QED BY <1>1, <1>2 DEF TurnAnswers

LEMMA EnvironmentTypes == TypeOK /\ Environment => TypeOK'
<1> SUFFICES ASSUME TypeOK, Environment PROVE TypeOK'
  OBVIOUS
<1>1. ASSUME NEW w \in Worker, WorkerAnswers(w) PROVE TypeOK'
  <2>1. inQ \in [Worker -> Seq(Request)] /\ outQ \in [Worker -> Seq(Reply)]
    BY DEF TypeOK
  <2>2. Head(inQ[w]) \in Request /\ Tail(inQ[w]) \in Seq(Request)
    BY <1>1, <2>1, QueueParts DEF WorkerAnswers
  <2>3. inQ' \in [Worker -> Seq(Request)]
    BY <1>1, <2>1, <2>2 DEF WorkerAnswers
  <2>4. PICK s \in Answer :
          /\ outQ' = [outQ EXCEPT ![w] = Append(@,
               [task |-> Head(inQ[w]).task, batch |-> Head(inQ[w]).batch, status |-> s])]
          /\ engine' = [engine EXCEPT ![w] = s \in {"ok", "empty"}]
    BY <1>1, TurnAnswersTypes DEF WorkerAnswers
  <2>5. [task |-> Head(inQ[w]).task, batch |-> Head(inQ[w]).batch, status |-> s] \in Reply
    BY <2>2 DEF Request, Reply
  <2>6. Append(outQ[w], [task |-> Head(inQ[w]).task, batch |-> Head(inQ[w]).batch,
                         status |-> s]) \in Seq(Reply)
    BY <2>1, <2>5
  <2>7. outQ' \in [Worker -> Seq(Reply)]
    BY <2>1, <2>4, <2>6
  <2>8. engine' \in [Worker -> BOOLEAN]
    BY <2>4 DEF TypeOK
  <2> QED BY <1>1, <2>3, <2>7, <2>8 DEF TypeOK, WorkerAnswers
<1>2. ASSUME NEW w \in Worker, WorkerDies(w) PROVE TypeOK'
  BY <1>2 DEF TypeOK, WorkerDies
<1>3. ASSUME NEW w \in Worker, TaskDeadlinePasses(w) PROVE TypeOK'
  BY <1>3 DEF TypeOK, TaskDeadlinePasses, procs
<1>4. ASSUME BatchDeadlinePasses PROVE TypeOK'
  BY <1>4 DEF TypeOK, BatchDeadlinePasses, procs
<1> QED BY <1>1, <1>2, <1>3, <1>4 DEF Environment

LEMMA BeginTypes ==
  ASSUME TypeOK, NEW n \in Task, NEW p \in BOOLEAN, BeginBatch(n, p)
  PROVE  TypeOK'
<1>1. batch' \in Batch /\ batch + 1 \in Batch
  BY DEF TypeOK, BeginBatch, Batch
<1>2. run' \in Progress
  BY FirstWorker DEF BeginBatch, Progress, Place, Task
<1>3. pending' \in SUBSET Task
  BY DEF BeginBatch, Task
<1>4. results' \in [Task -> [status : Outcome, batch : Batch]]
  BY <1>1 DEF BeginBatch, Outcome, Answer, Unanswered, Batch
<1> QED BY <1>1, <1>2, <1>3, <1>4 DEF TypeOK, BeginBatch, procs

LEMMA BatchStepTypes == TypeOK /\ BatchStep => TypeOK'
<1> SUFFICES ASSUME TypeOK, BatchStep PROVE TypeOK'
  OBVIOUS
<1> DEFINE Answers == [Task -> [status : Outcome, batch : Batch]]
<1>a. ASSUME NEW s \in Outcome PROVE Result(s) \in [status : Outcome, batch : Batch]
  BY DEF TypeOK, Result
<1>1. CASE Top
  <2>1. run' \in Progress
    BY <1>1, GoTypes, FirstWorker DEF Top, Place
  <2> QED BY <1>1, <2>1 DEF TypeOK, Top, procs
<1>2. CASE ExpirePending
  <2>1. run' \in Progress
    BY <1>2, GoTypes, FirstWorker DEF ExpirePending, Place
  <2>2. results' \in Answers
    BY <1>2, <1>a DEF TypeOK, ExpirePending, Outcome
  <2> QED BY <1>2, <2>1, <2>2 DEF TypeOK, ExpirePending, procs
<1>3. CASE AssignSkips
  <2>1. run' \in Progress
    BY <1>3, AssignTypes DEF AssignSkips
  <2> QED BY <1>3, <2>1 DEF TypeOK, AssignSkips, procs
<1>4. CASE AssignRestarts
  <2>1. run.at \in Worker /\ run \in Progress
    BY DEF TypeOK, Progress
  <2>2. run' \in Progress
    BY <1>4, <2>1, AssignTypes, GoTypes DEF AssignRestarts, Place
  <2>3. Restart(run.at)
    BY <1>4 DEF AssignRestarts
  <2> QED BY <1>4, <2>1, <2>2, <2>3, RestartTypes DEF TypeOK, AssignRestarts
<1>5. CASE AssignTask
  <2>1. run.at \in Worker
    BY DEF TypeOK, Progress
  <2>2. PICK t \in pending :
         /\ pending' = pending \ {t}
         /\ \/ /\ inQ' = [inQ EXCEPT ![run.at] = Append(@, [task |-> t, batch |-> batch])]
               /\ inflight' = [inflight EXCEPT ![run.at] = t]
               /\ late' = [late EXCEPT ![run.at] = FALSE]
               /\ UNCHANGED results
            \/ /\ results' = [results EXCEPT ![t] = Result("error")]
               /\ UNCHANGED <<inQ, inflight, late>>
         /\ AssignOn(inflight')
    BY <1>5 DEF AssignTask
  <2>3. t \in Task
    BY DEF TypeOK
  <2>4. run' \in Progress
    BY <2>2, AssignTypes
  <2>5. results' \in Answers
    <3>1. Result("error") \in [status : Outcome, batch : Batch]
      BY <1>a DEF Outcome, Answer
    <3> QED BY <2>2, <2>3, <3>1 DEF TypeOK
  <2>6. inflight' \in [Worker -> {0} \cup Task] /\ late' \in [Worker -> BOOLEAN]
        /\ pending' \in SUBSET Task
    BY <2>1, <2>2, <2>3 DEF TypeOK
  <2>7. inQ \in [Worker -> Seq(Request)] /\ [task |-> t, batch |-> batch] \in Request
    BY <2>3 DEF TypeOK, Request
  <2>8. Append(inQ[run.at], [task |-> t, batch |-> batch]) \in Seq(Request)
    BY <2>1, <2>7
  <2>9. inQ' \in [Worker -> Seq(Request)]
    BY <2>2, <2>7, <2>8
  <2> QED BY <1>5, <2>4, <2>5, <2>6, <2>9 DEF TypeOK, AssignTask
<1>6. CASE FoundDead
  <2>1. run.at \in Worker /\ GiveUp(run.at, "crash") /\ Restart(run.at)
    BY <1>6 DEF FoundDead, GiveUp, TypeOK, Progress
  <2>2. results' \in Answers /\ inflight' \in [Worker -> {0} \cup Task]
        /\ late' \in [Worker -> BOOLEAN]
    BY <2>1, <1>a DEF GiveUp, TypeOK, Outcome
  <2>3. run' \in Progress
    BY <1>6, <2>1, ScanTypes DEF FoundDead
  <2> QED BY <1>6, <2>1, <2>2, <2>3, RestartTypes DEF TypeOK, FoundDead
<1>7. CASE FoundLate
  <2>1. run.at \in Worker /\ GiveUp(run.at, "timeout") /\ Restart(run.at)
    BY <1>7 DEF FoundLate, GiveUp, TypeOK, Progress
  <2>2. results' \in Answers /\ inflight' \in [Worker -> {0} \cup Task]
        /\ late' \in [Worker -> BOOLEAN]
    BY <2>1, <1>a DEF GiveUp, TypeOK, Outcome
  <2>3. run' \in Progress
    BY <1>7, <2>1, ScanTypes DEF FoundLate
  <2> QED BY <1>7, <2>1, <2>2, <2>3, RestartTypes DEF TypeOK, FoundLate
<1>8. CASE FoundBusy
  <2>1. run' \in Progress
    BY <1>8, ScanTypes DEF FoundBusy, TypeOK, Progress
  <2> QED BY <1>8, <2>1 DEF TypeOK, FoundBusy, procs
<1>9. CASE Finish
  <2>1. run' \in Progress
    BY <1>9, GoTypes, FirstWorker DEF Finish, Place
  <2>2. results' \in Answers
    BY <1>9, <1>a DEF TypeOK, Finish, Outcome, Answer
  <2>3. circuit' \in BOOLEAN
    BY <1>9 DEF Finish, TypeOK
  <2> QED BY <1>9, <2>1, <2>2, <2>3 DEF TypeOK, Finish, procs
<1>10. ASSUME NEW w \in Worker, ExpireWorker(w) PROVE TypeOK'
  <2>1. GiveUp(w, "timeout") /\ Restart(w)
    BY <1>10 DEF ExpireWorker, GiveUp
  <2>2. results' \in Answers /\ inflight' \in [Worker -> {0} \cup Task]
        /\ late' \in [Worker -> BOOLEAN]
    BY <2>1, <1>a DEF GiveUp, TypeOK, Outcome
  <2> QED BY <1>10, <2>1, <2>2, RestartTypes DEF TypeOK, ExpireWorker
<1>11. ASSUME NEW w \in Worker, PollAnswer(w) \/ PollFatal(w) PROVE TypeOK'
  <2>1. outQ \in [Worker -> Seq(Reply)] /\ outQ[w] # << >>
    BY <1>11 DEF TypeOK, PollAnswer, PollFatal
  <2>2. Head(outQ[w]) \in Reply /\ Tail(outQ[w]) \in Seq(Reply)
    BY <2>1, QueueParts
  <2>3. outQ' \in [Worker -> Seq(Reply)]
    BY <1>11, <2>1, <2>2 DEF PollAnswer, PollFatal
  <2>4. CASE PollAnswer(w)
    <3>1. run' \in Progress
      BY <2>4, ScanTypes DEF PollAnswer
    <3>2. results' \in Answers
      BY <2>2, <2>4 DEF PollAnswer, TypeOK, Reply, Outcome
    <3>3. warmed' \in [Worker -> BOOLEAN] /\ late' \in [Worker -> BOOLEAN]
          /\ inflight' \in [Worker -> {0} \cup Task]
      BY <2>4 DEF PollAnswer, TypeOK
    <3> QED BY <2>3, <2>4, <3>1, <3>2, <3>3 DEF PollAnswer, TypeOK
  <2>5. CASE PollFatal(w)
    <3>1. run' \in Progress
      BY <2>5, GoTypes, FirstWorker DEF PollFatal, Place
    <3>2. results' \in Answers
      <4>1. Result("unavailable") \in [status : Outcome, batch : Batch]
        BY <1>a DEF Outcome, Answer
      <4>2. Head(outQ[w]).batch \in Batch
        BY <2>2 DEF Reply
      <4>3. [status |-> "unavailable", batch |-> Head(outQ[w]).batch]
              \in [status : Outcome, batch : Batch]
        BY <4>2 DEF Outcome, Answer
      <4>4. \A t \in Task : results[t] \in [status : Outcome, batch : Batch]
        BY DEF TypeOK
      <4> QED BY <2>5, <4>1, <4>3, <4>4 DEF PollFatal
    <3>3. up' \in [Worker -> BOOLEAN] /\ engine' \in [Worker -> BOOLEAN]
          /\ warmed' \in [Worker -> BOOLEAN]
      BY <2>5 DEF PollFatal, TypeOK
    <3> QED BY <2>3, <2>5, <3>1, <3>2, <3>3 DEF PollFatal, TypeOK
  <2> QED BY <1>11, <2>4, <2>5
<1>12. ASSUME NEW w \in Worker, PollNothing(w) PROVE TypeOK'
  <2>1. run' \in Progress
    BY <1>12, GoTypes DEF PollNothing, Place, TypeOK, Progress
  <2> QED BY <1>12, <2>1 DEF TypeOK, PollNothing, procs
<1> QED
  BY <1>1, <1>2, <1>3, <1>4, <1>5, <1>6, <1>7, <1>8, <1>9, <1>10, <1>11, <1>12
     DEF BatchStep

(* Every variable keeps its type; at most MaxRestarts processes are started *)
(* again in the life of the pool (_restart_worker).                        *)
THEOREM PoolTypes == Spec => []TypeOK
<1>1. Init => TypeOK
  <2> SUFFICES ASSUME Init PROVE TypeOK
    OBVIOUS
  <2>1. inQ \in [Worker -> Seq(Request)] /\ outQ \in [Worker -> Seq(Reply)]
    <3>1. << >> \in Seq(Request) /\ << >> \in Seq(Reply)
      OBVIOUS
    <3> QED BY <3>1 DEF Init
  <2>2. run \in Progress
    BY FirstWorker DEF Init, Progress, Place
  <2>3. Unanswered \in [status : Outcome, batch : Batch]
    BY DEF Unanswered, Outcome, Batch
  <2>4. results \in [Task -> [status : Outcome, batch : Batch]]
    BY <2>3 DEF Init
  <2>5. 0 \in Batch /\ restarts \in 0 .. MaxRestarts
    BY DEF Batch, Init
  <2> QED BY <2>1, <2>2, <2>4, <2>5 DEF Init, TypeOK
<1>2. TypeOK /\ [Next]_vars => TypeOK'
  <2> SUFFICES ASSUME TypeOK, [Next]_vars PROVE TypeOK'
    OBVIOUS
  <2>1. CASE RunBatch
    BY <2>1, BeginTypes DEF RunBatch
  <2>2. CASE Preload
    <3>1. Workers \in Task
      BY DEF Task
    <3> QED BY <2>2, <3>1, BeginTypes DEF Preload
  <2>3. CASE UNCHANGED vars
    BY <2>3 DEF TypeOK, vars, procs
  <2> QED BY <2>1, <2>2, <2>3, EnvironmentTypes, BatchStepTypes DEF Next
<1> QED BY <1>1, <1>2, PTL DEF Spec

-----------------------------------------------------------------------------
(* The inductive invariant: where every task and every message is.         *)

Free == \A w \in Worker : inflight[w] = 0

(* The queues of a worker hold the task it was handed, or its answer, and   *)
(* nothing else; those of a living worker without a task are empty.         *)
Handed(w) ==
  /\ inflight[w] # 0 =>
       \/ /\ inQ[w] = << [task |-> inflight[w], batch |-> batch] >>
          /\ outQ[w] = << >>
       \/ /\ inQ[w] = << >>
          /\ \E s \in Answer :
               /\ outQ[w] = << [task |-> inflight[w], batch |-> batch, status |-> s] >>
               /\ up[w] /\ s \in {"ok", "empty"} => engine[w]
  /\ inflight[w] = 0 /\ up[w] => inQ[w] = << >> /\ outQ[w] = << >>

Queues == \A w \in Worker : Handed(w)

(* No task is lost: it is answered, pending or in flight.                   *)
Placed(t) == \/ results[t].status # "none" \/ t \in pending
             \/ \E w \in Worker : inflight[w] = t

Ended == run.pc \in {"idle", "finish"}

Tasking ==
  /\ ~Ended => ~circuit /\ \A t \in 1 .. run.size : Placed(t)
  /\ Ended => Free /\ pending = {}

(* What run_batch knows in its two loops.                                   *)
Loops ==
  /\ run.pc \in {"poll", "look"} => \A w \in run.scan : inflight[w] # 0
  /\ run.pc = "look" => run.at \in run.scan
  /\ run.pc = "submit" => /\ inflight[run.at] = 0
                          /\ inQ[run.at] = << >> /\ outQ[run.at] = << >>

Core == Queues /\ Tasking /\ Loops /\ EveryTaskAnswered /\ OwnResults
        /\ WarmedIsLoaded
IInv == TypeOK /\ Core
-----------------------------------------------------------------------------
LEMMA RestartEffect ==
  ASSUME TypeOK, NEW w \in Worker, Restart(w)
  PROVE  /\ \A v \in Worker \ {w} :
              /\ up'[v] = up[v] /\ engine'[v] = engine[v] /\ warmed'[v] = warmed[v]
              /\ inQ'[v] = inQ[v] /\ outQ'[v] = outQ[v]
         /\ ~warmed'[w]
         /\ up'[w] => inQ'[w] = << >> /\ outQ'[w] = << >>
BY DEF TypeOK, Restart, Kill, StartWorker

(* A worker given up has its task answered; the others are as before.      *)
LEMMA GiveUpKeeps ==
  ASSUME IInv, ~Ended, NEW w \in Worker, inflight[w] # 0,
         NEW s \in {"crash", "timeout"}, GiveUp(w, s),
         UNCHANGED <<pending, batch>>
  PROVE  /\ Queues' /\ OwnResults' /\ WarmedIsLoaded'
         /\ \A t \in 1 .. run.size : Placed(t)'
         /\ \A v \in Worker \ {w} : inflight'[v] = inflight[v]
<1> USE DEF IInv, Core
<1>0. TypeOK /\ Restart(w) /\ inflight[w] \in Task
  BY DEF TypeOK, GiveUp
<1>1. /\ \A v \in Worker \ {w} : inflight'[v] = inflight[v]
      /\ inflight'[w] = 0
  BY <1>0 DEF TypeOK, GiveUp
<1>2. Queues'
  <2> SUFFICES ASSUME NEW v \in Worker PROVE Handed(v)'
    BY DEF Queues
  <2>1. CASE v = w
    BY <2>1, <1>0, <1>1, RestartEffect DEF Handed
  <2>2. CASE v # w
    <3>1. Handed(v) /\ inflight'[v] = inflight[v] /\ inQ'[v] = inQ[v]
          /\ outQ'[v] = outQ[v] /\ up'[v] = up[v] /\ engine'[v] = engine[v]
      BY <2>2, <1>0, <1>1, RestartEffect DEF Queues
    <3> QED BY <3>1 DEF Handed
  <2> QED BY <2>1, <2>2
<1>3. OwnResults' /\ results'[inflight[w]].status # "none"
      /\ \A t \in Task \ {inflight[w]} : results'[t] = results[t]
  BY <1>0 DEF OwnResults, GiveUp, Result, TypeOK
<1>4. WarmedIsLoaded'
  BY <1>0, <1>1, RestartEffect DEF WarmedIsLoaded, TypeOK
<1>5. ASSUME NEW t \in 1 .. run.size PROVE Placed(t)'
  <2>1. t \in Task /\ Placed(t)
    BY DEF Tasking, TypeOK, Progress, Task
  <2> QED BY <1>1, <1>3, <2>1 DEF Placed
<1> QED BY <1>1, <1>2, <1>3, <1>4, <1>5

LEMMA EnvironmentCore == IInv /\ Environment => Core'
<1> SUFFICES ASSUME IInv, Environment PROVE Core'
  OBVIOUS
<1> USE DEF IInv, Core
<1>1. ASSUME NEW w \in Worker, WorkerAnswers(w) PROVE Core'
  <2>0. PICK s \in Answer :
          /\ outQ' = [outQ EXCEPT ![w] = Append(@,
               [task |-> Head(inQ[w]).task, batch |-> Head(inQ[w]).batch, status |-> s])]
          /\ engine' = [engine EXCEPT ![w] = s \in {"ok", "empty"}]
    BY <1>1, TurnAnswersTypes DEF WorkerAnswers
  <2>1. /\ inflight[w] # 0
        /\ inQ[w] = << [task |-> inflight[w], batch |-> batch] >> /\ outQ[w] = << >>
    BY <1>1 DEF WorkerAnswers, Queues, Handed
  <2>2. Head(inQ[w]) = [task |-> inflight[w], batch |-> batch] /\ Tail(inQ[w]) = << >>
    BY <2>1
  <2>3. outQ'[w] = << [task |-> inflight[w], batch |-> batch, status |-> s] >>
    BY <2>0, <2>1, <2>2 DEF TypeOK
  <2>4. inQ'[w] = << >> /\ engine'[w] = (s \in {"ok", "empty"})
    BY <1>1, <2>0, <2>2 DEF TypeOK, WorkerAnswers
  <2>5. \A v \in Worker \ {w} : /\ inQ'[v] = inQ[v] /\ outQ'[v] = outQ[v]
                               /\ engine'[v] = engine[v]
    BY <1>1, <2>0 DEF TypeOK, WorkerAnswers
  <2>6. UNCHANGED <<up, warmed, inflight, pending, results, circuit, batch, run>>
    BY <1>1 DEF WorkerAnswers
  <2>7. Queues'
    <3> SUFFICES ASSUME NEW v \in Worker PROVE Handed(v)'
      BY DEF Queues
    <3>1. CASE v = w
      BY <3>1, <2>1, <2>3, <2>4, <2>6 DEF Handed
    <3>2. CASE v # w
      <4>1. Handed(v)
        BY DEF Queues
      <4> QED BY <3>2, <4>1, <2>5, <2>6 DEF Handed
    <3> QED BY <3>1, <3>2
  <2>8. WarmedIsLoaded' /\ Loops'
    BY <2>1, <2>5, <2>6 DEF WarmedIsLoaded, Loops, TypeOK, Progress
  <2>9. Tasking' /\ EveryTaskAnswered' /\ OwnResults'
    BY <2>6 DEF Tasking, Ended, Free, Placed, EveryTaskAnswered, OwnResults, At
  <2> QED BY <2>7, <2>8, <2>9
<1>2. ASSUME NEW w \in Worker, WorkerDies(w) PROVE Core'
  <2>1. /\ \A v \in Worker \ {w} : up'[v] = up[v] /\ engine'[v] = engine[v]
        /\ ~up'[w]
        /\ UNCHANGED <<inQ, outQ, warmed, inflight, pending, results, circuit,
                       batch, run>>
    BY <1>2 DEF WorkerDies, TypeOK
  <2>2. Queues'
    BY <2>1 DEF Queues, Handed
  <2>3. WarmedIsLoaded' /\ Loops'
    BY <2>1 DEF WarmedIsLoaded, Loops
  <2>4. Tasking' /\ EveryTaskAnswered' /\ OwnResults'
    BY <2>1 DEF Tasking, Ended, Free, Placed, EveryTaskAnswered, OwnResults, At
  <2> QED BY <2>2, <2>3, <2>4
<1>3. ASSUME UNCHANGED <<procs, warmed, inflight, pending, results, circuit,
                         batch, run>>
      PROVE  Core'
  BY <1>3 DEF procs, Queues, Handed, WarmedIsLoaded, Loops, Tasking, Ended, Free,
     Placed, EveryTaskAnswered, OwnResults, At
<1> QED
  BY <1>1, <1>2, <1>3 DEF Environment, TaskDeadlinePasses, BatchDeadlinePasses

LEMMA BeginCore ==
  ASSUME IInv, NEW n \in Task, NEW p \in BOOLEAN, BeginBatch(n, p)
  PROVE  Core'
<1> USE DEF IInv, Core
<1>1. Free /\ inflight' = inflight /\ run'.size = n /\ batch' = batch + 1
      /\ run'.pc = (IF circuit THEN "finish" ELSE "top")
      /\ pending' = (IF circuit THEN {} ELSE 1 .. n)
      /\ UNCHANGED <<up, engine, inQ, outQ, warmed, circuit>>
  BY DEF BeginBatch, Tasking, Ended, At, Refused, procs
<1>2. \A t \in Task : /\ results'[t].status # "none" => results'[t].batch = batch'
                      /\ circuit /\ t <= n => results'[t].status # "none"
  BY DEF BeginBatch, Refused, Unanswered
<1>3. Queues' /\ WarmedIsLoaded' /\ Loops'
  BY <1>1 DEF Queues, Handed, Free, WarmedIsLoaded, Loops
<1>4. OwnResults' /\ EveryTaskAnswered'
  BY <1>1, <1>2 DEF OwnResults, EveryTaskAnswered, At, Task
<1>5. Tasking'
  BY <1>1 DEF Tasking, Ended, Free, Placed
<1> QED BY <1>3, <1>4, <1>5

(* What the two continuations do to the place of run_batch.                 *)
LEMMA GoEffect ==
  ASSUME TypeOK, NEW pc, NEW w, NEW rest, Go(pc, w, rest)
  PROVE  /\ run'.pc = pc /\ run'.at = w /\ run'.scan = rest
         /\ run'.size = run.size /\ run'.preload = run.preload
BY DEF TypeOK, Progress, Go

LEMMA ScanEffect ==
  ASSUME TypeOK, NEW w, ScanOn(w)
  PROVE  /\ run'.pc \in {"top", "poll"} /\ run'.size = run.size
         /\ run'.pc = "poll" => run'.scan = run.scan \ {w}
BY GoEffect DEF ScanOn

LEMMA AssignEffect ==
  ASSUME TypeOK, NEW after, AssignOn(after)
  PROVE  /\ run'.pc \in {"assign", "top", "poll"} /\ run'.size = run.size
         /\ run'.pc = "poll" => \A w \in run'.scan : after[w] # 0
<1> DEFINE busy == {w \in Worker : after[w] # 0}
<1>1. CASE Go("assign", run.at + 1, {})
  BY <1>1, GoEffect
<1>2. CASE Go(IF busy = {} THEN "top" ELSE "poll", 1, busy)
  BY <1>2, GoEffect
<1> QED BY <1>1, <1>2 DEF AssignOn

(* A step that moves on without touching workers or tasks.                  *)
LEMMA MoveCore ==
  ASSUME IInv, ~Ended,
         UNCHANGED <<procs, warmed, inflight, pending, results, circuit, batch>>,
         run'.size = run.size,
         run'.pc \in {"top", "expire", "assign", "poll", "look"}
           \/ (run'.pc = "finish" /\ Free /\ pending = {}),
         run'.pc \in {"poll", "look"} => \A w \in run'.scan : inflight[w] # 0,
         run'.pc = "look" => run'.at \in run'.scan
  PROVE  Core'
<1> USE DEF IInv, Core
<1>1. Queues' /\ WarmedIsLoaded' /\ OwnResults'
  BY DEF Queues, Handed, WarmedIsLoaded, OwnResults, procs
<1>2. Tasking'
  BY DEF Tasking, Ended, Free, Placed
<1>3. Loops'
  BY DEF Loops, procs
<1>4. EveryTaskAnswered'
  <2> SUFFICES ASSUME run'.pc = "finish", NEW t \in 1 .. run.size
               PROVE  results[t].status # "none"
    BY DEF EveryTaskAnswered, At
  <2>1. t \in Task
    BY DEF TypeOK, Progress, Task
  <2> QED BY <2>1 DEF Tasking, Placed, Free, Task
<1> QED BY <1>1, <1>2, <1>3, <1>4

(* Steps that end in another turn of a loop, with one worker given up.      *)
LEMMA GiveUpCore ==
  ASSUME IInv, ~Ended, NEW w \in Worker, inflight[w] # 0,
         NEW s \in {"crash", "timeout"}, GiveUp(w, s),
         UNCHANGED <<pending, batch, circuit>>,
         \/ run' = run /\ run.pc = "expire"
         \/ ScanOn(w) /\ run.pc \in {"poll", "look"}
  PROVE  Core'
<1> USE DEF IInv, Core
<1>1. /\ run'.size = run.size /\ run'.pc \in {"expire", "top", "poll"}
      /\ run'.pc = "poll" => /\ run.pc \in {"poll", "look"}
                             /\ run'.scan = run.scan \ {w}
  BY ScanEffect
<1>2. run.scan \in SUBSET Worker
  BY DEF TypeOK, Progress
<1>3. Loops'
  BY <1>1, <1>2, GiveUpKeeps DEF Loops
<1>4. Tasking' /\ EveryTaskAnswered'
  BY <1>1, GiveUpKeeps DEF Tasking, Ended, EveryTaskAnswered, At
<1> QED BY <1>3, <1>4, GiveUpKeeps

(* An answer that is not fatal is that to the task the worker was handed.   *)
LEMMA PollAnswerEffect ==
  ASSUME IInv, NEW w \in Worker, PollAnswer(w)
  PROVE  /\ ~Ended /\ inflight[w] # 0 /\ w \in run.scan
         /\ \E s \in Answer \ {"unavailable"} :
              /\ inQ[w] = << >> /\ (up[w] /\ s \in {"ok", "empty"} => engine[w])
              /\ results' = [results EXCEPT ![inflight[w]] = [status |-> s, batch |-> batch]]
              /\ warmed' = [warmed EXCEPT ![w] = s \in {"ok", "empty"}]
              /\ outQ' = [outQ EXCEPT ![w] = << >>]
              /\ inflight' = [inflight EXCEPT ![w] = 0] /\ ScanOn(w)
              /\ UNCHANGED <<up, engine, inQ, pending, circuit, batch>>
<1> USE DEF IInv, Core
<1>1. ~Ended /\ inflight[w] # 0 /\ w \in run.scan /\ outQ[w] # << >>
  BY DEF PollAnswer, At, Ended, Loops
<1>2. PICK s \in Answer :
        /\ outQ[w] = << [task |-> inflight[w], batch |-> batch, status |-> s] >>
        /\ inQ[w] = << >> /\ (up[w] /\ s \in {"ok", "empty"} => engine[w])
  BY <1>1 DEF Queues, Handed
<1>3. /\ Head(outQ[w]) = [task |-> inflight[w], batch |-> batch, status |-> s]
      /\ Tail(outQ[w]) = << >>
  BY <1>2
<1> DEFINE m == Head(outQ[w])
<1>4. m.task = inflight[w] /\ m.batch = batch /\ m.status = s
  BY <1>3
<1>5. results' = [results EXCEPT ![m.task] = [status |-> m.status, batch |-> m.batch]]
  BY DEF PollAnswer
<1>6. warmed' = [warmed EXCEPT ![w] = m.status \in {"ok", "empty"}] /\ m.status # "unavailable"
  BY DEF PollAnswer
<1>7. outQ' = [outQ EXCEPT ![w] = << >>]
  BY <1>3 DEF PollAnswer
<1>8. /\ inflight' = [inflight EXCEPT ![w] = 0] /\ ScanOn(w)
      /\ UNCHANGED <<up, engine, inQ, pending, circuit, batch>>
  BY DEF PollAnswer
<1> HIDE DEF m
<1> QED BY <1>1, <1>2, <1>4, <1>5, <1>6, <1>7, <1>8

LEMMA PollAnswerCore ==
  ASSUME IInv, NEW w \in Worker, PollAnswer(w)
  PROVE  Core'
<1> USE DEF IInv, Core
<1>1. ~Ended /\ inflight[w] # 0 /\ w \in run.scan
  BY PollAnswerEffect
<1>2. PICK s \in Answer :
        /\ inQ[w] = << >> /\ (up[w] /\ s \in {"ok", "empty"} => engine[w])
        /\ results' = [results EXCEPT ![inflight[w]] = [status |-> s, batch |-> batch]]
        /\ warmed' = [warmed EXCEPT ![w] = s \in {"ok", "empty"}]
        /\ outQ' = [outQ EXCEPT ![w] = << >>]
        /\ inflight' = [inflight EXCEPT ![w] = 0] /\ ScanOn(w)
        /\ UNCHANGED <<up, engine, inQ, pending, circuit, batch>>
  BY PollAnswerEffect
<1>5. /\ inflight'[w] = 0 /\ outQ'[w] = << >> /\ warmed'[w] = (s \in {"ok", "empty"})
      /\ \A v \in Worker \ {w} : /\ inflight'[v] = inflight[v] /\ outQ'[v] = outQ[v]
                                /\ warmed'[v] = warmed[v]
  BY <1>2 DEF TypeOK
<1>6. /\ inflight[w] \in Task /\ s # "none"
      /\ results'[inflight[w]] = [status |-> s, batch |-> batch]
      /\ \A t \in Task \ {inflight[w]} : results'[t] = results[t]
  <2>1. inflight[w] \in Task /\ results \in [Task -> [status : Outcome, batch : Batch]]
    BY <1>1 DEF TypeOK
  <2>2. s # "none"
    BY DEF Answer
  <2> QED BY <1>2, <2>1, <2>2
<1>7. Queues'
  <2> SUFFICES ASSUME NEW v \in Worker PROVE Handed(v)'
    BY DEF Queues
  <2>1. CASE v = w
    BY <2>1, <1>2, <1>5 DEF Handed
  <2>2. CASE v # w
    <3>1. Handed(v)
      BY DEF Queues
    <3> QED BY <2>2, <3>1, <1>2, <1>5 DEF Handed
  <2> QED BY <2>1, <2>2
<1>8. WarmedIsLoaded'
  BY <1>2, <1>5 DEF WarmedIsLoaded
<1>9. OwnResults'
  BY <1>2, <1>6 DEF OwnResults
<1>10. /\ run'.pc \in {"top", "poll"} /\ run'.size = run.size
       /\ run'.pc = "poll" => run'.scan = run.scan \ {w}
  BY <1>2, ScanEffect
<1>11. Loops'
  <2>1. run.scan \in SUBSET Worker /\ \A v \in run.scan : inflight[v] # 0
    BY DEF TypeOK, Progress, Loops, PollAnswer, At
  <2> QED BY <2>1, <1>5, <1>10 DEF Loops
<1>12. Tasking' /\ EveryTaskAnswered'
  <2>1. ASSUME NEW t \in 1 .. run.size PROVE Placed(t)'
    <3>1. t \in Task /\ Placed(t)
      BY <1>1 DEF Tasking, TypeOK, Progress, Task
    <3> QED BY <1>2, <1>5, <1>6, <3>1 DEF Placed
  <2> QED BY <1>1, <1>2, <1>10, <2>1 DEF Tasking, Ended, EveryTaskAnswered, At
<1> QED BY <1>7, <1>8, <1>9, <1>11, <1>12

(* The circuit opens: every task gets its answer at once.                   *)
LEMMA PollFatalCore ==
  ASSUME IInv, NEW w \in Worker, PollFatal(w)
  PROVE  Core'
<1> USE DEF IInv, Core
<1>1. ~Ended /\ inflight[w] # 0 /\ w \in run.scan /\ outQ[w] # << >>
  BY DEF PollFatal, At, Ended, Loops
<1>2. PICK s \in Answer :
        /\ outQ[w] = << [task |-> inflight[w], batch |-> batch, status |-> s] >>
        /\ inQ[w] = << >>
  BY <1>1 DEF Queues, Handed
<1>3. /\ Head(outQ[w]) = [task |-> inflight[w], batch |-> batch, status |-> s]
      /\ Tail(outQ[w]) = << >>
  BY <1>2
<1>4. \A t \in Task :
        results'[t] = IF t \in CutOff(w) \/ t = inflight[w]
                        THEN [status |-> "unavailable", batch |-> batch] ELSE results[t]
  BY <1>3 DEF PollFatal, Result
<1>5. /\ up' = [v \in Worker |-> up[v] /\ v \notin Others(w)]
      /\ engine' = [v \in Worker |-> engine[v] /\ v \notin Others(w)]
      /\ warmed' = [v \in Worker |-> warmed[v] /\ v # w /\ v \notin Others(w)]
      /\ outQ' = [outQ EXCEPT ![w] = << >>]
      /\ inflight' = [v \in Worker |-> 0] /\ pending' = {}
      /\ run'.pc = "finish" /\ run'.size = run.size
      /\ UNCHANGED <<inQ, batch>>
  BY <1>3, GoEffect DEF PollFatal
<1>6. Queues'
  <2> SUFFICES ASSUME NEW v \in Worker, up'[v] PROVE inQ'[v] = << >> /\ outQ'[v] = << >>
    BY <1>5 DEF Queues, Handed
  <2>1. v = w \/ inflight[v] = 0
    BY <1>5 DEF Others
  <2>2. up[v]
    BY <1>5
  <2>3. CASE v = w
    BY <2>3, <1>2, <1>5 DEF TypeOK
  <2>4. CASE v # w
    BY <2>1, <2>2, <2>4, <1>5 DEF TypeOK, Queues, Handed
  <2> QED BY <2>3, <2>4
<1>7. WarmedIsLoaded'
  BY <1>5 DEF WarmedIsLoaded, Others
<1>8. OwnResults'
  BY <1>4, <1>5 DEF OwnResults
<1>9. EveryTaskAnswered'
  <2> SUFFICES ASSUME NEW t \in 1 .. run.size PROVE results'[t].status # "none"
    BY <1>5 DEF EveryTaskAnswered
  <2>1. t \in Task /\ Placed(t)
    BY <1>1 DEF Tasking, TypeOK, Progress, Task
  <2>2. results[t].status # "none" \/ t \in CutOff(w) \/ t = inflight[w]
    BY <2>1 DEF Placed, CutOff, Others, Task
  <2> QED BY <1>4, <2>1, <2>2
<1>10. Tasking' /\ Loops'
  BY <1>5 DEF Tasking, Ended, Free, Loops
<1> QED BY <1>6, <1>7, <1>8, <1>9, <1>10

LEMMA AssignTaskCore == IInv /\ AssignTask => Core'
<1> SUFFICES ASSUME IInv, AssignTask PROVE Core'
  OBVIOUS
<1> USE DEF IInv, Core
<1> DEFINE w == run.at
<1>1. ~Ended /\ w \in Worker /\ inflight[w] = 0 /\ inQ[w] = << >> /\ outQ[w] = << >>
  BY DEF AssignTask, At, Ended, Busy, Loops, Queues, Handed, TypeOK, Progress
<1>2. PICK t \in pending :
       /\ pending' = pending \ {t}
       /\ \/ /\ inQ' = [inQ EXCEPT ![w] = Append(@, [task |-> t, batch |-> batch])]
             /\ inflight' = [inflight EXCEPT ![w] = t]
             /\ UNCHANGED results
          \/ /\ results' = [results EXCEPT ![t] = Result("error")]
             /\ UNCHANGED <<inQ, inflight>>
       /\ AssignOn(inflight')
  BY DEF AssignTask
<1>3. t \in Task /\ t # 0
  BY DEF TypeOK, Task
<1>4. UNCHANGED <<up, engine, outQ, warmed, circuit, batch>>
  BY DEF AssignTask
<1>5. /\ run'.pc \in {"assign", "top", "poll"} /\ run'.size = run.size
      /\ run'.pc = "poll" => \A v \in run'.scan : inflight'[v] # 0
  BY <1>2, AssignEffect
<1>6. Loops'
  BY <1>5 DEF Loops
<1>7. CASE /\ inQ' = [inQ EXCEPT ![w] = Append(@, [task |-> t, batch |-> batch])]
           /\ inflight' = [inflight EXCEPT ![w] = t]
           /\ UNCHANGED results
  <2>1. /\ inQ'[w] = << [task |-> t, batch |-> batch] >> /\ inflight'[w] = t
        /\ \A v \in Worker \ {w} : inQ'[v] = inQ[v] /\ inflight'[v] = inflight[v]
    BY <1>1, <1>7 DEF TypeOK
  <2>2. Queues'
    <3> SUFFICES ASSUME NEW v \in Worker PROVE Handed(v)'
      BY DEF Queues
    <3>1. CASE v = w
      BY <3>1, <1>1, <1>3, <1>4, <2>1 DEF Handed
    <3>2. CASE v # w
      <4>1. Handed(v)
        BY DEF Queues
      <4> QED BY <3>2, <4>1, <1>4, <2>1 DEF Handed
    <3> QED BY <3>1, <3>2
  <2>3. WarmedIsLoaded'
    BY <2>1, <1>1, <1>3, <1>4 DEF WarmedIsLoaded
  <2>4. OwnResults'
    BY <1>4, <1>7 DEF OwnResults
  <2>5. ASSUME NEW u \in 1 .. run.size PROVE Placed(u)'
    BY <1>1, <1>2, <1>7, <2>1 DEF Tasking, Placed
  <2>6. Tasking' /\ EveryTaskAnswered'
    BY <1>1, <1>4, <1>5, <2>5 DEF Tasking, Ended, EveryTaskAnswered, At
  <2> QED BY <1>6, <2>2, <2>3, <2>4, <2>6
<1>8. CASE /\ results' = [results EXCEPT ![t] = Result("error")]
           /\ UNCHANGED <<inQ, inflight>>
  <2>1. /\ results'[t] = [status |-> "error", batch |-> batch]
        /\ \A u \in Task \ {t} : results'[u] = results[u]
    BY <1>3, <1>8 DEF TypeOK, Result
  <2>2. Queues' /\ WarmedIsLoaded'
    BY <1>4, <1>8 DEF Queues, Handed, WarmedIsLoaded
  <2>3. OwnResults'
    BY <1>4, <2>1 DEF OwnResults
  <2>4. ASSUME NEW u \in 1 .. run.size PROVE Placed(u)'
    <3>1. u \in Task /\ Placed(u)
      BY <1>1 DEF Tasking, TypeOK, Progress, Task
    <3> QED BY <1>2, <1>8, <2>1, <3>1 DEF Placed
  <2>5. Tasking' /\ EveryTaskAnswered'
    BY <1>1, <1>4, <1>5, <2>4 DEF Tasking, Ended, EveryTaskAnswered, At
  <2> QED BY <1>6, <2>2, <2>3, <2>5
<1> QED BY <1>2, <1>7, <1>8

LEMMA AssignRestartsCore == IInv /\ AssignRestarts => Core'
<1> SUFFICES ASSUME IInv, AssignRestarts PROVE Core'
  OBVIOUS
<1> USE DEF IInv, Core
<1> DEFINE w == run.at
<1>1. ~Ended /\ w \in Worker /\ inflight[w] = 0 /\ Restart(w)
  BY DEF AssignRestarts, At, Ended, Busy, TypeOK, Progress
<1>2. UNCHANGED <<inflight, pending, results, circuit, batch>>
  BY DEF AssignRestarts
<1>3. \/ /\ up'[w] /\ run'.pc = "submit" /\ run'.at = w /\ run'.size = run.size
      \/ /\ run'.pc \in {"assign", "top", "poll"} /\ run'.size = run.size
         /\ run'.pc = "poll" => \A v \in run'.scan : inflight[v] # 0
  BY AssignEffect, GoEffect DEF AssignRestarts
<1>4. Queues'
  <2> SUFFICES ASSUME NEW v \in Worker PROVE Handed(v)'
    BY DEF Queues
  <2>1. CASE v = w
    BY <2>1, <1>1, <1>2, RestartEffect DEF Handed
  <2>2. CASE v # w
    <3>1. Handed(v) /\ inQ'[v] = inQ[v] /\ outQ'[v] = outQ[v] /\ up'[v] = up[v]
          /\ engine'[v] = engine[v]
      BY <2>2, <1>1, RestartEffect DEF Queues
    <3> QED BY <3>1, <1>2 DEF Handed
  <2> QED BY <2>1, <2>2
<1>5. WarmedIsLoaded'
  BY <1>1, <1>2, RestartEffect DEF WarmedIsLoaded
<1>6. Loops'
  BY <1>1, <1>2, <1>3, RestartEffect DEF Loops
<1>7. Tasking' /\ EveryTaskAnswered' /\ OwnResults'
  BY <1>1, <1>2, <1>3 DEF Tasking, Ended, Placed, EveryTaskAnswered, OwnResults, At
<1> QED BY <1>4, <1>5, <1>6, <1>7

LEMMA EndCore == IInv /\ (ExpirePending \/ Finish) => Core'
<1> SUFFICES ASSUME IInv, ExpirePending \/ Finish PROVE Core'
  OBVIOUS
<1> USE DEF IInv, Core
<1>1. CASE ExpirePending
  <2>1. ~Ended /\ Free
    BY <1>1 DEF ExpirePending, At, Ended, Free
  <2>2. /\ run'.pc = "finish" /\ run'.size = run.size /\ pending' = {}
        /\ UNCHANGED <<up, engine, inQ, outQ, warmed, inflight, circuit, batch>>
    BY <1>1, GoEffect DEF ExpirePending, procs
  <2>3. \A t \in Task : results'[t] = IF t \in pending
                                        THEN [status |-> "timeout", batch |-> batch]
                                        ELSE results[t]
    BY <1>1 DEF ExpirePending, Result
  <2>4. EveryTaskAnswered'
    <3> SUFFICES ASSUME NEW t \in 1 .. run.size PROVE results'[t].status # "none"
      BY <2>2 DEF EveryTaskAnswered
    <3>1. t \in Task /\ Placed(t)
      BY <2>1 DEF Tasking, TypeOK, Progress, Task
    <3> QED BY <2>1, <2>3, <3>1 DEF Placed, Free, Task
  <2>5. OwnResults'
    BY <2>2, <2>3 DEF OwnResults
  <2>6. Queues' /\ WarmedIsLoaded' /\ Loops' /\ Tasking'
    BY <2>1, <2>2 DEF Queues, Handed, WarmedIsLoaded, Loops, Tasking, Ended, Free
  <2> QED BY <2>4, <2>5, <2>6
<1>2. CASE Finish
  <2>1. /\ run.pc = "finish" /\ run'.pc = "idle"
        /\ UNCHANGED <<up, engine, inQ, outQ, warmed, inflight, pending, batch>>
    BY <1>2, GoEffect DEF Finish, procs, At
  <2>2. \A t \in Task : results'[t] \in {results[t], Result("error")}
    BY <1>2 DEF Finish
  <2>3. OwnResults'
    BY <2>1, <2>2 DEF OwnResults, Result
  <2>4. Queues' /\ WarmedIsLoaded' /\ Loops' /\ Tasking' /\ EveryTaskAnswered'
    BY <2>1 DEF Queues, Handed, WarmedIsLoaded, Loops, Tasking, Ended, Free,
       EveryTaskAnswered, At
  <2> QED BY <2>3, <2>4
<1> QED BY <1>1, <1>2

LEMMA BatchStepCore == IInv /\ BatchStep => Core'
<1> SUFFICES ASSUME IInv, BatchStep PROVE Core'
  OBVIOUS
<1> USE DEF IInv, Core
<1>1. CASE Top
  <2>1. \/ Go("finish", 1, {}) /\ pending = {} /\ Free
        \/ Go("expire", 1, {}) \/ Go("assign", 1, {})
    BY <1>1 DEF Top, Free
  <2>2. ~Ended /\ UNCHANGED <<procs, warmed, inflight, pending, results, circuit, batch>>
    BY <1>1 DEF Top, Ended, At
  <2> QED BY <2>1, <2>2, GoEffect, MoveCore
<1>2. CASE AssignSkips
  <2>1. ~Ended /\ UNCHANGED <<procs, warmed, inflight, pending, results, circuit, batch>>
    BY <1>2 DEF AssignSkips, Ended, At
  <2> QED BY <1>2, <2>1, AssignEffect, MoveCore DEF AssignSkips
<1>3. CASE FoundBusy
  <2>1. ~Ended /\ UNCHANGED <<procs, warmed, inflight, pending, results, circuit, batch>>
        /\ \A w \in run.scan : inflight[w] # 0
    BY <1>3 DEF FoundBusy, Ended, At, Loops
  <2>2. run'.pc \in {"top", "poll"} /\ run'.size = run.size
        /\ (run'.pc = "poll" => run'.scan = run.scan \ {run.at})
    BY <1>3, ScanEffect DEF FoundBusy
  <2> QED BY <2>1, <2>2, MoveCore
<1>4. ASSUME NEW w \in Worker, PollNothing(w) PROVE Core'
  <2>1. ~Ended /\ UNCHANGED <<procs, warmed, inflight, pending, results, circuit, batch>>
        /\ w \in run.scan /\ \A v \in run.scan : inflight[v] # 0
    BY <1>4 DEF PollNothing, Ended, At, Loops
  <2>2. run'.pc = "look" /\ run'.at = w /\ run'.scan = run.scan /\ run'.size = run.size
    BY <1>4, GoEffect DEF PollNothing
  <2> QED BY <2>1, <2>2, MoveCore
<1>5. CASE FoundDead \/ FoundLate
  <2>1. run.pc = "look" /\ ~Ended /\ run.at \in Worker /\ inflight[run.at] # 0
    BY <1>5 DEF FoundDead, FoundLate, At, Ended, Loops, TypeOK, Progress
  <2> QED BY <1>5, <2>1, GiveUpCore DEF FoundDead, FoundLate
<1>6. ASSUME NEW w \in Worker, ExpireWorker(w) PROVE Core'
  <2>1. run.pc = "expire" /\ ~Ended
    BY <1>6 DEF ExpireWorker, At, Ended
  <2> QED BY <1>6, <2>1, GiveUpCore DEF ExpireWorker
<1> QED
  BY <1>1, <1>2, <1>3, <1>4, <1>5, <1>6, AssignTaskCore, AssignRestartsCore,
     EndCore, PollAnswerCore, PollFatalCore DEF BatchStep
-----------------------------------------------------------------------------
(* The invariant that relates workers, queues and tasks holds always.      *)
THEOREM PoolInvariance == Spec => []IInv
<1>1. Init => Core
  BY DEF Init, Core, Queues, Handed, Tasking, Ended, Free, Loops,
     EveryTaskAnswered, OwnResults, WarmedIsLoaded, At, Unanswered
<1>2. IInv /\ [Next]_vars => Core'
  <2> SUFFICES ASSUME IInv, [Next]_vars PROVE Core'
    OBVIOUS
  <2>1. CASE RunBatch
    BY <2>1, BeginCore DEF RunBatch
  <2>2. CASE Preload
    <3>1. Workers \in Task
      BY DEF Task
    <3> QED BY <2>2, <3>1, BeginCore DEF Preload
  <2>3. CASE UNCHANGED vars
    BY <2>3 DEF vars, procs, IInv, Core, Queues, Handed, Tasking, Ended, Free, Placed,
       Loops, EveryTaskAnswered, OwnResults, WarmedIsLoaded, At
  <2> QED BY <2>1, <2>2, <2>3, EnvironmentCore, BatchStepCore DEF Next
<1> QED BY <1>1, <1>2, PoolTypes, PTL DEF Spec, IInv

(* No task of a batch is forgotten, whatever its worker did (run_batch).    *)
THEOREM AllAnswered == Spec => []EveryTaskAnswered
<1>1. IInv => EveryTaskAnswered
  BY DEF IInv, Core
<1> QED BY <1>1, PoolInvariance, PTL

(* No answer of an earlier batch is taken for one of this batch.            *)
THEOREM ResultsOwn == Spec => []OwnResults
<1>1. IInv => OwnResults
  BY DEF IInv, Core
<1> QED BY <1>1, PoolInvariance, PTL

(* After run_batch no living process is at work on one of its tasks.        *)
THEOREM NothingStale == Spec => []NoStaleWork
<1>1. IInv => NoStaleWork
  BY DEF IInv, Core, NoStaleWork, Queues, Handed, Tasking, Ended, Free, At
<1> QED BY <1>1, PoolInvariance, PTL

(* An open circuit ends the work at once and lets none begin.               *)
THEOREM CircuitStops == Spec => []CircuitStopsWork
<1>1. IInv => CircuitStopsWork
  BY DEF IInv, Core, CircuitStopsWork, Queues, Handed, Tasking, Ended, Free
<1> QED BY <1>1, PoolInvariance, PTL

(* The main side takes no worker for warm whose engine is not loaded.       *)
THEOREM WarmedLoaded == Spec => []WarmedIsLoaded
<1>1. IInv => WarmedIsLoaded
  BY DEF IInv, Core
<1> QED BY <1>1, PoolInvariance, PTL
-----------------------------------------------------------------------------
(* OcrPool implements BatchService.                                         *)

(* A task that is waiting or in the hand of a worker has no answer yet, and *)
(* is in no other place.                                                    *)
Unread(t) == t \in 1 .. run.size /\ results[t].status = "none"

Fresh ==
  /\ \A t \in pending : Unread(t)
  /\ \A w \in Worker : inflight[w] # 0 => Unread(inflight[w]) /\ inflight[w] \notin pending
  /\ \A v, w \in Worker : inflight[v] # 0 /\ inflight[v] = inflight[w] => v = w

answers == [t \in Task |-> results[t].status]

(* One worker's task is answered, by the worker or for it.                  *)
Answered(w, s) ==
  /\ run'.pc # "idle" /\ ~Ended /\ inflight[w] # 0
  /\ results' = [results EXCEPT ![inflight[w]] = [status |-> s, batch |-> batch]]
  /\ inflight' = [inflight EXCEPT ![w] = 0]
  /\ run'.size = run.size /\ UNCHANGED <<pending, circuit>>

(* Tasks stay where they are.                                               *)
Elsewhere ==
  /\ run'.pc = "idle" <=> run.pc = "idle"
  /\ run'.size = run.size /\ UNCHANGED <<results, pending, inflight, circuit>>

LEMMA TaskSteps ==
  ASSUME IInv, [Next]_vars
  PROVE  \/ Elsewhere
         \/ \E w \in Worker, s \in Outcome \ {"none", "unavailable"} : Answered(w, s)
         \/ AssignTask \/ ExpirePending \/ Finish
         \/ \E w \in Worker : PollFatal(w)
         \/ \E n \in Task, p \in BOOLEAN : BeginBatch(n, p)
<1> USE DEF IInv, Core
<1>1. CASE Environment \/ UNCHANGED vars
  BY <1>1 DEF Environment, WorkerAnswers, WorkerDies, TaskDeadlinePasses,
     BatchDeadlinePasses, vars, procs, Elsewhere
<1>2. CASE RunBatch \/ Preload
  <2>1. Workers \in Task
    BY DEF Task
  <2>2. \E n \in Task, p \in BOOLEAN : BeginBatch(n, p)
    BY <1>2, <2>1, Zenon DEF RunBatch, Preload
  <2> QED BY <2>2
<1>3. CASE Top \/ AssignSkips \/ FoundBusy \/ \E w \in Worker : PollNothing(w)
  <2>1. run.pc # "idle" /\ UNCHANGED <<results, pending, inflight, circuit>>
    BY <1>3 DEF Top, AssignSkips, FoundBusy, PollNothing, At
  <2>2. run'.pc # "idle" /\ run'.size = run.size
    BY <1>3, GoEffect, AssignEffect, ScanEffect
       DEF Top, AssignSkips, FoundBusy, PollNothing
  <2> QED BY <2>1, <2>2 DEF Elsewhere
<1>4. CASE AssignRestarts
  <2>1. run.pc # "idle" /\ UNCHANGED <<results, pending, inflight, circuit>>
    BY <1>4 DEF AssignRestarts, At
  <2>2. run'.pc # "idle" /\ run'.size = run.size
    BY <1>4, GoEffect, AssignEffect DEF AssignRestarts
  <2> QED BY <2>1, <2>2 DEF Elsewhere
<1>5. CASE FoundDead \/ FoundLate
  <2>1. run.pc = "look" /\ ~Ended /\ run.at \in Worker /\ inflight[run.at] # 0
    BY <1>5 DEF FoundDead, FoundLate, At, Ended, Loops, TypeOK, Progress
  <2>2. run'.pc # "idle" /\ run'.size = run.size
    BY <1>5, ScanEffect DEF FoundDead, FoundLate
  <2>3. PICK s \in {"crash", "timeout"} : GiveUp(run.at, s)
    BY <1>5 DEF FoundDead, FoundLate
  <2>4. Answered(run.at, s)
    BY <1>5, <2>1, <2>2, <2>3 DEF Answered, GiveUp, Result, FoundDead, FoundLate
  <2> QED BY <2>1, <2>4 DEF Outcome
<1>6. ASSUME NEW w \in Worker, ExpireWorker(w) PROVE Answered(w, "timeout")
  BY <1>6 DEF ExpireWorker, Answered, GiveUp, Result, At, Ended
<1>7. ASSUME NEW w \in Worker, PollAnswer(w)
      PROVE  \E s \in Outcome \ {"none", "unavailable"} : Answered(w, s)
  <2>1. PICK s \in Answer \ {"unavailable"} :
          /\ results' = [results EXCEPT ![inflight[w]] = [status |-> s, batch |-> batch]]
          /\ inflight' = [inflight EXCEPT ![w] = 0] /\ ScanOn(w)
          /\ UNCHANGED <<pending, circuit>>
    BY <1>7, PollAnswerEffect
  <2>2. ~Ended /\ inflight[w] # 0
    BY <1>7, PollAnswerEffect
  <2>3. run'.pc # "idle" /\ run'.size = run.size
    BY <2>1, ScanEffect
  <2> QED BY <2>1, <2>2, <2>3 DEF Answered, Outcome, Answer
<1>8. "timeout" \in Outcome \ {"none", "unavailable"}
  BY DEF Outcome
<1> QED
  BY <1>1, <1>2, <1>3, <1>4, <1>5, <1>6, <1>7, <1>8 DEF Next, BatchStep

(* The task a worker is handed, or that could not be handed over.           *)
LEMMA AssignTaskEffect ==
  ASSUME IInv, AssignTask
  PROVE  /\ run.at \in Worker /\ inflight[run.at] = 0 /\ ~Ended
         /\ run'.pc # "idle" /\ run'.size = run.size /\ circuit' = circuit
         /\ \E t \in pending :
              /\ t \in Task /\ pending' = pending \ {t}
              /\ \/ /\ inflight' = [inflight EXCEPT ![run.at] = t]
                    /\ results' = results
                 \/ /\ results' = [results EXCEPT ![t] = Result("error")]
                    /\ inflight' = inflight
<1> USE DEF IInv, Core
<1>1. ~Ended /\ run.at \in Worker /\ inflight[run.at] = 0 /\ circuit' = circuit
  BY DEF AssignTask, At, Ended, Busy, Loops, TypeOK, Progress
<1>2. PICK t \in pending :
       /\ pending' = pending \ {t}
       /\ \/ /\ inflight' = [inflight EXCEPT ![run.at] = t]
             /\ results' = results
          \/ /\ results' = [results EXCEPT ![t] = Result("error")]
             /\ inflight' = inflight
       /\ AssignOn(inflight')
  BY DEF AssignTask
<1>3. t \in Task
  BY DEF TypeOK
<1>4. run'.pc # "idle" /\ run'.size = run.size
  BY <1>2, AssignEffect
<1> QED BY <1>1, <1>2, <1>3, <1>4

(* A fatal answer: what it does to the tasks.                               *)
LEMMA PollFatalEffect ==
  ASSUME IInv, NEW w \in Worker, PollFatal(w)
  PROVE  /\ ~Ended /\ inflight[w] # 0
         /\ \A t \in Task : results'[t] =
              IF t \in pending \/ \E v \in Worker : inflight[v] = t
                THEN [status |-> "unavailable", batch |-> batch] ELSE results[t]
         /\ pending' = {} /\ \A v \in Worker : inflight'[v] = 0
         /\ circuit' /\ run'.pc = "finish" /\ run'.size = run.size
<1> USE DEF IInv, Core
<1>1. ~Ended /\ inflight[w] # 0 /\ w \in run.scan /\ outQ[w] # << >>
  BY DEF PollFatal, At, Ended, Loops
<1>2. PICK s \in Answer :
        outQ[w] = << [task |-> inflight[w], batch |-> batch, status |-> s] >>
  BY <1>1 DEF Queues, Handed
<1>3. Head(outQ[w]) = [task |-> inflight[w], batch |-> batch, status |-> s]
  BY <1>2
<1>4. \A t \in Task :
        results'[t] = IF t \in CutOff(w) \/ t = inflight[w]
                        THEN [status |-> "unavailable", batch |-> batch] ELSE results[t]
  BY <1>3 DEF PollFatal, Result
<1>5. \A t \in Task : (t \in CutOff(w) \/ t = inflight[w])
                        <=> (t \in pending \/ \E v \in Worker : inflight[v] = t)
  BY DEF CutOff, Others, Task
<1>6. /\ pending' = {} /\ \A v \in Worker : inflight'[v] = 0
      /\ circuit' /\ run'.pc = "finish" /\ run'.size = run.size
  BY GoEffect DEF PollFatal
<1> QED BY <1>1, <1>4, <1>5, <1>6

(* The answers of a batch that just began.                                  *)
LEMMA BeginEffect ==
  ASSUME IInv, NEW n \in Task, NEW p \in BOOLEAN, BeginBatch(n, p)
  PROVE  /\ run.pc = "idle" /\ run'.pc # "idle" /\ run'.size = n
         /\ circuit' = circuit /\ inflight' = inflight /\ Free
         /\ pending' = IF circuit THEN {} ELSE 1 .. n
         /\ \A t \in Task : results'[t].status =
              IF circuit /\ t <= n THEN "unavailable" ELSE "none"
<1> USE DEF IInv, Core
<1>1. /\ run.pc = "idle" /\ run'.pc # "idle" /\ run'.size = n
      /\ circuit' = circuit /\ inflight' = inflight
      /\ pending' = IF circuit THEN {} ELSE 1 .. n
  BY DEF BeginBatch, At, Refused
<1>2. \A t \in Task : results'[t].status =
        IF circuit /\ t <= n THEN "unavailable" ELSE "none"
  BY DEF BeginBatch, Refused, Unanswered
<1> QED BY <1>1, <1>2 DEF Tasking, Ended

(* An answer moves its task out of the places of unread tasks.              *)
LEMMA FreshStep == IInv /\ Fresh /\ [Next]_vars => Fresh'
<1> SUFFICES ASSUME IInv, Fresh, [Next]_vars PROVE Fresh'
  OBVIOUS
<1> USE DEF IInv
<1>1. CASE Elsewhere
  BY <1>1 DEF Elsewhere, Fresh, Unread
<1>2. ASSUME NEW w \in Worker, NEW s \in Outcome \ {"none", "unavailable"}, Answered(w, s)
      PROVE  Fresh'
  <2>1. /\ inflight[w] # 0 /\ inflight'[w] = 0
        /\ \A v \in Worker \ {w} : inflight'[v] = inflight[v]
        /\ \A t \in Task \ {inflight[w]} : results'[t] = results[t]
        /\ pending' = pending /\ run'.size = run.size
    BY <1>2 DEF Answered, TypeOK
  <2>2. \A t \in Task \ {inflight[w]} : Unread(t) => Unread(t)'
    BY <2>1 DEF Unread
  <2>3. \A t \in pending : t # inflight[w] /\ t \in Task
    BY <2>1 DEF Fresh, TypeOK
  <2>4. \A v \in Worker \ {w} : inflight[v] # 0 => inflight[v] # inflight[w] /\ inflight[v] \in Task
    BY <2>1 DEF Fresh, TypeOK
  <2> QED BY <2>1, <2>2, <2>3, <2>4 DEF Fresh
<1>3. CASE AssignTask
  <2> DEFINE w == run.at
  <2>1. w \in Worker /\ inflight[w] = 0 /\ run'.size = run.size
    BY <1>3, AssignTaskEffect
  <2>2. PICK t \in pending :
          /\ t \in Task /\ pending' = pending \ {t}
          /\ \/ inflight' = [inflight EXCEPT ![w] = t] /\ results' = results
             \/ results' = [results EXCEPT ![t] = Result("error")] /\ inflight' = inflight
    BY <1>3, AssignTaskEffect
  <2> HIDE DEF w
  <2>3. CASE inflight' = [inflight EXCEPT ![w] = t] /\ results' = results
    <3>1. inflight'[w] = t /\ \A v \in Worker \ {w} : inflight'[v] = inflight[v]
      BY <2>1, <2>3 DEF TypeOK
    <3>2. \A u : Unread(u)' = Unread(u)
      BY <2>1, <2>3 DEF Unread
    <3> QED BY <2>1, <2>2, <3>1, <3>2 DEF Fresh
  <2>4. CASE results' = [results EXCEPT ![t] = Result("error")] /\ inflight' = inflight
    <3>1. \A u \in Task \ {t} : Unread(u) => Unread(u)'
      BY <2>1, <2>2, <2>4 DEF Unread, TypeOK
    <3>2. \A u \in pending : u \in Task
      BY DEF TypeOK
    <3>3. \A v \in Worker : inflight[v] # 0 => inflight[v] \in Task /\ inflight[v] # t
      BY <2>2 DEF Fresh, TypeOK
    <3> QED BY <2>2, <2>4, <3>1, <3>2, <3>3 DEF Fresh
  <2> QED BY <2>2, <2>3, <2>4
<1>4. CASE ExpirePending \/ Finish
  <2>1. pending' = {} /\ \A w \in Worker : inflight'[w] = 0
    BY <1>4 DEF ExpirePending, Finish, Core, Tasking, Ended, Free, At
  <2> QED BY <2>1 DEF Fresh
<1>5. ASSUME NEW w \in Worker, PollFatal(w) PROVE Fresh'
  BY <1>5, PollFatalEffect DEF Fresh
<1>6. ASSUME NEW n \in Task, NEW p \in BOOLEAN, BeginBatch(n, p) PROVE Fresh'
  <2>1. \A t \in pending' : Unread(t)'
    <3>1. \A t \in 1 .. n : t \in Task
      BY DEF Task
    <3> QED BY <1>6, <3>1, BeginEffect DEF Unread
  <2>2. \A w \in Worker : inflight'[w] = 0
    BY <1>6, BeginEffect DEF Free
  <2> QED BY <2>1, <2>2 DEF Fresh
<1> QED BY <1>1, <1>2, <1>3, <1>4, <1>5, <1>6, TaskSteps

(* Every step of run_batch is a step of the service or changes nothing of   *)
(* it.                                                                      *)
LEMMA ServiceStep ==
  ASSUME IInv, Fresh, [Next]_vars
  PROVE  [Service!Next]_<<~At("idle"), run.size, answers, circuit>>
<1> USE DEF IInv, Core
<1>0. Service!Missing = {t \in Task : t <= run.size /\ results[t].status = "none"}
  BY DEF Service!Missing
<1>t. /\ run.size \in Nat /\ results \in [Task -> [status : Outcome, batch : Batch]]
      /\ \A t \in Task : t \in Service!Missing <=> Unread(t)
  BY <1>0 DEF TypeOK, Progress, Unread, Task
<1>1. CASE Elsewhere
  BY <1>1 DEF Elsewhere, answers, At
<1>2. ASSUME NEW t \in Task, Unread(t), NEW s \in Outcome \ {"none", "unavailable"},
             results' = [results EXCEPT ![t] = [status |-> s, batch |-> batch]],
             run.pc # "idle", run'.pc # "idle", run'.size = run.size, circuit' = circuit
      PROVE  Service!Tell({t}, s)
  <2>1. {t} \subseteq Service!Missing
    BY <1>2, <1>t
  <2>2. \A u \in Task : results'[u].status = IF u \in {t} THEN s ELSE results[u].status
    BY <1>2, <1>t
  <2>3. ~At("idle") /\ (~At("idle"))' = ~At("idle") /\ UNCHANGED <<run.size, circuit>>
    BY <1>2 DEF At
  <2> QED BY <2>1, <2>2, <2>3 DEF Service!Tell
<1>3. ASSUME NEW w \in Worker, NEW s \in Outcome \ {"none", "unavailable"}, Answered(w, s)
      PROVE  Service!Tell({inflight[w]}, s)
  <2>1. inflight[w] \in Task /\ Unread(inflight[w])
    BY <1>3 DEF Answered, Fresh, TypeOK
  <2> QED BY <1>2, <1>3, <2>1 DEF Answered, Ended
<1>4. CASE AssignTask
  <2>1. PICK t \in pending :
          /\ t \in Task
          /\ results' = results \/ results' = [results EXCEPT ![t] = Result("error")]
    BY <1>4, AssignTaskEffect
  <2>2. run.pc # "idle" /\ run'.pc # "idle" /\ run'.size = run.size /\ circuit' = circuit
    BY <1>4, AssignTaskEffect DEF Ended
  <2>3. CASE results' = results
    BY <2>2, <2>3 DEF answers, At
  <2>4. CASE results' = [results EXCEPT ![t] = Result("error")]
    <3>1. Unread(t)
      BY DEF Fresh
    <3>2. "error" \in Outcome \ {"none", "unavailable"}
      BY DEF Outcome, Answer
    <3>3. Service!Tell({t}, "error")
      BY <1>2, <2>1, <2>2, <2>4, <3>1, <3>2 DEF Result
    <3> QED BY <2>1, <3>2, <3>3 DEF Service!Next
  <2> QED BY <2>1, <2>3, <2>4
<1>5. CASE ExpirePending
  <2>1. run.pc # "idle" /\ run'.pc # "idle" /\ run'.size = run.size /\ circuit' = circuit
    BY <1>5, GoEffect DEF ExpirePending, At
  <2>2. pending \in SUBSET Task /\ pending \subseteq Service!Missing
    BY <1>t DEF Fresh, TypeOK
  <2>3. \A t \in Task : results'[t].status =
          IF t \in pending THEN "timeout" ELSE results[t].status
    BY <1>5 DEF ExpirePending, Result
  <2>4. Service!Tell(pending, "timeout")
    BY <2>1, <2>2, <2>3 DEF Service!Tell, At
  <2> QED BY <2>2, <2>4 DEF Service!Next, Outcome
<1>6. ASSUME NEW w \in Worker, PollFatal(w) PROVE Service!Break
  <2>1. \A t \in Task : (t \in pending \/ \E v \in Worker : inflight[v] = t)
                           <=> t \in Service!Missing
    <3>1. ~Ended
      BY <1>6, PollFatalEffect
    <3> SUFFICES ASSUME NEW t \in Task
                 PROVE  (t \in pending \/ \E v \in Worker : inflight[v] = t) <=> Unread(t)
      BY <1>t
    <3>2. t # 0
      BY DEF Task
    <3> QED BY <3>1, <3>2 DEF Fresh, Tasking, Placed, Unread
  <2>2. Service!Missing # {}
    <3>1. inflight[w] \in Task
      BY <1>6, PollFatalEffect DEF TypeOK
    <3> QED BY <2>1, <3>1
  <2>3. \A t \in Task : results'[t].status =
          IF t \in Service!Missing THEN "unavailable" ELSE results[t].status
    BY <1>6, <2>1, PollFatalEffect
  <2>4. run.pc # "idle" /\ run'.pc # "idle" /\ run'.size = run.size /\ circuit' = TRUE
    BY <1>6, PollFatalEffect DEF Ended, TypeOK, PollFatal
  <2> QED BY <2>2, <2>3, <2>4 DEF Service!Break, At
<1>7. ASSUME NEW n \in Task, NEW p \in BOOLEAN, BeginBatch(n, p) PROVE Service!Begin(n)
  BY <1>7, BeginEffect DEF Service!Begin, At
<1>8. CASE Finish
  <2>1. /\ run.pc = "finish" /\ run'.pc = "idle" /\ run'.size = run.size
    BY <1>8, GoEffect DEF Finish, At
  <2>2. Service!Missing = {}
    BY <2>1, <1>0, <1>t DEF EveryTaskAnswered, At, Unread
  <2>3. \A t \in Task : t <= run.size => results[t].status # "none"
    BY <2>2, <1>0
  <2>4. \A t \in Task : results'[t] = results[t]
    BY <1>8, <2>3 DEF Finish
  <2>5. circuit' = circuit \/ (circuit' = TRUE /\ Service!Read = {})
    <3> SUFFICES ASSUME circuit' # circuit PROVE circuit' = TRUE /\ Service!Read = {}
      OBVIOUS
    <3>2. circuit' = TRUE
      BY <1>8 DEF Finish, TypeOK
    <3>3. ~circuit
      BY <3>2 DEF TypeOK
    <3>4. \A t \in 1 .. run.size : t \in Task => results'[t].status \notin {"ok", "empty"}
      BY <1>8, <3>2, <3>3 DEF Finish
    <3>5. \A t \in Task : t <= run.size => results[t].status \notin {"ok", "empty"}
      BY <2>4, <3>4 DEF Task
    <3> QED BY <3>2, <3>5 DEF Service!Read
  <2>6. Service!End
    BY <2>1, <2>2, <2>4, <2>5 DEF Service!End, At
  <2> QED BY <2>6 DEF Service!Next
<1> QED
  <2>1. CASE \E w \in Worker, s \in Outcome \ {"none", "unavailable"} : Answered(w, s)
    <3>1. PICK w \in Worker, s \in Outcome \ {"none", "unavailable"} : Answered(w, s)
      BY <2>1
    <3>2. inflight[w] \in Task
      BY <3>1 DEF Answered, TypeOK
    <3> QED BY <1>3, <3>1, <3>2 DEF Service!Next
  <2> QED BY <1>1, <1>4, <1>5, <1>6, <1>7, <1>8, <2>1, TaskSteps DEF Service!Next

(* Whatever its workers do, run_batch is the service it promises to be: each *)
(* task of a batch is told once, and an unusable engine is not tried again. *)
THEOREM ServiceKept == Spec => BatchKept
<1>1. Init => Fresh
  BY DEF Init, Fresh
<1>2. IInv /\ Fresh /\ [Next]_vars => Fresh'
  BY FreshStep
<1>3. Spec => []Fresh
  BY <1>1, <1>2, PoolInvariance, PTL DEF Spec
<1>4. Init => Service!Init
  BY DEF Init, Service!Init, At, Unanswered
<1>5. IInv /\ Fresh /\ [Next]_vars
        => [Service!Next]_<<~At("idle"), run.size, answers, circuit>>
  BY ServiceStep
<1> QED BY <1>3, <1>4, <1>5, PoolInvariance, PTL
        DEF Spec, BatchKept, Service!Spec, answers
=============================================================================
