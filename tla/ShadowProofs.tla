---------------------------- MODULE ShadowProofs ----------------------------
(***************************************************************************)
(* EvidenceIsWhole and CloseKeepsJobs of ShadowSafety, for any number of   *)
(* crops and engines and any size of the collector's queue.                *)
(***************************************************************************)
EXTENDS ShadowSafety, SequenceTheorems, TLAPS

Place == {"idle", "taken", "building", "check", "enter", "gather", "store"}
End == {"done", "failed"}
Fate == {"new", "refused", "queued", "cancelled", "running"} \cup End
Answer == {"none", "result", "failure", "timeout"}

WorkerTypes == pc \in Place /\ job \in 0 .. Inputs /\ k \in Nat
CallerTypes ==
  /\ caller = [at |-> caller.at, input |-> caller.input]
  /\ caller.at # "idle" => caller.input \in Input
CropTypes ==
  /\ fut \in [Input -> Fate] /\ queue \in Seq(Input)
  /\ rows \in [Input -> [Roles -> Nat]] /\ got \in [Roles -> Answer]

(* A crop is new until the executor has it, queued once, then in the hands *)
(* of the worker.                                                          *)
Admitted ==
  /\ \A i \in Input : i \notin submitted => fut[i] = "new"
  /\ caller.at \in {"admitted", "submitting"} =>
       caller.input \in submitted /\ fut[caller.input] = "new"
Queued ==
  /\ \A n \in 1 .. Len(queue) : fut[queue[n]] = "queued"
  /\ \A m, n \in 1 .. Len(queue) : queue[m] = queue[n] => m = n
InHand == pc # "idle" => job \in Input /\ fut[job] = "running"

(* Rows are written of a crop whose turn has come, when all is gathered.   *)
Blank == \A i \in Input, e \in Roles : rows[i][e] # 0 =>
           fut[i] \in End \cup {"running"} /\ (i = job => pc \in {"idle", "store"})

(* The worker's counter starts at nothing, and what it has counted is there. *)
Counted ==
  /\ pc \notin {"building", "gather"} => k = 0
  /\ pc = "gather" => \A n \in DOMAIN Order : n <= k => got[Order[n]] # "none"

(* What is not written yet of the crop is still to be written.             *)
Storing == pc = "store" => \A e \in Roles : rows[job][e] = IF got[e] = "none" THEN 1 ELSE 0

IInv ==
  /\ WorkerTypes /\ CallerTypes /\ CropTypes /\ Admitted /\ Queued /\ InHand /\ Blank
  /\ Counted /\ Storing /\ EvidenceIsWhole

USE ShadowConstants DEF Input, Nothing

LEMMA InitOk == Init => IInv
<1> SUFFICES ASSUME Init PROVE IInv
  OBVIOUS
<1>1. WorkerTypes
  BY DEF Init, WorkerTypes, Place
<1>2. CallerTypes
  BY DEF Init, CallerTypes
<1>3. fut \in [Input -> Fate] /\ queue \in Seq(Input) /\ got \in [Roles -> Answer]
  BY DEF Init, Fate, End, Answer
<1>4. rows \in [Input -> [Roles -> Nat]]
  BY DEF Init
<1>5. Admitted /\ Queued /\ InHand
  BY DEF Init, Admitted, Queued, InHand
<1>6. Counted /\ Storing
  BY DEF Init, Counted, Storing
<1>7. Blank /\ EvidenceIsWhole
  BY DEF Init, Blank, EvidenceIsWhole
<1> QED
  BY <1>1, <1>2, <1>3, <1>4, <1>5, <1>6, <1>7 DEF IInv, CropTypes

(* A step of another thread than the worker's, which touches no crop.      *)
LEMMA Elsewhere ==
  ASSUME IInv, UNCHANGED <<fut, queue, worker, got, rows>>, CallerTypes', Admitted'
  PROVE  IInv'
<1>1. WorkerTypes' /\ CropTypes' /\ Queued' /\ InHand' /\ Counted' /\ Storing'
  BY DEF IInv, worker, WorkerTypes, CropTypes, Queued, InHand, Counted, Storing
<1>2. Blank' /\ EvidenceIsWhole'
  BY DEF IInv, worker, Blank, EvidenceIsWhole
<1> QED
  BY <1>1, <1>2 DEF IInv

(* A step of the worker that neither takes, stores nor ends a crop.        *)
LEMMA GoesOn ==
  ASSUME IInv, UNCHANGED <<fut, queue, rows, job, call>>, got' \in [Roles -> Answer],
         pc \notin {"idle", "store"}, pc' \notin {"idle", "store"}, WorkerTypes', Counted'
  PROVE  IInv'
<1>1. CallerTypes' /\ Admitted' /\ CropTypes' /\ Queued' /\ InHand' /\ Storing'
  BY DEF IInv, call, CallerTypes, Admitted, CropTypes, Queued, InHand, Storing
<1>2. Blank' /\ EvidenceIsWhole'
  BY DEF IInv, Blank, EvidenceIsWhole
<1> QED
  BY <1>1, <1>2 DEF IInv

(* The worker puts its crop down: with all rows if it says it is done.     *)
LEMMA PutsDown ==
  ASSUME IInv, NEW how \in End, pc # "idle", Ends(how), UNCHANGED <<queue, rows, call>>,
         got' \in [Roles -> Answer],
         how = "done" => \A e \in Roles : rows[job][e] = 1
  PROVE  IInv'
<1>1. /\ job \in Input /\ fut[job] = "running" /\ fut' = [fut EXCEPT ![job] = how]
      /\ pc' = "idle" /\ job' = 0 /\ k' = 0
  BY DEF IInv, InHand, Ends
<1>2. /\ fut' \in [Input -> Fate]
      /\ \A i \in Input : fut'[i] = IF i = job THEN how ELSE fut[i]
  BY <1>1 DEF IInv, CropTypes, Fate
<1>3. WorkerTypes'
  BY <1>1 DEF WorkerTypes, Place
<1>4. CallerTypes' /\ CropTypes'
  BY <1>2 DEF IInv, call, CallerTypes, CropTypes
<1>5. Admitted'
  BY <1>1, <1>2 DEF IInv, call, CallerTypes, Admitted
<1>6. Queued'
  <2>1. \A n \in 1 .. Len(queue) : queue[n] \in Input
    BY DEF IInv, CropTypes
  <2> QED
    BY <2>1, <1>1, <1>2 DEF IInv, Queued
<1>7. InHand' /\ Counted' /\ Storing'
  BY <1>1 DEF InHand, Counted, Storing
<1>8. Blank'
  BY <1>1, <1>2 DEF IInv, Blank, End
<1>9. EvidenceIsWhole'
  BY <1>1, <1>2 DEF IInv, EvidenceIsWhole, End
<1> QED
  BY <1>3, <1>4, <1>5, <1>6, <1>7, <1>8, <1>9 DEF IInv

(***************************************************************************)
(* The inference thread.                                                   *)
(***************************************************************************)
LEMMA DispatchOk == IInv /\ ((\E i \in Input : Dispatch(i)) \/ LockGranted) => IInv'
<1> SUFFICES ASSUME IInv, (\E i \in Input : Dispatch(i)) \/ LockGranted PROVE IInv'
  OBVIOUS
<1>1. UNCHANGED <<fut, queue, worker, got, rows>>
  BY DEF Dispatch, LockGranted, work, run
<1>2. \E i \in Input :
        \/ Enters(i)
        \/ submitted' = submitted /\ caller' = [at |-> "waiting", input |-> i]
  BY DEF IInv, CallerTypes, Dispatch, LockGranted
<1>3. PICK i \in Input :
        \/ Enters(i)
        \/ submitted' = submitted /\ caller' = [at |-> "waiting", input |-> i]
  BY <1>2
<1>4. CallerTypes'
  BY <1>3 DEF Enters, CallerTypes
<1>5. Admitted'
  <2>1. CASE Enters(i) /\ i \in submitted
    BY <2>1, <1>1 DEF IInv, Admitted, Enters
  <2>2. CASE Enters(i) /\ i \notin submitted
    BY <2>2, <1>1 DEF IInv, Admitted, Enters
  <2>3. CASE submitted' = submitted /\ caller' = [at |-> "waiting", input |-> i]
    BY <2>3, <1>1 DEF IInv, Admitted
  <2> QED
    BY <2>1, <2>2, <2>3, <1>3
<1> QED
  BY <1>1, <1>4, <1>5, Elsewhere

(* A crop that was new is refused, or joins the queue.                     *)
LEMMA HandedOver ==
  ASSUME IInv, NEW fate \in {"refused", "queued"}, caller.at \in {"admitted", "submitting"},
         fut' = [fut EXCEPT ![caller.input] = fate],
         IF fate = "queued" THEN queue' = Append(queue, caller.input) ELSE UNCHANGED queue,
         caller' = [at |-> "idle", input |-> Nothing],
         UNCHANGED <<submitted, worker, got, rows>>
  PROVE  IInv'
<1> DEFINE i == caller.input
<1>1. i \in Input /\ i \in submitted /\ fut[i] = "new"
  BY DEF IInv, CallerTypes, Admitted
<1>2. /\ fut' \in [Input -> Fate]
      /\ \A j \in Input : fut'[j] = IF j = i THEN fate ELSE fut[j]
  BY <1>1 DEF IInv, CropTypes, Fate
<1>3. queue \in Seq(Input) /\ \A n \in 1 .. Len(queue) : queue[n] \in Input /\ queue[n] # i
  BY <1>1 DEF IInv, CropTypes, Queued
<1> HIDE DEF i
<1>4. queue' \in Seq(Input) /\ Queued'
  <2>1. CASE fate # "queued"
    BY <2>1, <1>2, <1>3 DEF IInv, Queued
  <2>2. CASE fate = "queued"
    <3>1. queue' = Append(queue, i)
      BY <2>2 DEF i
    <3>2. /\ queue' \in Seq(Input) /\ Len(queue') = Len(queue) + 1 /\ Len(queue) \in Nat
          /\ \A n \in 1 .. Len(queue') : queue'[n] = IF n = Len(queue) + 1 THEN i ELSE queue[n]
      BY <3>1, <1>1, <1>3
    <3>3. \A n \in 1 .. Len(queue') : n = Len(queue) + 1 \/ n \in 1 .. Len(queue)
      BY <3>2
    <3>4. \A n \in 1 .. Len(queue') : fut'[queue'[n]] = "queued"
      <4> SUFFICES ASSUME NEW n \in 1 .. Len(queue') PROVE fut'[queue'[n]] = "queued"
        OBVIOUS
      <4>1. CASE n = Len(queue) + 1
        BY <4>1, <3>2, <2>2, <1>1, <1>2
      <4>2. CASE n # Len(queue) + 1
        <5>1. queue'[n] = queue[n] /\ n \in 1 .. Len(queue)
          BY <4>2, <3>2, <3>3
        <5>2. queue[n] \in Input /\ queue[n] # i /\ fut[queue[n]] = "queued"
          BY <5>1, <1>3 DEF IInv, Queued
        <5> QED
          BY <5>1, <5>2, <1>2
      <4> QED
        BY <4>1, <4>2
    <3>5. \A m, n \in 1 .. Len(queue') : queue'[m] = queue'[n] => m = n
      BY <3>2, <3>3, <1>3 DEF IInv, Queued
    <3> QED
      BY <3>2, <3>4, <3>5 DEF Queued
  <2> QED
    BY <2>1, <2>2
<1>5. CallerTypes' /\ WorkerTypes' /\ CropTypes'
  BY <1>2, <1>4 DEF IInv, worker, CallerTypes, WorkerTypes, CropTypes
<1>6. Admitted'
  BY <1>1, <1>2 DEF IInv, Admitted
<1>7. InHand' /\ Counted' /\ Storing'
  BY <1>1, <1>2 DEF IInv, worker, InHand, Counted, Storing
<1>8. Blank'
  BY <1>1, <1>2 DEF IInv, worker, Blank, End
<1>9. EvidenceIsWhole'
  BY <1>1, <1>2 DEF IInv, EvidenceIsWhole
<1> QED
  BY <1>4, <1>5, <1>6, <1>7, <1>8, <1>9 DEF IInv

LEMMA SubmitOk == IInv /\ (ReadExecutor \/ Submit) => IInv'
<1> SUFFICES ASSUME IInv, ReadExecutor \/ Submit PROVE IInv'
  OBVIOUS
<1>1. CASE ReadExecutor /\ accepting
  <2>1. /\ UNCHANGED <<submitted, fut, queue, worker, got, rows>>
        /\ caller.at = "admitted" /\ caller' = [caller EXCEPT !.at = "submitting"]
    BY <1>1 DEF ReadExecutor, run
  <2>2. CallerTypes' /\ Admitted'
    BY <2>1 DEF IInv, CallerTypes, Admitted
  <2> QED
    BY <2>1, <2>2, Elsewhere
<1>2. CASE ReadExecutor /\ ~accepting
  <2>1. /\ caller.at = "admitted" /\ fut' = [fut EXCEPT ![caller.input] = "refused"]
        /\ caller' = [at |-> "idle", input |-> Nothing]
        /\ UNCHANGED <<queue, submitted, worker, got, rows>>
    BY <1>2 DEF ReadExecutor, run
  <2> QED
    BY <2>1, HandedOver
<1>3. CASE Submit
  <2>1. PICK fate \in {"refused", "queued"} :
          /\ fut' = [fut EXCEPT ![caller.input] = fate]
          /\ IF fate = "queued" THEN queue' = Append(queue, caller.input) ELSE UNCHANGED queue
    BY <1>3 DEF Submit
  <2>2. /\ caller.at = "submitting" /\ caller' = [at |-> "idle", input |-> Nothing]
        /\ UNCHANGED <<submitted, worker, got, rows>>
    BY <1>3 DEF Submit, run
  <2> QED
    BY <2>1, <2>2, HandedOver
<1> QED
  BY <1>1, <1>2, <1>3

(***************************************************************************)
(* The worker.                                                             *)
(***************************************************************************)
LEMMA TakeOk == IInv /\ Take => IInv'
<1> SUFFICES ASSUME IInv, Take PROVE IInv'
  OBVIOUS
<1> DEFINE h == Head(queue)
<1>1. /\ pc = "idle" /\ queue # << >> /\ job' = h /\ queue' = Tail(queue)
      /\ fut' = [fut EXCEPT ![h] = "running"] /\ pc' = "taken"
      /\ UNCHANGED <<call, k, got, rows>>
  BY DEF Take, run
<1>2. queue \in Seq(Input) /\ k = 0
  BY <1>1 DEF IInv, CropTypes, Counted
<1>3. /\ h \in Input /\ h = queue[1] /\ 1 \in 1 .. Len(queue) /\ Len(queue) \in Nat
      /\ queue' \in Seq(Input) /\ Len(queue') = Len(queue) - 1
      /\ \A n \in 1 .. Len(queue') : queue'[n] = queue[n + 1]
  BY <1>1, <1>2
<1>4. fut[h] = "queued"
  BY <1>3 DEF IInv, Queued
<1> HIDE DEF h
<1>5. \A n \in 1 .. Len(queue') : n + 1 \in 1 .. Len(queue) /\ n + 1 # 1 /\ queue[n + 1] \in Input
  BY <1>2, <1>3
<1>6. \A n \in 1 .. Len(queue') : queue'[n] # h /\ queue'[n] \in Input /\ fut[queue'[n]] = "queued"
  <2> SUFFICES ASSUME NEW n \in 1 .. Len(queue')
               PROVE  queue'[n] # h /\ queue'[n] \in Input /\ fut[queue'[n]] = "queued"
    OBVIOUS
  <2>1. queue'[n] = queue[n + 1] /\ n + 1 \in 1 .. Len(queue) /\ n + 1 # 1 /\ queue[n + 1] \in Input
    BY <1>3, <1>5
  <2>2. fut[queue[n + 1]] = "queued" /\ queue[n + 1] # queue[1]
    BY <2>1, <1>3 DEF IInv, Queued
  <2> QED
    BY <2>1, <2>2, <1>3
<1>7. /\ fut' \in [Input -> Fate]
      /\ \A i \in Input : fut'[i] = IF i = h THEN "running" ELSE fut[i]
  BY <1>1, <1>3 DEF IInv, CropTypes, Fate
<1>8. Queued'
  <2>1. \A n \in 1 .. Len(queue') : fut'[queue'[n]] = "queued"
    BY <1>6, <1>7
  <2>2. \A m, n \in 1 .. Len(queue') : queue'[m] = queue'[n] => m = n
    <3> SUFFICES ASSUME NEW m \in 1 .. Len(queue'), NEW n \in 1 .. Len(queue'), queue'[m] = queue'[n]
                 PROVE  m = n
      OBVIOUS
    <3>2. queue[m + 1] = queue[n + 1] /\ m + 1 \in 1 .. Len(queue) /\ n + 1 \in 1 .. Len(queue)
      BY <1>3, <1>5
    <3>1. m + 1 = n + 1
      BY <3>2 DEF IInv, Queued
    <3> QED
      BY <3>1, <1>3
  <2> QED
    BY <2>1, <2>2 DEF Queued
<1>9. WorkerTypes'
  BY <1>1, <1>2, <1>3 DEF WorkerTypes, Place
<1>10. CallerTypes' /\ CropTypes'
  BY <1>1, <1>3, <1>7 DEF IInv, call, CallerTypes, CropTypes
<1>11. Admitted'
  BY <1>1, <1>3, <1>4, <1>7 DEF IInv, call, CallerTypes, Admitted
<1>12. InHand' /\ Counted' /\ Storing'
  BY <1>1, <1>2, <1>3, <1>7 DEF InHand, Counted, Storing
<1>13. \A e \in Roles : rows[h][e] = 0
  BY <1>3, <1>4 DEF IInv, Blank, End
<1>14. Blank'
  BY <1>1, <1>7, <1>13 DEF IInv, Blank
<1>15. EvidenceIsWhole'
  BY <1>1, <1>7 DEF IInv, EvidenceIsWhole
<1> QED
  BY <1>8, <1>9, <1>10, <1>11, <1>12, <1>14, <1>15 DEF IInv

LEMMA BuildOk == IInv /\ Build => IInv'
<1> SUFFICES ASSUME IInv, Build PROVE IInv'
  OBVIOUS
<1>1. UNCHANGED <<fut, queue, rows, job, call, got>>
  BY DEF Build, BuildBegins, BuildEngine, BuildMissing, MigrationFails, BuildUnhealthy, Publish,
         Goto, work, run
<1>2. pc \in {"taken", "building"} /\ pc' \in {"building", "check"}
  BY DEF Build, BuildBegins, BuildEngine, BuildMissing, MigrationFails, BuildUnhealthy, Publish,
         BuiltAll, Goto
<1>3. k' \in Nat /\ (pc' = "check" => k' = 0)
  <2>1. CASE BuildBegins
    BY <2>1 DEF BuildBegins, IInv, Counted, Goto
  <2>2. CASE BuildEngine
    BY <2>2 DEF BuildEngine, IInv, WorkerTypes
  <2>3. CASE BuildMissing \/ MigrationFails \/ BuildUnhealthy \/ Publish
    BY <2>3 DEF BuildMissing, MigrationFails, BuildUnhealthy, Publish
  <2> QED
    BY <2>1, <2>2, <2>3 DEF Build
<1>4. WorkerTypes' /\ Counted'
  BY <1>1, <1>2, <1>3 DEF IInv, WorkerTypes, Place, Counted
<1>5. got' \in [Roles -> Answer]
  BY <1>1 DEF IInv, CropTypes
<1> QED
  BY <1>1, <1>2, <1>4, <1>5, GoesOn

LEMMA CheckStageOk == IInv /\ CheckStage => IInv'
<1> SUFFICES ASSUME IInv, CheckStage PROVE IInv'
  OBVIOUS
<1>1. pc \in {"check", "enter"} /\ UNCHANGED <<queue, rows, call>>
  BY DEF CheckStage
<1>2. CASE ~stage
  <2>1. Ends("failed") /\ UNCHANGED got
    BY <1>2 DEF CheckStage, run
  <2>2. got' \in [Roles -> Answer] /\ "failed" \in End
    BY <2>1 DEF IInv, CropTypes, End
  <2> QED
    BY <1>1, <2>1, <2>2, PutsDown
<1>3. CASE stage
  <2>1. /\ UNCHANGED <<fut, job>> /\ k' = k /\ k = 0 /\ pc' \in {"enter", "gather"}
        /\ UNCHANGED got \/ got' = [e \in Roles |-> "none"]
    BY <1>1, <1>3 DEF CheckStage, Goto, run, IInv, Counted
  <2>2. got' \in [Roles -> Answer]
    BY <2>1 DEF IInv, CropTypes, Answer
  <2>3. WorkerTypes'
    BY <2>1 DEF IInv, WorkerTypes, Place
  <2>4. \A n \in DOMAIN Order : ~(n <= 0)
    OBVIOUS
  <2>5. Counted'
    BY <2>1, <2>4 DEF Counted
  <2> QED
    BY <1>1, <2>1, <2>2, <2>3, <2>5, GoesOn
<1> QED
  BY <1>2, <1>3

LEMMA GatherOk == IInv /\ Gather => IInv'
<1> SUFFICES ASSUME IInv, Gather PROVE IInv'
  OBVIOUS
<1> DEFINE e == Order[k + 1]
<1>1. /\ pc = "gather" /\ pc' = "gather" /\ k < Len(Order) /\ k' = k + 1 /\ Record(e)
      /\ UNCHANGED <<fut, queue, rows, job, call>>
  BY DEF Gather, work
<1>2. k \in Nat /\ k + 1 \in DOMAIN Order /\ e \in Roles
  BY <1>1 DEF IInv, WorkerTypes, Roles
<1> HIDE DEF e
<1>3. PICK a \in Answer \ {"none"} : got' = [got EXCEPT ![e] = a]
  <2>1. CASE Answered(e)
    BY <2>1, <1>1 DEF Record, Answered, Answer
  <2>2. CASE ~Answered(e)
    BY <2>2, <1>1 DEF Record, Answer
  <2> QED
    BY <2>1, <2>2
<1>4. /\ got' \in [Roles -> Answer]
      /\ \A f \in Roles : got'[f] = IF f = e THEN a ELSE got[f]
  BY <1>2, <1>3 DEF IInv, CropTypes
<1>5. WorkerTypes'
  BY <1>1, <1>2 DEF IInv, WorkerTypes
<1>6. Counted'
  <2> SUFFICES ASSUME NEW n \in DOMAIN Order, n <= k + 1 PROVE got'[Order[n]] # "none"
    BY <1>1 DEF Counted
  <2>1. CASE n = k + 1
    BY <2>1, <1>2, <1>4 DEF e
  <2>2. CASE n # k + 1
    <3>1. n <= k /\ Order[n] \in Roles
      BY <2>2, <1>2 DEF Roles
    <3>2. got[Order[n]] # "none"
      BY <3>1, <1>1 DEF IInv, Counted
    <3> QED
      BY <3>1, <3>2, <1>4
  <2> QED
    BY <2>1, <2>2
<1> QED
  BY <1>1, <1>4, <1>5, <1>6, GoesOn

LEMMA GatheredOk == IInv /\ Gathered => IInv'
<1> SUFFICES ASSUME IInv, Gathered PROVE IInv'
  OBVIOUS
<1>1. /\ pc = "gather" /\ pc' = "store" /\ k = Len(Order) /\ k' = 0
      /\ UNCHANGED <<fut, queue, rows, job, call, got>>
  BY DEF Gathered, Goto, work
<1>2. \A e \in Roles : got[e] # "none"
  <2>1. \A n \in DOMAIN Order : n <= k
    BY <1>1
  <2> QED
    BY <2>1, <1>1 DEF IInv, Counted, Roles
<1>3. job \in Input /\ \A e \in Roles : rows[job][e] = 0
  BY <1>1 DEF IInv, InHand, Blank
<1>4. WorkerTypes' /\ Counted'
  BY <1>1 DEF IInv, WorkerTypes, Place, Counted
<1>5. CallerTypes' /\ Admitted' /\ CropTypes' /\ Queued' /\ InHand'
  BY <1>1 DEF IInv, call, CallerTypes, Admitted, CropTypes, Queued, InHand
<1>6. Storing' /\ Blank' /\ EvidenceIsWhole'
  BY <1>1, <1>2, <1>3 DEF IInv, Storing, Blank, EvidenceIsWhole
<1> QED
  BY <1>4, <1>5, <1>6 DEF IInv

LEMMA StoreOk == ASSUME IInv, NEW e \in Roles, Store(e) PROVE IInv'
<1>1. /\ pc = "store" /\ got[e] # "none" /\ got' = [got EXCEPT ![e] = "none"]
      /\ rows' = [rows EXCEPT ![job][e] = @ + 1]
      /\ UNCHANGED <<fut, queue, pc, job, k, call>>
  BY DEF Store, Left, Insert, work, worker
<1>2. job \in Input /\ fut[job] = "running" /\ rows[job] \in [Roles -> Nat]
  BY <1>1 DEF IInv, InHand, CropTypes
<1>3. rows[job][e] = 0
  BY <1>1 DEF IInv, Storing
<1>4. /\ got' \in [Roles -> Answer]
      /\ \A f \in Roles : got'[f] = IF f = e THEN "none" ELSE got[f]
  BY <1>1 DEF IInv, CropTypes, Answer
<1>5. /\ rows' \in [Input -> [Roles -> Nat]]
      /\ \A i \in Input, f \in Roles : rows'[i][f] = IF i = job /\ f = e THEN 1 ELSE rows[i][f]
  <2>1. rows' = [rows EXCEPT ![job] = [rows[job] EXCEPT ![e] = 1]]
    BY <1>1, <1>3
  <2>2. [rows[job] EXCEPT ![e] = 1] \in [Roles -> Nat]
    BY <1>2
  <2>3. rows' \in [Input -> [Roles -> Nat]]
    BY <2>1, <2>2 DEF IInv, CropTypes
  <2>4. \A i \in Input : i # job => rows'[i] = rows[i]
    BY <2>1 DEF IInv, CropTypes
  <2>5. rows'[job] = [rows[job] EXCEPT ![e] = 1]
    BY <2>1, <1>2 DEF IInv, CropTypes
  <2>6. \A f \in Roles : rows'[job][f] = IF f = e THEN 1 ELSE rows[job][f]
    BY <2>5, <1>2
  <2> QED
    BY <2>3, <2>4, <2>6
<1>6. WorkerTypes' /\ CallerTypes' /\ Admitted' /\ Queued' /\ InHand' /\ Counted'
  BY <1>1 DEF IInv, call, WorkerTypes, CallerTypes, Admitted, Queued, InHand, Counted
<1>7. CropTypes'
  BY <1>1, <1>4, <1>5 DEF IInv, CropTypes
<1>8. Blank'
  BY <1>1, <1>2, <1>5 DEF IInv, Blank
<1>9. Storing'
  BY <1>1, <1>2, <1>4, <1>5 DEF IInv, Storing
<1>10. EvidenceIsWhole'
  BY <1>1, <1>2, <1>5 DEF IInv, EvidenceIsWhole
<1> QED
  BY <1>6, <1>7, <1>8, <1>9, <1>10 DEF IInv

LEMMA PutDownOk == IInv /\ (StoreFails \/ Finish) => IInv'
<1> SUFFICES ASSUME IInv, StoreFails \/ Finish PROVE IInv'
  OBVIOUS
<1>1. pc = "store" /\ UNCHANGED <<queue, rows, call>>
  BY DEF StoreFails, Finish
<1>2. CASE StoreFails
  <2>1. Ends("failed") /\ got' = [e \in Roles |-> "none"] /\ "failed" \in End
    BY <1>2 DEF StoreFails, End
  <2>2. got' \in [Roles -> Answer]
    BY <2>1 DEF Answer
  <2> QED
    BY <1>1, <2>1, <2>2, PutsDown
<1>3. CASE Finish
  <2>1. Ends("done") /\ UNCHANGED got /\ "done" \in End /\ \A e \in Roles : got[e] = "none"
    BY <1>3 DEF Finish, Left, run, End
  <2>2. \A e \in Roles : rows[job][e] = 1
    BY <1>1, <2>1 DEF IInv, Storing
  <2>3. got' \in [Roles -> Answer]
    BY <2>1 DEF IInv, CropTypes
  <2> QED
    BY <1>1, <2>1, <2>2, <2>3, PutsDown
<1> QED
  BY <1>2, <1>3

(***************************************************************************)
(* The other threads, and the shutdown.                                    *)
(***************************************************************************)
LEMMA ShutCancelsOk == IInv /\ ShutCancels => IInv'
<1> SUFFICES ASSUME IInv, ShutCancels PROVE IInv'
  OBVIOUS
<1>1. /\ queue' = << >> /\ UNCHANGED <<call, pc, job, k, got, rows>>
      /\ fut' = [i \in Input |-> IF fut[i] = "queued" THEN "cancelled" ELSE fut[i]]
  BY DEF ShutCancels, run, worker
<1>2. /\ fut' \in [Input -> Fate]
      /\ \A i \in Input : fut'[i] = IF fut[i] = "queued" THEN "cancelled" ELSE fut[i]
  BY <1>1 DEF IInv, CropTypes, Fate
<1>3. queue' \in Seq(Input) /\ Len(queue') = 0
  BY <1>1
<1>4. WorkerTypes' /\ CallerTypes' /\ CropTypes' /\ Queued' /\ Counted' /\ Storing'
  BY <1>1, <1>2, <1>3
     DEF IInv, call, WorkerTypes, CallerTypes, CropTypes, Queued, Counted, Storing
<1>5. Admitted' /\ InHand'
  BY <1>1, <1>2 DEF IInv, call, CallerTypes, Admitted, InHand
<1>6. Blank' /\ EvidenceIsWhole'
  BY <1>1, <1>2 DEF IInv, Blank, EvidenceIsWhole, End
<1> QED
  BY <1>4, <1>5, <1>6 DEF IInv

LEMMA OthersOk ==
  IInv /\ (\/ Engines \/ Deadline \/ Collector \/ ShutTakes \/ ShutFlushes \/ ShutJoins
           \/ ShutCloses \/ UNCHANGED vars) => IInv'
<1> SUFFICES ASSUME IInv, \/ Engines \/ Deadline \/ Collector \/ ShutTakes \/ ShutFlushes
                          \/ ShutJoins \/ ShutCloses \/ UNCHANGED vars
             PROVE IInv'
  OBVIOUS
<1>1. UNCHANGED <<fut, queue, worker, got, rows, call>>
  BY DEF Engines, Recognize, EngineEnds, Deadline, Collector, CollectorTakes, CollectorCounts,
         CollectorProcesses, CollectorEnds, ShutTakes, ShutFlushes, ShutJoins, ShutCloses,
         vars, work, run
<1>2. CallerTypes' /\ Admitted'
  BY <1>1 DEF IInv, call, CallerTypes, Admitted
<1> QED
  BY <1>1, <1>2, Elsewhere

LEMMA Step == IInv /\ [Next]_vars => IInv'
  BY DispatchOk, SubmitOk, TakeOk, BuildOk, CheckStageOk, GatherOk, GatheredOk, StoreOk,
     PutDownOk, ShutCancelsOk, OthersOk DEF Next, Caller, Worker, Shutdown

(* Every stored crop has one row of each engine.                           *)
THEOREM WholeEvidence == Spec => []EvidenceIsWhole
<1>1. IInv => EvidenceIsWhole
  BY DEF IInv
<1> QED
  BY <1>1, InitOk, Step, PTL DEF Spec

(***************************************************************************)
(* Closing the collector: where the jobs it owes are.                      *)
(***************************************************************************)
Taken == {hand} \ {Nothing}
Pending == {cq[n] : n \in 1 .. Len(cq)} \cup Taken

CollectorTypes == cq \in Seq(Input) /\ hand \in 0 .. Inputs /\ inflight \in {0, 1}

(* The collector's thread is made once, by the one build, and has ended    *)
(* for good when it is gone.                                               *)
OneThread ==
  /\ pc = "building" => built
  /\ collector # "none" => built /\ pc # "building"
  /\ stage => collector # "none"
  /\ down \in {"flush", "join"} \/ (down = "cancel" /\ toClose # {}) => collector # "none"
  /\ hand # Nothing => collector = "up"

(* A job that was waiting when the close began is waiting while the close  *)
(* does; once the thread is told to stop nothing is taken any more, and a  *)
(* flush that did not time out has left only the job in hand, counted or   *)
(* not; the join waits for that one.                                       *)
Owing ==
  /\ down \in {"no", "cancel"} => owed = {}
  /\ down = "flush" => owed \subseteq handled \cup Pending
  /\ down = "join" => halt /\ (~hurried => owed \subseteq handled \cup Taken)
  /\ down \in {"engines", "done"} /\ ~hurried => owed \subseteq handled

CInv == CollectorTypes /\ OneThread /\ Owing

LEMMA CollectorInit == Init => CInv
  BY DEF Init, CInv, CollectorTypes, OneThread, Owing

(* A step that neither builds nor touches the collector or the shutdown.   *)
LEMMA CollectorLeftAlone ==
  ASSUME CInv, UNCHANGED <<cq, hand, inflight, handled, collector, stage, built>>,
         pc' = "building" => pc = "building",
         UNCHANGED <<down, toClose, owed, hurried, halt>>
  PROVE  CInv'
  BY DEF CInv, CollectorTypes, OneThread, Owing, Pending, Taken

LEMMA CollectorBuild == CInv /\ Build => CInv'
<1> SUFFICES ASSUME CInv, Build PROVE CInv'
  OBVIOUS
<1>1. UNCHANGED <<cq, hand, inflight, handled, down, toClose, owed, hurried, halt>>
  BY DEF Build, BuildBegins, BuildEngine, BuildMissing, MigrationFails, BuildUnhealthy, Publish,
         collecting, closing
<1>2. CollectorTypes' /\ Owing'
  BY <1>1 DEF CInv, CollectorTypes, Owing, Pending, Taken
<1>3. OneThread'
  <2>1. CASE BuildBegins
    BY <2>1, <1>1 DEF BuildBegins, Goto, collecting, CInv, OneThread
  <2>2. CASE BuildEngine
    BY <2>2, <1>1 DEF BuildEngine, collecting, CInv, OneThread
  <2>3. CASE BuildMissing \/ MigrationFails \/ BuildUnhealthy
    BY <2>3, <1>1
       DEF BuildMissing, MigrationFails, BuildUnhealthy, BuiltAll, Goto, build, collecting,
           CInv, OneThread
  <2>4. CASE Publish
    BY <2>4, <1>1 DEF Publish, BuiltAll, Goto, CInv, OneThread
  <2> QED
    BY <2>1, <2>2, <2>3, <2>4 DEF Build
<1> QED
  BY <1>2, <1>3 DEF CInv

LEMMA CollectorFinish == IInv /\ CInv /\ Finish => CInv'
<1> SUFFICES ASSUME IInv, CInv, Finish PROVE CInv'
  OBVIOUS
<1>1. /\ job \in Input /\ cq' = IF Room THEN Append(cq, job) ELSE cq
      /\ UNCHANGED <<built, stage, hand, inflight, handled, collector, down, toClose, owed, hurried, halt>>
      /\ pc' = "idle"
  BY DEF IInv, InHand, Finish, Offer, Ends, build, closing
<1>2. cq \in Seq(Input)
  BY DEF CInv, CollectorTypes
<1>3. /\ cq' \in Seq(Input) /\ Len(cq) \in Nat
      /\ \A n \in 1 .. Len(cq) : n \in 1 .. Len(cq') /\ cq'[n] = cq[n]
  <2>1. CASE ~Room
    BY <2>1, <1>1, <1>2
  <2>2. CASE Room
    <3>1. cq' = Append(cq, job) /\ cq' \in Seq(Input) /\ Len(cq') = Len(cq) + 1 /\ Len(cq) \in Nat
      BY <2>2, <1>1, <1>2
    <3>2. \A n \in 1 .. Len(cq) : cq'[n] = cq[n]
      BY <3>1, <1>1, <1>2
    <3> QED
      BY <3>1, <3>2
  <2> QED
    BY <2>1, <2>2
<1>4. Pending \subseteq Pending' /\ Taken' = Taken
  BY <1>1, <1>3 DEF Pending, Taken
<1>5. CollectorTypes' /\ OneThread'
  BY <1>1, <1>3 DEF CInv, CollectorTypes, OneThread
<1>6. Owing'
  BY <1>1, <1>4 DEF CInv, Owing
<1> QED
  BY <1>5, <1>6 DEF CInv

LEMMA CollectorMoves == CInv /\ Collector => CInv'
<1> SUFFICES ASSUME CInv, Collector PROVE CInv'
  OBVIOUS
<1>1. UNCHANGED <<pc, built, stage, down, toClose, owed, hurried, halt>>
  BY DEF Collector, CollectorTakes, CollectorCounts, CollectorProcesses, CollectorEnds,
         worker, build, closing
<1>2. CASE CollectorTakes
  <2>1. /\ collector = "up" /\ hand = Nothing /\ ~halt /\ cq # << >>
        /\ hand' = Head(cq) /\ cq' = Tail(cq) /\ UNCHANGED <<inflight, handled, collector>>
    BY <1>2 DEF CollectorTakes
  <2>2. cq \in Seq(Input)
    BY DEF CInv, CollectorTypes
  <2>3. /\ hand' \in Input /\ hand' = cq[1] /\ cq' \in Seq(Input) /\ Len(cq) \in Nat \ {0}
        /\ Len(cq') = Len(cq) - 1 /\ \A n \in 1 .. Len(cq') : cq'[n] = cq[n + 1]
    BY <2>1, <2>2
  <2>4. Pending \subseteq Pending'
    <3> SUFFICES ASSUME NEW n \in 1 .. Len(cq) PROVE cq[n] \in Pending'
      BY <2>1 DEF Pending, Taken
    <3>1. CASE n = 1
      BY <3>1, <2>3 DEF Pending, Taken
    <3>2. CASE n # 1
      <4>1. n - 1 \in 1 .. Len(cq') /\ cq'[n - 1] = cq[n]
        BY <3>2, <2>3
      <4> QED
        BY <4>1 DEF Pending
    <3> QED
      BY <3>1, <3>2
  <2>5. CollectorTypes' /\ OneThread'
    BY <2>1, <2>3, <1>1 DEF CInv, CollectorTypes, OneThread
  <2>6. Owing'
    BY <2>1, <2>4, <1>1 DEF CInv, Owing
  <2> QED
    BY <2>5, <2>6 DEF CInv
<1>3. CASE CollectorCounts
  <2>1. inflight' = 1 /\ UNCHANGED <<cq, hand, handled, collector>>
    BY <1>3 DEF CollectorCounts
  <2> QED
    BY <2>1, <1>1 DEF CInv, CollectorTypes, OneThread, Owing, Pending, Taken
<1>4. CASE CollectorProcesses
  <2>1. /\ hand' = Nothing /\ inflight' = 0 /\ handled' = handled \cup {hand}
        /\ UNCHANGED <<cq, collector>>
    BY <1>4 DEF CollectorProcesses
  <2> QED
    BY <2>1, <1>1 DEF CInv, CollectorTypes, OneThread, Owing, Pending, Taken
<1>5. CASE CollectorEnds
  <2>1. collector = "up" /\ hand = Nothing /\ collector' = "gone"
        /\ UNCHANGED <<cq, hand, inflight, handled>>
    BY <1>5 DEF CollectorEnds
  <2> QED
    BY <2>1, <1>1 DEF CInv, CollectorTypes, OneThread, Owing, Pending, Taken
<1> QED
  BY <1>2, <1>3, <1>4, <1>5 DEF Collector

LEMMA CollectorShutdown == CInv /\ Shutdown => CInv'
<1> SUFFICES ASSUME CInv, Shutdown PROVE CInv'
  OBVIOUS
<1>1. UNCHANGED <<pc, built, collecting>>
  BY DEF Shutdown, ShutTakes, ShutCancels, ShutFlushes, ShutJoins, ShutCloses, worker, build
<1>2. CollectorTypes'
  BY <1>1 DEF CInv, CollectorTypes, collecting
<1>3. CASE ShutTakes
  <2>1. /\ down = "no" /\ down' = "cancel" /\ stage' = FALSE /\ (toClose' # {} => stage)
        /\ UNCHANGED <<owed, hurried, halt>>
    BY <1>3 DEF ShutTakes
  <2> QED
    BY <1>1, <1>2, <2>1 DEF collecting, CInv, OneThread, Owing
<1>4. CASE ShutCancels
  <2>1. down = "cancel" /\ UNCHANGED <<stage, toClose, hurried, halt>> /\ owed = {}
    BY <1>4 DEF ShutCancels, build, CInv, Owing
  <2>2. CASE toClose = {}
    <3>1. down' = "done" /\ owed' = {}
      BY <2>1, <2>2, <1>4 DEF ShutCancels
    <3> QED
      BY <1>1, <1>2, <2>1, <3>1 DEF collecting, CInv, OneThread, Owing
  <2>3. CASE toClose # {}
    <3>1. down' = "flush" /\ owed' = {cq[n] : n \in DOMAIN cq} \cup Taken
      BY <2>1, <2>3, <1>4 DEF ShutCancels, Taken
    <3>2. DOMAIN cq = 1 .. Len(cq)
      BY DEF CInv, CollectorTypes
    <3>3. owed' \subseteq handled' \cup Pending'
      BY <1>1, <3>1, <3>2 DEF collecting, Pending, Taken
    <3> QED
      BY <1>1, <1>2, <2>1, <2>3, <3>1, <3>3 DEF collecting, CInv, OneThread, Owing
  <2> QED
    BY <2>2, <2>3
<1>5. CASE ShutFlushes
  <2>1. down = "flush" /\ down' = "join" /\ halt' = TRUE /\ UNCHANGED <<stage, toClose, owed>>
    BY <1>5 DEF ShutFlushes, build
  <2>2. ~hurried' => cq = << >>
    BY <1>5 DEF ShutFlushes, Flushed
  <2>3. ~hurried' => owed' \subseteq handled' \cup Taken'
    <3>1. cq = << >> => Pending = Taken
      BY DEF Pending
    <3> QED
      BY <1>1, <2>1, <2>2, <3>1 DEF collecting, CInv, Owing, Taken
  <2>4. OneThread'
    BY <1>1, <2>1 DEF collecting, CInv, OneThread
  <2>5. Owing'
    BY <2>1, <2>3 DEF Owing
  <2> QED
    BY <1>2, <2>4, <2>5 DEF CInv
<1>6. CASE ShutJoins
  <2>1. /\ down = "join" /\ down' = "engines" /\ UNCHANGED <<stage, toClose, owed>>
        /\ ~hurried' => ~hurried /\ collector = "gone"
    BY <1>6 DEF ShutJoins, build
  <2>2. OneThread'
    BY <1>1, <2>1 DEF collecting, CInv, OneThread
  <2>3. Owing'
    BY <1>1, <2>1 DEF collecting, CInv, OneThread, Owing, Taken
  <2> QED
    BY <1>2, <2>2, <2>3 DEF CInv
<1>7. CASE ShutCloses
  BY <1>1, <1>2, <1>7 DEF ShutCloses, build, collecting, CInv, OneThread, Owing
<1> QED
  BY <1>3, <1>4, <1>5, <1>6, <1>7 DEF Shutdown

LEMMA CollectorStep == IInv /\ CInv /\ [Next]_vars => CInv'
<1> SUFFICES ASSUME IInv, CInv, [Next]_vars PROVE CInv'
  OBVIOUS
<1>1. CASE Caller \/ Engines \/ UNCHANGED vars
  <2>1. /\ UNCHANGED <<cq, hand, inflight, handled, collector, stage, built, pc>>
        /\ UNCHANGED <<down, toClose, owed, hurried, halt>>
    BY <1>1 DEF Caller, Dispatch, LockGranted, ReadExecutor, Submit, Engines, Recognize,
                EngineEnds, vars, worker, build, collecting, closing
  <2> QED
    BY <2>1, CollectorLeftAlone
<1>2. CASE Take \/ CheckStage \/ Deadline \/ Gather \/ Gathered \/ (\E e \in Roles : Store(e))
           \/ StoreFails
  <2>1. /\ UNCHANGED <<cq, hand, inflight, handled, collector, stage, built>>
        /\ UNCHANGED <<down, toClose, owed, hurried, halt>>
    BY <1>2 DEF Take, CheckStage, Deadline, Gather, Gathered, Store, StoreFails, build,
                collecting, closing
  <2>2. pc' = "building" => pc = "building"
    BY <1>2 DEF Take, CheckStage, Deadline, Gather, Gathered, Store, StoreFails, Goto, Ends,
                worker
  <2> QED
    BY <2>1, <2>2, CollectorLeftAlone
<1> QED
  BY <1>1, <1>2, CollectorBuild, CollectorFinish, CollectorMoves, CollectorShutdown
     DEF Next, Worker

(* What the collector had when its close began it has processed when the   *)
(* close ends, unless a wait timed out.                                    *)
THEOREM CloseKeeps == Spec => []CloseKeepsJobs
<1>1. CInv => CloseKeepsJobs
  BY DEF CInv, Owing, CloseKeepsJobs
<1> QED
  BY <1>1, InitOk, Step, CollectorInit, CollectorStep, PTL DEF Spec
=============================================================================
