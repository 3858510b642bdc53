------------------------------ MODULE OcrProofs ------------------------------
(***************************************************************************)
(* The safety properties of OcrSafety, for any number of jobs, bodies and  *)
(* attempts, any queue length and any texts; and those of FusionSafety,    *)
(* for any crops, variants, texts and confidences.                         *)
(***************************************************************************)
EXTENDS OcrSafety, FusionSafety, SequenceTheorems, FiniteSetTheorems, TLAPS

BusyPlace == {"taken", "primary", "retry", "det", "decide", "deliver", "again", "slot"}
WorkerPlace == BusyPlace \cup {"off", "start", "ready", "unlock"}
Fate == {"none", "sending", "refused", "queued", "dropped", "lost", "drained", "reading",
         "duplicate", "told", "raised"}
Verdicts == {<< >>, <<"fail">>, <<"result">>, <<"result", "result">>}

WorkerType ==
  /\ wk = [pc |-> wk.pc, job |-> wk.job, vin |-> wk.vin]
  /\ wk.pc \in WorkerPlace /\ wk.job \in 0 .. Jobs
SenderType ==
  /\ sub = [pc |-> sub.pc, job |-> sub.job]
  /\ sub.pc \in {"idle", "put", "full", "lock"} /\ sub.job \in 0 .. Jobs
GuardType == guard = [s \in Body |-> guard[s]]
JobTypes ==
  /\ sent \in 0 .. Jobs /\ of \in [Job -> 0 .. Bodies] /\ waits \in [Body -> BOOLEAN]
  /\ queue \in Seq(Job) /\ fate \in [Job -> Fate] /\ told \in [Job -> Verdicts]
  /\ said = [j \in Job |-> said[j]]
BodyType == body \in 0 .. Bodies /\ plate \in BOOLEAN /\ (plate => body \in Body)
Types == WorkerType /\ SenderType /\ GuardType /\ JobTypes /\ BodyType

(* Where a job is: those of the queue are queued, each once; the one being *)
(* handed over and the one being read are nowhere else.                    *)
Queued ==
  /\ \A i \in 1 .. Len(queue) : fate[queue[i]] = "queued"
  /\ \A i, k \in 1 .. Len(queue) : queue[i] = queue[k] => i = k
Handed == sub.pc \in {"put", "full"} => sub.job \in Job /\ fate[sub.job] = "sending"
Read == wk.pc \in BusyPlace => wk.job \in Job /\ fate[wk.job] = "reading"
Numbers == \A j \in Job : IF j <= sent THEN of[j] \in Body
                                       ELSE fate[j] = "none" /\ of[j] = 0

(* Nothing has been told of a job that has not been read to its end.       *)
Unanswered ==
  /\ \A j \in Job : fate[j] \in {"none", "sending", "queued"} => told[j] = << >>
  /\ wk.pc \in BusyPlace =>
       told[wk.job] = IF wk.pc = "again" THEN <<"result">> ELSE << >>

(* The last VIN was told to its session, or is on its way to it.           *)
Has(j) == told[j] \in {<<"result">>, <<"result", "result">>}
LastIsTold ==
  last.body # 0 => \E k \in Job : /\ of[k] = last.body /\ said[k] = last.vin
                                  /\ Has(k) \/ (wk.pc \in {"deliver", "slot"} /\ wk.job = k)
Silence ==
  \A j \in Job : fate[j] = "duplicate" =>
    \E k \in Job \ {j} : of[k] = of[j] /\ said[k] = said[j] /\ Has(k)
AllTold == \A j \in Job : fate[j] = "told" => told[j] # << >>

IInv ==
  /\ Types /\ Queued /\ Handed /\ Read /\ Numbers /\ Unanswered /\ LastIsTold /\ Silence
  /\ AllTold /\ MarkHasJob

USE WorkConstants DEF Job, Body

LEMMA InitOk == Init => IInv
<1> SUFFICES ASSUME Init PROVE IInv
  OBVIOUS
<1>1. Types
  <2>1. BodyType
    <3>1. body = 0 /\ plate = FALSE /\ 0 \in 0 .. Bodies
      BY DEF Init
    <3> QED
      BY <3>1 DEF BodyType
  <2>6. SenderType
    <3>1. sub = [pc |-> "idle", job |-> 0]
      BY DEF Init
    <3>2. 0 \in 0 .. Jobs
      OBVIOUS
    <3> QED
      BY <3>1, <3>2 DEF SenderType
  <2>2. GuardType
    BY DEF Init, GuardType
  <2>3. WorkerType
    BY DEF Init, NoJob, WorkerPlace, WorkerType
  <2>4. sent \in 0 .. Jobs /\ of \in [Job -> 0 .. Bodies] /\ waits \in [Body -> BOOLEAN]
    BY DEF Init
  <2>5. /\ queue \in Seq(Job) /\ fate \in [Job -> Fate] /\ told \in [Job -> Verdicts]
        /\ said = [j \in Job |-> said[j]]
    BY DEF Init, Fate, Verdicts
  <2> QED
    BY <2>1, <2>2, <2>3, <2>4, <2>5, <2>6 DEF Types, JobTypes
<1>2. Queued /\ Handed /\ Read /\ Numbers /\ Unanswered
  BY DEF Init, Queued, Handed, Read, Numbers, Unanswered, NoJob, BusyPlace
<1>3. LastIsTold /\ Silence /\ AllTold /\ MarkHasJob
  BY DEF Init, LastIsTold, Silence, AllTold, MarkHasJob
<1> QED
  BY <1>1, <1>2, <1>3 DEF IInv

(* A step that moves no job and tells nothing.                             *)
LEMMA NothingMoves ==
  ASSUME IInv, WorkerType', SenderType', GuardType', BodyType',
         UNCHANGED <<queue, sent, of, waits, fate, told, last, said>>,
         sub'.pc \in {"put", "full"} => sub.pc \in {"put", "full"} /\ sub'.job = sub.job,
         wk'.job = wk.job, wk.pc \in BusyPlace <=> wk'.pc \in BusyPlace,
         wk.pc = "again" <=> wk'.pc = "again",
         wk.pc \in {"deliver", "slot"} <=> wk'.pc \in {"deliver", "slot"}
  PROVE  IInv'
<1>1. JobTypes'
  BY DEF IInv, Types, JobTypes
<1>2. Queued' /\ Handed' /\ Read' /\ Numbers' /\ Unanswered'
  BY DEF IInv, Queued, Handed, Read, Numbers, Unanswered
<1>3. LastIsTold' /\ Silence' /\ AllTold' /\ MarkHasJob'
  BY DEF IInv, LastIsTold, Silence, AllTold, MarkHasJob, Has
<1> QED
  BY <1>1, <1>2, <1>3 DEF IInv, Types

(* The two ways the line of jobs changes.                                  *)
LEMMA JoinsTheLine ==
  ASSUME NEW q \in Seq(Job), NEW x \in Job, \A i \in 1 .. Len(q) : q[i] # x,
         \A i, k \in 1 .. Len(q) : q[i] = q[k] => i = k
  PROVE  LET r == Append(q, x) IN
         /\ r \in Seq(Job)
         /\ \A i \in 1 .. Len(r) : r[i] = x \/ \E k \in 1 .. Len(q) : r[i] = q[k]
         /\ \A i, k \in 1 .. Len(r) : r[i] = r[k] => i = k
<1> DEFINE r == Append(q, x)
<1>1. r \in Seq(Job) /\ Len(r) = Len(q) + 1 /\ Len(q) \in Nat
  OBVIOUS
<1>2. \A i \in 1 .. Len(r) : r[i] = IF i = Len(q) + 1 THEN x ELSE q[i]
  OBVIOUS
<1> HIDE DEF r
<1>3. \A i \in 1 .. Len(r) : i = Len(q) + 1 \/ i \in 1 .. Len(q)
  BY <1>1
<1> QED
  BY <1>1, <1>2, <1>3 DEF r

LEMMA LeavesTheLine ==
  ASSUME NEW q \in Seq(Job), q # << >>,
         \A i, k \in 1 .. Len(q) : q[i] = q[k] => i = k
  PROVE  LET r == Tail(q) IN
         /\ r \in Seq(Job) /\ Head(q) \in Job /\ Head(q) = q[1] /\ 1 \in 1 .. Len(q)
         /\ \A i \in 1 .. Len(r) : r[i] # Head(q) /\ \E k \in 1 .. Len(q) : r[i] = q[k]
         /\ \A i, k \in 1 .. Len(r) : r[i] = r[k] => i = k
<1> DEFINE r == Tail(q)
<1>1. /\ r \in Seq(Job) /\ Len(r) = Len(q) - 1 /\ Len(q) \in Nat /\ Len(q) > 0
      /\ Head(q) \in Job /\ Head(q) = q[1]
  OBVIOUS
<1>2. \A i \in 1 .. Len(r) : r[i] = q[i + 1]
  OBVIOUS
<1> HIDE DEF r
<1>3. \A i \in 1 .. Len(r) : i + 1 \in 1 .. Len(q) /\ i + 1 # 1
  BY <1>1
<1>4. 1 \in 1 .. Len(q)
  BY <1>1
<1>5. \A i \in 1 .. Len(r) : r[i] # Head(q) /\ \E k \in 1 .. Len(q) : r[i] = q[k]
  BY <1>1, <1>2, <1>3, <1>4
<1>6. \A i, k \in 1 .. Len(r) : r[i] = r[k] => i = k
  <2> SUFFICES ASSUME NEW i \in 1 .. Len(r), NEW k \in 1 .. Len(r), r[i] = r[k] PROVE i = k
    OBVIOUS
  <2>1. q[i + 1] = q[k + 1]
    BY <1>2
  <2>2. i + 1 = k + 1
    BY <2>1, <1>3
  <2> QED
    BY <2>2, <1>1
<1> QED
  BY <1>1, <1>4, <1>5, <1>6 DEF r

(***************************************************************************)
(* Submission.                                                             *)
(***************************************************************************)
LEMMA AdmitOk == IInv /\ Admit => IInv'
<1> SUFFICES ASSUME IInv, Admit PROVE IInv'
  OBVIOUS
<1> DEFINE n == sent + 1
<1>1. n \in Job /\ fate[n] = "none" /\ of[n] = 0 /\ told[n] = << >> /\ body \in Body
  BY DEF IInv, Types, JobTypes, BodyType, Numbers, Unanswered, Admit
<1>2. /\ of' = [of EXCEPT ![n] = body] /\ fate' = [fate EXCEPT ![n] = "sending"]
      /\ waits' = [waits EXCEPT ![body] = TRUE] /\ sub' = [pc |-> "put", job |-> n]
      /\ sent' = n /\ UNCHANGED <<body, plate, queue, wk, last, said, told>>
  BY DEF Admit, line, decided
<1>3. PICK sig \in 1 .. 2, quality \in 1 .. 2 :
        guard' = [guard EXCEPT ![body].sig = sig, ![body].quality = quality]
  BY DEF Admit
<1> HIDE DEF n
<1>4. GuardType'
  BY <1>1, <1>3 DEF IInv, Types, GuardType
<1>5. WorkerType' /\ SenderType' /\ BodyType'
  BY <1>1, <1>2 DEF IInv, Types, WorkerType, SenderType, BodyType
<1>6. JobTypes'
  BY <1>1, <1>2 DEF IInv, Types, JobTypes, Fate
<1>7. Queued' /\ Handed' /\ Read'
  BY <1>1, <1>2 DEF IInv, Types, JobTypes, Queued, Handed, Read
<1>8. Numbers'
  <2> SUFFICES ASSUME NEW j \in Job
               PROVE IF j <= sent' THEN of'[j] \in Body ELSE fate'[j] = "none" /\ of'[j] = 0
    BY DEF Numbers
  <2>1. CASE j = n
    BY <2>1, <1>1, <1>2 DEF IInv, Types, JobTypes
  <2>2. CASE j # n
    <3>1. (j <= sent' <=> j <= sent) /\ of'[j] = of[j] /\ fate'[j] = fate[j]
      BY <2>2, <1>2 DEF IInv, Types, JobTypes, n
    <3> QED
      BY <3>1 DEF IInv, Numbers
  <2> QED
    BY <2>1, <2>2
<1>9. Unanswered' /\ AllTold'
  BY <1>1, <1>2 DEF IInv, Types, JobTypes, Unanswered, AllTold
<1>13. \A k \in Job : k # n => of'[k] = of[k] /\ fate'[k] = fate[k]
  BY <1>2 DEF IInv, Types, JobTypes
<1>14. \A k \in Job : Has(k) => k # n
  <2>1. Len(<< >>) = 0 /\ Len(<<"result">>) = 1 /\ Len(<<"result", "result">>) = 2
    OBVIOUS
  <2> SUFFICES ASSUME Has(n) PROVE FALSE
    OBVIOUS
  <2>2. << >> \in {<<"result">>, <<"result", "result">>}
    BY <1>1 DEF Has
  <2> QED
    BY <2>1, <2>2
<1>10. LastIsTold'
  <2>1. wk.pc \in {"deliver", "slot"} => wk.job # n
    BY <1>1 DEF IInv, Read, BusyPlace
  <2> QED
    BY <2>1, <1>2, <1>13, <1>14 DEF IInv, LastIsTold, Has
<1>11. Silence'
  <2> SUFFICES ASSUME NEW j \in Job, fate'[j] = "duplicate"
               PROVE \E k \in Job \ {j} : of'[k] = of'[j] /\ said[k] = said[j] /\ Has(k)
    BY <1>2 DEF Silence, Has
  <2>1. j # n
    BY <1>1, <1>2 DEF IInv, Types, JobTypes
  <2>2. fate[j] = "duplicate" /\ of'[j] = of[j]
    BY <2>1, <1>13
  <2>3. PICK k \in Job \ {j} : of[k] = of[j] /\ said[k] = said[j] /\ Has(k)
    BY <2>2 DEF IInv, Silence
  <2> QED
    BY <2>2, <2>3, <1>13, <1>14
<1>12. MarkHasJob'
  <2> SUFFICES ASSUME NEW s \in Body, waits'[s]
               PROVE \E j \in Job : of'[j] = s /\ fate'[j] # "told"
    BY DEF MarkHasJob
  <2>1. CASE s = body
    BY <2>1, <1>1, <1>2 DEF IInv, Types, JobTypes
  <2>2. CASE s # body
    <3>1. waits[s]
      BY <2>2, <1>2 DEF IInv, Types, JobTypes
    <3>2. PICK j \in Job : of[j] = s /\ fate[j] # "told"
      BY <3>1 DEF IInv, MarkHasJob
    <3> QED
      BY <3>2, <1>1, <1>2 DEF IInv, Types, JobTypes
  <2> QED
    BY <2>1, <2>2
<1> QED
  BY <1>4, <1>5, <1>6, <1>7, <1>8, <1>9, <1>10, <1>11, <1>12 DEF IInv, Types

(* A step that changes the fate of some jobs in the hands of the submitter *)
(* or in the queue to another one in which nothing has been told.          *)
LEMMA FatesMove ==
  ASSUME IInv, UNCHANGED <<body, plate, guard, sent, of, waits, told, last, said>>,
         fate' \in [Job -> Fate],
         \A j \in Job : fate'[j] = fate[j] \/
           /\ fate[j] \in {"sending", "queued"}
           /\ fate'[j] \in {"refused", "queued", "dropped", "lost", "drained", "reading"}
  PROVE  /\ GuardType' /\ BodyType' /\ Numbers' /\ AllTold' /\ Silence' /\ MarkHasJob'
         /\ \A j \in Job : fate'[j] \in {"none", "sending", "queued"} => told'[j] = << >>
<1>1. GuardType' /\ BodyType'
  BY DEF IInv, Types, GuardType, BodyType
<1>2. Numbers'
  BY DEF IInv, Types, JobTypes, Numbers
<1>3. AllTold' /\ Silence'
  BY DEF IInv, AllTold, Silence, Has
<1>4. MarkHasJob'
  BY DEF IInv, MarkHasJob
<1>5. \A j \in Job : fate'[j] \in {"none", "sending", "queued"} => told'[j] = << >>
  BY DEF IInv, Unanswered
<1> QED
  BY <1>1, <1>2, <1>3, <1>4, <1>5

LEMMA PutRefusedOk == IInv /\ PutRefused => IInv'
<1> SUFFICES ASSUME IInv, PutRefused PROVE IInv'
  OBVIOUS
<1>1. /\ sub.job \in Job /\ fate[sub.job] = "sending"
      /\ fate' = [fate EXCEPT ![sub.job] = "refused"] /\ sub' = [sub EXCEPT !.pc = "lock"]
      /\ UNCHANGED <<body, plate, guard, sent, of, waits, told, last, said, queue, wk>>
  BY DEF IInv, Handed, PutRefused, line, decided
<1>2. fate' \in [Job -> Fate]
  BY <1>1 DEF IInv, Types, JobTypes, Fate
<1>3. \A j \in Job : fate'[j] = fate[j] \/ (fate[j] = "sending" /\ fate'[j] = "refused")
  BY <1>1 DEF IInv, Types, JobTypes
<1>4. /\ GuardType' /\ BodyType' /\ Numbers' /\ AllTold' /\ Silence' /\ MarkHasJob'
      /\ \A j \in Job : fate'[j] \in {"none", "sending", "queued"} => told'[j] = << >>
  BY <1>1, <1>2, <1>3, FatesMove
<1>5. WorkerType' /\ SenderType' /\ JobTypes'
  BY <1>1, <1>2 DEF IInv, Types, WorkerType, SenderType, JobTypes
<1>6. Queued' /\ Handed' /\ Read'
  BY <1>1, <1>3 DEF IInv, Types, JobTypes, SenderType, Queued, Handed, Read
<1>7. Unanswered' /\ LastIsTold'
  BY <1>1, <1>4 DEF IInv, Unanswered, LastIsTold, Has
<1> QED
  BY <1>4, <1>5, <1>6, <1>7 DEF IInv, Types

LEMMA PutQueuedOk == IInv /\ PutQueued => IInv'
<1> SUFFICES ASSUME IInv, PutQueued PROVE IInv'
  OBVIOUS
<1>1. /\ sub.job \in Job /\ fate[sub.job] = "sending" /\ queue' = Append(queue, sub.job)
      /\ fate' = [fate EXCEPT ![sub.job] = "queued"] /\ sub' = [sub EXCEPT !.pc = "lock"]
      /\ UNCHANGED <<body, plate, guard, sent, of, waits, told, last, said, wk>>
  BY DEF IInv, Handed, PutQueued, decided
<1>2. fate' \in [Job -> Fate]
  BY <1>1 DEF IInv, Types, JobTypes, Fate
<1>3. \A j \in Job : fate'[j] = IF j = sub.job THEN "queued" ELSE fate[j]
  BY <1>1 DEF IInv, Types, JobTypes
<1>4. /\ GuardType' /\ BodyType' /\ Numbers' /\ AllTold' /\ Silence' /\ MarkHasJob'
      /\ \A j \in Job : fate'[j] \in {"none", "sending", "queued"} => told'[j] = << >>
  BY <1>1, <1>2, <1>3, FatesMove
<1>5. queue' \in Seq(Job) /\ Queued'
  <2>1. queue \in Seq(Job) /\ \A i \in 1 .. Len(queue) : queue[i] # sub.job
    BY <1>1 DEF IInv, Types, JobTypes, Queued
  <2>2. /\ queue' \in Seq(Job)
        /\ \A i \in 1 .. Len(queue') :
             queue'[i] = sub.job \/ \E k \in 1 .. Len(queue) : queue'[i] = queue[k]
        /\ \A i, k \in 1 .. Len(queue') : queue'[i] = queue'[k] => i = k
    BY <1>1, <2>1, JoinsTheLine DEF IInv, Queued
  <2>3. \A i \in 1 .. Len(queue) : queue[i] \in Job
    BY <2>1
  <2>4. \A i \in 1 .. Len(queue') : fate'[queue'[i]] = "queued"
    BY <2>2, <2>3, <1>1, <1>3 DEF IInv, Queued
  <2> QED
    BY <2>2, <2>4 DEF Queued
<1>6. WorkerType' /\ SenderType' /\ JobTypes'
  BY <1>1, <1>2, <1>5 DEF IInv, Types, WorkerType, SenderType, JobTypes
<1>7. Handed' /\ Read'
  BY <1>1, <1>3 DEF IInv, Types, SenderType, Handed, Read
<1>8. Unanswered' /\ LastIsTold'
  BY <1>1, <1>4 DEF IInv, Unanswered, LastIsTold, Has
<1> QED
  BY <1>4, <1>5, <1>6, <1>7, <1>8 DEF IInv, Types

LEMMA SwapOk == IInv /\ Swap => IInv'
<1> SUFFICES ASSUME IInv, Swap PROVE IInv'
  OBVIOUS
<1>1. /\ sub.job \in Job /\ fate[sub.job] = "sending" /\ sub' = [sub EXCEPT !.pc = "lock"]
      /\ UNCHANGED <<body, plate, guard, sent, of, waits, told, last, said, wk>>
  BY DEF IInv, Handed, Swap, decided
<1>2. queue \in Seq(Job) /\ \A i \in 1 .. Len(queue) : queue[i] # sub.job /\ queue[i] \in Job
  BY <1>1 DEF IInv, Types, JobTypes, Queued
<1>3. /\ fate' \in [Job -> Fate] /\ queue' \in Seq(Job) /\ Queued'
      /\ \A j \in Job : fate'[j] = fate[j] \/
           /\ fate[j] \in {"sending", "queued"} /\ fate'[j] \in {"queued", "dropped", "lost"}
  <2>1. CASE queue # << >> /\ queue' = Append(Tail(queue), sub.job) /\
             fate' = [fate EXCEPT ![Head(queue)] = "dropped", ![sub.job] = "queued"]
    <3> DEFINE h == Head(queue)
               r == Tail(queue)
    <3>1. /\ r \in Seq(Job) /\ h \in Job /\ h = queue[1] /\ 1 \in 1 .. Len(queue)
          /\ \A i \in 1 .. Len(r) : r[i] # h /\ \E k \in 1 .. Len(queue) : r[i] = queue[k]
          /\ \A i, k \in 1 .. Len(r) : r[i] = r[k] => i = k
      BY <2>1, <1>2, LeavesTheLine DEF IInv, Queued
    <3>2. queue' = Append(r, sub.job) /\ fate' = [fate EXCEPT ![h] = "dropped", ![sub.job] = "queued"]
      BY <2>1
    <3> HIDE DEF h, r
    <3>3. fate[h] = "queued" /\ \A i \in 1 .. Len(r) : r[i] # sub.job
      BY <3>1, <1>2 DEF IInv, Queued
    <3>4. /\ queue' \in Seq(Job)
          /\ \A i \in 1 .. Len(queue') :
               queue'[i] = sub.job \/ \E k \in 1 .. Len(r) : queue'[i] = r[k]
          /\ \A i, k \in 1 .. Len(queue') : queue'[i] = queue'[k] => i = k
      <4>1. /\ r \in Seq(Job) /\ sub.job \in Job /\ \A i \in 1 .. Len(r) : r[i] # sub.job
            /\ \A i, k \in 1 .. Len(r) : r[i] = r[k] => i = k
        BY <3>1, <3>3, <1>1
      <4>2. queue' = Append(r, sub.job)
        BY <3>2
      <4> QED
        BY <4>1, <4>2, JoinsTheLine
    <3>5. \A j \in Job : fate'[j] = IF j = sub.job THEN "queued"
                                    ELSE IF j = h THEN "dropped" ELSE fate[j]
      BY <3>1, <3>2, <1>1 DEF IInv, Types, JobTypes
    <3>6. fate' \in [Job -> Fate]
      BY <3>2 DEF IInv, Types, JobTypes, Fate
    <3>7. \A i \in 1 .. Len(r) : fate'[r[i]] = "queued"
      <4> SUFFICES ASSUME NEW i \in 1 .. Len(r) PROVE fate'[r[i]] = "queued"
        OBVIOUS
      <4>1. PICK k \in 1 .. Len(queue) : r[i] = queue[k]
        BY <3>1
      <4>2. r[i] \in Job /\ r[i] # h /\ fate[r[i]] = "queued"
        BY <4>1, <3>1, <1>2 DEF IInv, Queued
      <4> QED
        BY <4>2, <3>5
    <3>8. Queued'
      <4>1. \A i \in 1 .. Len(queue') : fate'[queue'[i]] = "queued"
        <5> SUFFICES ASSUME NEW i \in 1 .. Len(queue') PROVE fate'[queue'[i]] = "queued"
          OBVIOUS
        <5>1. CASE queue'[i] = sub.job
          BY <5>1, <3>5, <1>1
        <5>2. CASE \E k \in 1 .. Len(r) : queue'[i] = r[k]
          BY <5>2, <3>7
        <5> QED
          BY <5>1, <5>2, <3>4
      <4> QED
        BY <4>1, <3>4 DEF Queued
    <3>9. \A j \in Job : fate'[j] = fate[j] \/
           /\ fate[j] \in {"sending", "queued"} /\ fate'[j] \in {"queued", "dropped", "lost"}
      BY <3>3, <3>5, <1>1
    <3> QED
      BY <3>4, <3>6, <3>8, <3>9
  <2>2. CASE queue = << >> /\ fate' = [fate EXCEPT ![sub.job] = "lost"] /\ UNCHANGED queue
    <3>1. fate' \in [Job -> Fate]
      BY <2>2, <1>1 DEF IInv, Types, JobTypes, Fate
    <3>2. \A j \in Job : fate'[j] = IF j = sub.job THEN "lost" ELSE fate[j]
      BY <2>2, <1>1 DEF IInv, Types, JobTypes
    <3>3. queue' \in Seq(Job) /\ Queued'
      BY <2>2, <1>2, <3>2 DEF IInv, Queued
    <3> QED
      BY <3>1, <3>2, <3>3, <1>1
  <2> QED
    BY <2>1, <2>2 DEF Swap
<1>4. /\ GuardType' /\ BodyType' /\ Numbers' /\ AllTold' /\ Silence' /\ MarkHasJob'
      /\ \A j \in Job : fate'[j] \in {"none", "sending", "queued"} => told'[j] = << >>
  BY <1>1, <1>3, FatesMove
<1>5. WorkerType' /\ SenderType' /\ JobTypes'
  BY <1>1, <1>3 DEF IInv, Types, WorkerType, SenderType, JobTypes
<1>6. Handed' /\ Read'
  BY <1>1, <1>3 DEF IInv, Types, SenderType, Handed, Read
<1>7. Unanswered' /\ LastIsTold'
  BY <1>1, <1>4 DEF IInv, Unanswered, LastIsTold, Has
<1> QED
  BY <1>3, <1>4, <1>5, <1>6, <1>7 DEF IInv, Types

(***************************************************************************)
(* The worker thread.                                                      *)
(***************************************************************************)
LEMMA TakeJobOk == IInv /\ TakeJob => IInv'
<1> SUFFICES ASSUME IInv, TakeJob PROVE IInv'
  OBVIOUS
<1> DEFINE h == Head(queue)
           r == Tail(queue)
<1>1. /\ queue # << >> /\ queue' = r /\ fate' = [fate EXCEPT ![h] = "reading"]
      /\ wk.pc = "ready" /\ wk' = [pc |-> "taken", job |-> h, vin |-> NoVin]
      /\ UNCHANGED <<body, plate, guard, sub, sent, of, waits, told, last, said>>
  BY DEF TakeJob, Reading, gate, decided
<1>2. /\ r \in Seq(Job) /\ h \in Job /\ h = queue[1] /\ 1 \in 1 .. Len(queue)
      /\ \A i \in 1 .. Len(r) : r[i] # h /\ \E k \in 1 .. Len(queue) : r[i] = queue[k]
      /\ \A i, k \in 1 .. Len(r) : r[i] = r[k] => i = k
  BY <1>1, LeavesTheLine DEF IInv, Types, JobTypes, Queued
<1> HIDE DEF h, r
<1>3. fate[h] = "queued" /\ \A i \in 1 .. Len(r) : r[i] \in Job /\ fate[r[i]] = "queued"
  BY <1>2 DEF IInv, Queued
<1>4. /\ fate' \in [Job -> Fate]
      /\ \A j \in Job : fate'[j] = IF j = h THEN "reading" ELSE fate[j]
  BY <1>1, <1>2 DEF IInv, Types, JobTypes, Fate
<1>5. /\ GuardType' /\ BodyType' /\ Numbers' /\ AllTold' /\ Silence' /\ MarkHasJob'
      /\ \A j \in Job : fate'[j] \in {"none", "sending", "queued"} => told'[j] = << >>
  BY <1>1, <1>3, <1>4, FatesMove
<1>6. WorkerType'
  BY <1>1, <1>2 DEF WorkerType, WorkerPlace, BusyPlace
<1>7. SenderType' /\ JobTypes'
  BY <1>1, <1>2, <1>4 DEF IInv, Types, SenderType, JobTypes
<1>8. Queued' /\ Handed' /\ Read'
  BY <1>1, <1>2, <1>3, <1>4 DEF IInv, Queued, Handed, Read
<1>9. Unanswered'
  <2>1. told[h] = << >>
    BY <1>2, <1>3 DEF IInv, Unanswered
  <2> QED
    BY <1>1, <1>5, <2>1 DEF Unanswered
<1>10. LastIsTold'
  BY <1>1 DEF IInv, LastIsTold, Has
<1> QED
  BY <1>5, <1>6, <1>7, <1>8, <1>9, <1>10 DEF IInv, Types

(* A step that ends the job being read, telling a failure or nothing.      *)
LEMMA FailOk ==
  ASSUME IInv, wk.pc \in {"taken", "primary", "retry", "det", "decide"}, TellFail(wk.job),
         UNCHANGED <<queue, last, said>>
  PROVE  IInv'
<1> DEFINE j == wk.job
<1>1. /\ j \in Job /\ fate[j] = "reading" /\ told[j] = << >> /\ of[j] \in Body
      /\ told' = [told EXCEPT ![j] = Append(@, "fail")]
      /\ fate' = [fate EXCEPT ![j] = "told"] /\ waits' = [waits EXCEPT ![of[j]] = FALSE]
      /\ UNCHANGED <<body, plate, sub, sent, of, guard>>
  BY DEF IInv, Types, JobTypes, Read, Unanswered, Numbers, BusyPlace, TellFail
<1>2. wk' \in {NoJob("unlock"), NoJob("ready")}
  BY DEF TellFail, JobOver
<1>3. wk'.pc \in {"unlock", "ready"} /\ wk'.job = 0 /\ WorkerType'
  BY <1>2 DEF NoJob, WorkerType, WorkerPlace
<1>4. Append(told[j], "fail") = <<"fail">>
  BY <1>1
<1> HIDE DEF j
<1>5. /\ told' \in [Job -> Verdicts] /\ fate' \in [Job -> Fate] /\ waits' \in [Body -> BOOLEAN]
      /\ \A k \in Job : told'[k] = IF k = j THEN <<"fail">> ELSE told[k]
      /\ \A k \in Job : fate'[k] = IF k = j THEN "told" ELSE fate[k]
      /\ \A s \in Body : waits'[s] <=> waits[s] /\ s # of[j]
  <2>1. /\ told' \in [Job -> Verdicts]
        /\ \A k \in Job : told'[k] = IF k = j THEN <<"fail">> ELSE told[k]
    BY <1>1, <1>4 DEF IInv, Types, JobTypes, Verdicts
  <2>2. /\ fate' \in [Job -> Fate]
        /\ \A k \in Job : fate'[k] = IF k = j THEN "told" ELSE fate[k]
    BY <1>1 DEF IInv, Types, JobTypes, Fate
  <2>3. waits' \in [Body -> BOOLEAN] /\ \A s \in Body : waits'[s] <=> waits[s] /\ s # of[j]
    BY <1>1 DEF IInv, Types, JobTypes
  <2> QED
    BY <2>1, <2>2, <2>3
<1>6. GuardType' /\ BodyType' /\ SenderType' /\ JobTypes'
  BY <1>1, <1>5 DEF IInv, Types, GuardType, BodyType, SenderType, JobTypes
<1>7. Queued'
  <2>1. \A i \in 1 .. Len(queue) : queue[i] \in Job
    BY DEF IInv, Types, JobTypes
  <2> QED
    BY <2>1, <1>1, <1>5 DEF IInv, Queued
<1>8. Handed' /\ Read' /\ Numbers'
  BY <1>1, <1>3, <1>5 DEF IInv, Handed, Read, Numbers, BusyPlace, Types, JobTypes
<1>9. Unanswered' /\ AllTold'
  BY <1>1, <1>3, <1>5 DEF IInv, Unanswered, AllTold, BusyPlace
<1>10. \A k \in Job : Has(k) => k # j /\ Has(k)'
  BY <1>1, <1>5 DEF Has
<1>11. LastIsTold' /\ Silence'
  BY <1>1, <1>5, <1>10 DEF IInv, LastIsTold, Silence
<1>12. MarkHasJob'
  <2> SUFFICES ASSUME NEW s \in Body, waits'[s]
               PROVE \E k \in Job : of'[k] = s /\ fate'[k] # "told"
    BY DEF MarkHasJob
  <2>1. PICK k \in Job : of[k] = s /\ fate[k] # "told"
    BY <1>5 DEF IInv, MarkHasJob
  <2> QED
    BY <2>1, <1>1, <1>5
<1> QED
  BY <1>3, <1>6, <1>7, <1>8, <1>9, <1>11, <1>12 DEF IInv, Types

(* What Report does with a VIN: it drops a duplicate of what was told, or  *)
(* goes on to tell.                                                        *)
LEMMA ReportOk ==
  ASSUME IInv, wk.pc = "decide", NEW v, NEW pc \in {"slot", "deliver"},
         Report(wk.job, v, pc), UNCHANGED queue
  PROVE  IInv'
<1> DEFINE j == wk.job
<1>1. /\ j \in Job /\ fate[j] = "reading" /\ told[j] = << >> /\ of[j] \in Body /\ of[j] # 0
      /\ UNCHANGED <<body, plate, guard, sub, sent, of, waits, told>>
  BY DEF IInv, Types, JobTypes, Read, Unanswered, Numbers, BusyPlace, Report, gate
<1>4. /\ said' = [i \in Job |-> said'[i]]
      /\ \A i \in Job : said'[i] = IF i = j THEN v ELSE said[i]
  <2>1. said' = [said EXCEPT ![j] = v] /\ said = [i \in Job |-> said[i]]
    BY DEF IInv, Types, JobTypes, Report
  <2> QED
    BY <2>1, <1>1
<1>5. \A i \in Job : fate[i] = "duplicate" \/ Has(i) => i # j
  BY <1>1 DEF Has
<1>2. CASE Duplicate(j, v) /\ fate' = [fate EXCEPT ![j] = "duplicate"]
             /\ wk' = NoJob("ready") /\ UNCHANGED last
  <2>1. wk'.pc = "ready" /\ WorkerType'
    BY <1>2 DEF NoJob, WorkerType, WorkerPlace
  <2>2. PICK k \in Job : of[k] = of[j] /\ said[k] = v /\ Has(k)
    BY <1>1, <1>2 DEF IInv, LastIsTold, Duplicate
  <2>3. k # j
    BY <2>2, <1>5
  <2> HIDE DEF j
  <2>4. /\ fate' \in [Job -> Fate]
        /\ \A i \in Job : fate'[i] = IF i = j THEN "duplicate" ELSE fate[i]
    BY <1>2 DEF IInv, Types, JobTypes, Fate
  <2>5. GuardType' /\ BodyType' /\ SenderType' /\ JobTypes'
    BY <1>1, <1>4, <2>4 DEF IInv, Types, GuardType, BodyType, SenderType, JobTypes
  <2>6. Queued'
    <3>1. \A i \in 1 .. Len(queue) : queue[i] \in Job
      BY DEF IInv, Types, JobTypes
    <3> QED
      BY <3>1, <1>1, <2>4 DEF IInv, Queued
  <2>7. Handed' /\ Read'
    BY <1>1, <2>1, <2>4 DEF IInv, Handed, Read, BusyPlace
  <2>11. Numbers'
    BY <1>1, <2>4 DEF IInv, Numbers, Types, JobTypes
  <2>8. Unanswered' /\ AllTold' /\ MarkHasJob'
    BY <1>1, <2>1, <2>4 DEF IInv, Unanswered, AllTold, MarkHasJob, BusyPlace
  <2>9. LastIsTold'
    <3> SUFFICES ASSUME last.body # 0
                 PROVE  \E i \in Job : of[i] = last.body /\ said'[i] = last.vin /\ Has(i)
      BY <1>1, <1>2 DEF LastIsTold, Has
    <3>1. PICK i \in Job : of[i] = last.body /\ said[i] = last.vin /\ Has(i)
      BY DEF IInv, LastIsTold
    <3> QED
      BY <3>1, <1>4, <1>5
  <2>10. Silence'
    <3> SUFFICES ASSUME NEW i \in Job, fate'[i] = "duplicate"
                 PROVE  \E n \in Job \ {i} : of[n] = of[i] /\ said'[n] = said'[i] /\ Has(n)
      BY <1>1 DEF Silence, Has
    <3>1. CASE i = j
      BY <3>1, <1>4, <2>2, <2>3
    <3>2. CASE i # j
      <4>1. fate[i] = "duplicate"
        BY <2>4, <3>2
      <4>2. PICK n \in Job \ {i} : of[n] = of[i] /\ said[n] = said[i] /\ Has(n)
        BY <4>1 DEF IInv, Silence
      <4> QED
        BY <3>2, <4>2, <1>4, <1>5
    <3> QED
      BY <3>1, <3>2
  <2> QED
    BY <2>1, <2>5, <2>6, <2>7, <2>8, <2>9, <2>10, <2>11 DEF IInv, Types
<1>3. CASE last' = [vin |-> v, body |-> of[j]]
             /\ wk' = [wk EXCEPT !.pc = pc, !.vin = v] /\ UNCHANGED fate
  <2>1. /\ wk'.pc = pc /\ wk'.job = j /\ WorkerType'
        /\ last'.body = of[j] /\ last'.vin = v
    BY <1>3 DEF IInv, Types, WorkerType, WorkerPlace, BusyPlace
  <2> HIDE DEF j
  <2>2. GuardType' /\ BodyType' /\ SenderType' /\ JobTypes'
    BY <1>1, <1>3, <1>4 DEF IInv, Types, GuardType, BodyType, SenderType, JobTypes
  <2>3. Queued' /\ Handed' /\ Numbers' /\ AllTold' /\ MarkHasJob'
    BY <1>1, <1>3 DEF IInv, Queued, Handed, Numbers, AllTold, MarkHasJob
  <2>6. Silence'
    <3> SUFFICES ASSUME NEW i \in Job, fate[i] = "duplicate"
                 PROVE  \E n \in Job \ {i} : of[n] = of[i] /\ said'[n] = said'[i] /\ Has(n)
      BY <1>1, <1>3 DEF Silence, Has
    <3>1. PICK n \in Job \ {i} : of[n] = of[i] /\ said[n] = said[i] /\ Has(n)
      BY DEF IInv, Silence
    <3> QED
      BY <3>1, <1>4, <1>5
  <2>4. Read' /\ Unanswered'
    BY <1>1, <1>3, <2>1 DEF IInv, Read, Unanswered, BusyPlace
  <2>5. LastIsTold'
    BY <1>1, <1>4, <2>1 DEF LastIsTold
  <2> QED
    BY <2>1, <2>2, <2>3, <2>4, <2>5, <2>6 DEF IInv, Types
<1> QED
  BY <1>2, <1>3 DEF Report, JobOver

LEMMA DecideOk == IInv /\ Decide => IInv'
<1> SUFFICES ASSUME IInv, Decide PROVE IInv'
  OBVIOUS
<1>1. wk.pc = "decide" /\ UNCHANGED queue
  BY DEF Decide, Reading, line
<1>2. PICK p \in Predictions, v \in Accepted :
        \/ Report(wk.job, p.vin, "slot")
        \/ Report(wk.job, v, "deliver")
        \/ TellFail(wk.job) /\ UNCHANGED decided
  BY DEF Decide, SlotTakes
<1>3. CASE Report(wk.job, p.vin, "slot")
  BY <1>1, <1>3, ReportOk
<1>4. CASE Report(wk.job, v, "deliver")
  BY <1>1, <1>4, ReportOk
<1>5. CASE TellFail(wk.job) /\ UNCHANGED decided
  BY <1>1, <1>5, FailOk DEF decided
<1> QED
  BY <1>2, <1>3, <1>4, <1>5

LEMMA PoolForJobOk == IInv /\ PoolForJob => IInv'
<1> SUFFICES ASSUME IInv, PoolForJob PROVE IInv'
  OBVIOUS
<1>1. wk.pc = "taken" /\ UNCHANGED <<queue, last, said>>
  BY DEF PoolForJob, Reading, line, decided
<1>2. CASE GoOn("primary") /\ UNCHANGED <<gate, ev, fate, told>>
  <2>1. wk' = [wk EXCEPT !.pc = "primary"] /\ UNCHANGED <<body, plate, sub, sent, of, waits, guard, fate, told>>
    BY <1>2 DEF GoOn, gate
  <2>2. wk'.pc = "primary" /\ wk'.job = wk.job /\ WorkerType'
    BY <2>1 DEF IInv, Types, WorkerType, WorkerPlace, BusyPlace
  <2>3. SenderType' /\ GuardType' /\ BodyType'
    BY <2>1 DEF IInv, Types, SenderType, GuardType, BodyType
  <2> QED
    BY <1>1, <2>1, <2>2, <2>3, NothingMoves DEF BusyPlace
<1>3. CASE TellFail(wk.job)
  BY <1>1, <1>3, FailOk
<1> QED
  BY <1>2, <1>3 DEF PoolForJob

LEMMA RaisesOk == IInv /\ Raises => IInv'
<1> SUFFICES ASSUME IInv, Raises PROVE IInv'
  OBVIOUS
<1>1. wk.pc \in {"primary", "retry", "det"} /\ UNCHANGED <<queue, last, said>> /\ TellFail(wk.job)
  BY DEF Raises, line, decided
<1> QED
  BY <1>1, FailOk

LEMMA BatchOk == IInv /\ (PrimaryBatch \/ RetryBatch \/ DetBatch) => IInv'
<1> SUFFICES ASSUME IInv, PrimaryBatch \/ RetryBatch \/ DetBatch PROVE IInv'
  OBVIOUS
<1>1. UNCHANGED <<queue, sub, sent, of, waits, body, plate, guard, fate, told, last, said>>
  BY DEF PrimaryBatch, RetryBatch, DetBatch, gate, line, decided
<1>2. wk.pc \in {"primary", "retry", "det"}
  BY DEF PrimaryBatch, RetryBatch, DetBatch, Reading
<1>3. \E pc \in {"decide", "retry", "det"} : wk' = [wk EXCEPT !.pc = pc]
  <2>1. CASE PrimaryBatch
    BY <2>1 DEF PrimaryBatch, GoOn
  <2>2. CASE RetryBatch
    BY <2>2 DEF RetryBatch, GoOn
  <2>3. CASE DetBatch
    BY <2>3 DEF DetBatch, GoOn
  <2> QED
    BY <2>1, <2>2, <2>3
<1>4. wk'.pc \in {"decide", "retry", "det"} /\ wk'.job = wk.job /\ WorkerType'
  BY <1>3 DEF IInv, Types, WorkerType, WorkerPlace, BusyPlace
<1>5. SenderType' /\ GuardType' /\ BodyType'
  BY <1>1 DEF IInv, Types, SenderType, GuardType, BodyType
<1> QED
  BY <1>1, <1>2, <1>4, <1>5, NothingMoves DEF BusyPlace

LEMMA DeliverOk == IInv /\ Deliver => IInv'
<1> SUFFICES ASSUME IInv, Deliver PROVE IInv'
  OBVIOUS
<1> DEFINE j == wk.job
           was == told[j]
<1>1. /\ wk.pc \in {"deliver", "again", "slot"} /\ j \in Job /\ fate[j] = "reading"
      /\ of[j] \in Body /\ was = IF wk.pc = "again" THEN <<"result">> ELSE << >>
      /\ told' = [told EXCEPT ![j] = Append(was, "result")]
      /\ UNCHANGED <<body, plate, guard, sub, sent, of, last, said, queue>>
  <2>1. wk.pc \in {"deliver", "again", "slot"} /\ j \in Job /\ fate[j] = "reading"
    BY DEF IInv, Read, BusyPlace, Deliver, decided
  <2>2. of[j] \in Body
    BY <2>1 DEF IInv, Numbers
  <2>3. was = IF wk.pc = "again" THEN <<"result">> ELSE << >>
    BY <2>1 DEF IInv, Unanswered, BusyPlace
  <2>4. /\ told' = [told EXCEPT ![j] = Append(was, "result")]
        /\ UNCHANGED <<body, plate, guard, sub, sent, of, last, said, queue>>
    BY DEF Deliver, line, decided
  <2> QED
    BY <2>1, <2>2, <2>3, <2>4
<1>2. PICK effect \in BOOLEAN, how \in {"returns", "TypeError", "raises"} :
        /\ how = "returns" => effect
        /\ waits' = IF effect THEN [waits EXCEPT ![of[j]] = FALSE] ELSE waits
        /\ IF how = "TypeError" /\ wk.pc = "deliver"
             THEN wk' = [wk EXCEPT !.pc = "again"] /\ UNCHANGED fate
             ELSE wk' = NoJob("ready")
                  /\ fate' = [fate EXCEPT ![j] = IF how = "returns" THEN "told" ELSE "raised"]
  BY DEF Deliver, GoOn, JobOver
<1>3. Append(was, "result") = IF wk.pc = "again" THEN <<"result", "result">> ELSE <<"result">>
  <2>1. Append(<< >>, "result") = <<"result">>
    OBVIOUS
  <2>4. Append(<<"result">>, "result") = <<"result", "result">>
    <3> DEFINE s == Append(<<"result">>, "result")
               t == <<"result", "result">>
    <3>5. <<"result">> \in Seq({"result"}) /\ Len(<<"result">>) = 1
      OBVIOUS
    <3>6. s \in Seq({"result"}) /\ Len(s) = 2
      BY <3>5, AppendProperties
    <3>7. t \in Seq({"result"}) /\ Len(t) = 2
      OBVIOUS
    <3>1. s \in Seq({"result"}) /\ t \in Seq({"result"}) /\ Len(s) = 2 /\ Len(t) = 2
      BY <3>6, <3>7
    <3>2. s[1] = "result" /\ s[2] = "result" /\ t[1] = "result" /\ t[2] = "result"
      OBVIOUS
    <3> HIDE DEF s, t
    <3>3. \A i \in 1 .. Len(s) : s[i] = t[i]
      BY <3>1, <3>2
    <3>4. s = t
      BY <3>1, <3>3, SeqEqual
    <3> QED
      BY <3>4 DEF s, t
  <2>2. CASE wk.pc = "again"
    BY <2>4, <2>2, <1>1
  <2>3. CASE wk.pc # "again"
    BY <2>1, <2>3, <1>1
  <2> QED
    BY <2>2, <2>3
<1> DEFINE new == Append(was, "result")
<1> HIDE DEF was, new
<1>4. new \in {<<"result">>, <<"result", "result">>} /\ (wk.pc # "again" => new = <<"result">>)
      /\ told' = [told EXCEPT ![j] = new]
  BY <1>1, <1>3 DEF new
<1>5. /\ told' \in [Job -> Verdicts]
      /\ \A k \in Job : told'[k] = IF k = j THEN new ELSE told[k]
  <2>1. told \in [Job -> Verdicts] /\ new \in Verdicts
    BY <1>4 DEF IInv, Types, JobTypes, Verdicts
  <2> HIDE DEF j
  <2> QED
    BY <2>1, <1>1, <1>4
<1>6. waits' \in [Body -> BOOLEAN] /\ \A s \in Body : waits'[s] => waits[s] /\ (effect => s # of[j])
  <2>1. CASE effect
    BY <2>1, <1>1, <1>2 DEF IInv, Types, JobTypes
  <2>2. CASE ~effect
    BY <2>2, <1>2 DEF IInv, Types, JobTypes
  <2> QED
    BY <2>1, <2>2
<1>7. /\ WorkerType' /\ fate' \in [Job -> Fate]
      /\ \/ wk'.pc = "again" /\ wk'.job = j /\ wk.pc = "deliver" /\ UNCHANGED fate
         \/ /\ wk'.pc = "ready"
            /\ \A k \in Job : k # j => fate'[k] = fate[k]
            /\ fate'[j] \in {"told", "raised"} /\ (fate'[j] = "told" => effect)
  <2>1. CASE how = "TypeError" /\ wk.pc = "deliver"
    BY <2>1, <1>2 DEF IInv, Types, WorkerType, JobTypes, WorkerPlace, BusyPlace
  <2>2. CASE ~(how = "TypeError" /\ wk.pc = "deliver")
    <3>1. wk'.pc = "ready" /\ WorkerType'
      BY <2>2, <1>2 DEF WorkerType, NoJob, WorkerPlace
    <3>2. fate' = [fate EXCEPT ![j] = IF how = "returns" THEN "told" ELSE "raised"]
      BY <2>2, <1>2
    <3>3. /\ fate' \in [Job -> Fate] /\ \A k \in Job : k # j => fate'[k] = fate[k]
          /\ fate'[j] = IF how = "returns" THEN "told" ELSE "raised"
      BY <3>2, <1>1 DEF IInv, Types, JobTypes, Fate
    <3> QED
      BY <3>1, <3>3, <1>2
  <2> QED
    BY <2>1, <2>2
<1> HIDE DEF j
<1>8. GuardType' /\ BodyType' /\ SenderType' /\ JobTypes'
  BY <1>1, <1>5, <1>6, <1>7 DEF IInv, Types, GuardType, BodyType, SenderType, JobTypes
<1>9. Queued'
  <2>1. \A i \in 1 .. Len(queue) : queue[i] \in Job /\ queue[i] # j
    BY <1>1 DEF IInv, Types, JobTypes, Queued
  <2> QED
    BY <2>1, <1>1, <1>7 DEF IInv, Queued
<1>10. Handed' /\ Numbers'
  BY <1>1, <1>7 DEF IInv, Handed, Numbers, Types, JobTypes
<1>11. Read'
  BY <1>1, <1>7 DEF IInv, Read, BusyPlace
<1>12. Unanswered'
  BY <1>1, <1>4, <1>5, <1>7 DEF IInv, Unanswered, BusyPlace
<1>13. /\ told'[j] \in {<<"result">>, <<"result", "result">>}
       /\ \A k \in Job : Has(k) => told'[k] \in {<<"result">>, <<"result", "result">>}
  <2>1. told'[j] = new /\ \A k \in Job : k # j => told'[k] = told[k]
    BY <1>1, <1>5
  <2> QED
    BY <2>1, <1>4 DEF Has
<1>14. LastIsTold'
  <2> SUFFICES ASSUME last.body # 0
               PROVE \E k \in Job : /\ of[k] = last.body /\ said[k] = last.vin
                                     /\ told'[k] \in {<<"result">>, <<"result", "result">>}
    BY <1>1 DEF LastIsTold, Has
  <2>1. PICK k \in Job : of[k] = last.body /\ said[k] = last.vin /\ (Has(k) \/ wk.job = k)
    BY DEF IInv, LastIsTold
  <2>2. CASE Has(k)
    BY <2>1, <2>2, <1>13
  <2>3. CASE wk.job = k
    BY <2>1, <2>3, <1>13 DEF j
  <2> QED
    BY <2>1, <2>2, <2>3
<1>15. Silence'
  <2> SUFFICES ASSUME NEW i \in Job, fate'[i] = "duplicate"
               PROVE \E k \in Job \ {i} : /\ of[k] = of[i] /\ said[k] = said[i]
                                           /\ told'[k] \in {<<"result">>, <<"result", "result">>}
    BY <1>1 DEF Silence, Has
  <2>1. fate[i] = "duplicate"
    BY <1>1, <1>7
  <2>2. PICK k \in Job \ {i} : of[k] = of[i] /\ said[k] = said[i] /\ Has(k)
    BY <2>1 DEF IInv, Silence
  <2> QED
    BY <2>2, <1>13
<1>16. AllTold'
  <2>1. Len(<< >>) = 0 /\ Len(<<"result">>) = 1 /\ Len(<<"result", "result">>) = 2
    OBVIOUS
  <2>2. new # << >>
    BY <2>1, <1>4
  <2> QED
    BY <2>2, <1>1, <1>5, <1>7 DEF IInv, AllTold
<1>17. MarkHasJob'
  <2> SUFFICES ASSUME NEW s \in Body, waits'[s]
               PROVE \E k \in Job : of'[k] = s /\ fate'[k] # "told"
    BY DEF MarkHasJob
  <2>1. PICK k \in Job : of[k] = s /\ fate[k] # "told"
    BY <1>6 DEF IInv, MarkHasJob
  <2>2. fate'[k] # "told"
    BY <2>1, <1>1, <1>6, <1>7
  <2> QED
    BY <2>1, <2>2, <1>1
<1> QED
  BY <1>7, <1>8, <1>9, <1>10, <1>11, <1>12, <1>14, <1>15, <1>16, <1>17 DEF IInv, Types

(***************************************************************************)
(* The steps that leave every job where it is, and the shutdown.           *)
(***************************************************************************)
LEMMA QuietOk ==
  IInv /\ (\/ Preload \/ StartBody \/ Pause \/ LockPlate \/ PutFull \/ LoopStarts \/ LoopEnds
           \/ Unlock \/ ShutdownPool \/ UNCHANGED vars) => IInv'
<1> DEFINE Q == UNCHANGED <<queue, sent, of, waits, fate, told, last, said, guard>>
<1> SUFFICES ASSUME IInv, \/ Preload \/ StartBody \/ Pause \/ LockPlate \/ PutFull
                          \/ LoopStarts \/ LoopEnds \/ Unlock \/ ShutdownPool \/ UNCHANGED vars
             PROVE IInv'
  OBVIOUS
<1>1. Q
  BY DEF Preload, StartBody, Pause, LockPlate, PutFull, LoopStarts, LoopEnds, Unlock,
         ShutdownPool, vars, gate, line, decided
<1>2. BodyType'
  <2>1. CASE StartBody
    BY <2>1 DEF StartBody, IInv, Types, BodyType
  <2>2. CASE UNCHANGED <<body, plate>>
    BY <2>2 DEF IInv, Types, BodyType
  <2> QED
    BY <2>1, <2>2 DEF Preload, Pause, LockPlate, PutFull, LoopStarts, LoopEnds, Unlock,
         ShutdownPool, vars, gate
<1>3. SenderType' /\ (sub'.pc \in {"put", "full"} => sub.pc \in {"put", "full"} /\ sub'.job = sub.job)
  <2>1. CASE LockPlate
    <3>1. sub' = [pc |-> "idle", job |-> 0] /\ 0 \in 0 .. Jobs
      BY <2>1 DEF LockPlate
    <3> QED
      BY <3>1 DEF SenderType
  <2>2. CASE PutFull
    BY <2>2 DEF PutFull, IInv, Types, SenderType
  <2>3. CASE UNCHANGED sub
    BY <2>3 DEF IInv, Types, SenderType
  <2> QED
    BY <2>1, <2>2, <2>3 DEF Preload, Pause, StartBody, LoopStarts, LoopEnds, Unlock,
         ShutdownPool, vars, gate
<1>4. UNCHANGED wk \/ \E pc \in {"off", "start", "ready"} :
        wk' = [wk EXCEPT !.pc = pc] /\ wk.pc \in {"off", "start", "ready", "unlock"}
  BY DEF Preload, StartBody, Pause, LockPlate, PutFull, LoopStarts, LoopEnds, Unlock,
         ShutdownPool, vars, Reading, GoOn
<1>5. /\ WorkerType' /\ wk'.job = wk.job
      /\ UNCHANGED wk \/ {wk.pc, wk'.pc} \cap BusyPlace = {}
  BY <1>4 DEF IInv, Types, WorkerType, WorkerPlace, BusyPlace
<1>6. GuardType'
  BY <1>1 DEF IInv, Types, GuardType
<1> QED
  BY <1>1, <1>2, <1>3, <1>5, <1>6, NothingMoves DEF BusyPlace

LEMMA GuardOk == IInv /\ (PlateLeaves \/ BudgetIsShort) => IInv'
<1> SUFFICES ASSUME IInv, PlateLeaves \/ BudgetIsShort PROVE IInv'
  OBVIOUS
<1>1. /\ UNCHANGED <<queue, sub, sent, of, waits, fate, told, last, said, wk, body>>
      /\ guard' = [guard EXCEPT ![body] = Over] /\ plate' \in {FALSE, plate}
  BY DEF PlateLeaves, BudgetIsShort, line, decided
<1>2. GuardType'
  BY <1>1 DEF IInv, Types, GuardType
<1>3. WorkerType' /\ SenderType'
  BY <1>1 DEF IInv, Types, WorkerType, SenderType
<1>4. BodyType'
  <2>1. CASE plate' = FALSE
    BY <2>1, <1>1 DEF IInv, Types, BodyType
  <2>2. CASE plate' = plate
    BY <2>2, <1>1 DEF IInv, Types, BodyType
  <2> QED
    BY <2>1, <2>2, <1>1
<1> QED
  BY <1>1, <1>2, <1>3, <1>4, NothingMoves

LEMMA ShutdownOk == IInv /\ ShutdownBegin => IInv'
<1> SUFFICES ASSUME IInv, ShutdownBegin PROVE IInv'
  OBVIOUS
<1>1. /\ UNCHANGED <<body, plate, sub, guard, sent, of, waits, told, last, said, wk>>
      /\ fate' = [j \in Job |-> IF fate[j] = "queued" THEN "drained" ELSE fate[j]]
      /\ queue' = << >>
  BY DEF ShutdownBegin, gate, decided
<1>2. /\ fate' \in [Job -> Fate]
      /\ \A j \in Job : fate'[j] = IF fate[j] = "queued" THEN "drained" ELSE fate[j]
  BY <1>1 DEF IInv, Types, JobTypes, Fate
<1>3. /\ GuardType' /\ BodyType' /\ Numbers' /\ AllTold' /\ Silence' /\ MarkHasJob'
      /\ \A j \in Job : fate'[j] \in {"none", "sending", "queued"} => told'[j] = << >>
  BY <1>1, <1>2, FatesMove
<1>4. queue' \in Seq(Job) /\ Len(queue') = 0
  BY <1>1
<1>5. WorkerType' /\ SenderType' /\ JobTypes'
  BY <1>1, <1>2, <1>4 DEF IInv, Types, WorkerType, SenderType, JobTypes
<1>6. Queued' /\ Handed' /\ Read'
  BY <1>1, <1>2, <1>4 DEF IInv, Queued, Handed, Read
<1>7. Unanswered' /\ LastIsTold'
  BY <1>1, <1>3 DEF IInv, Unanswered, LastIsTold, Has
<1> QED
  BY <1>3, <1>5, <1>6, <1>7 DEF IInv, Types

(* The conjunction is inductive.                                           *)
LEMMA Invariance == Spec => []IInv
<1>1. IInv /\ [Next]_vars => IInv'
  BY AdmitOk, PutRefusedOk, PutQueuedOk, SwapOk, TakeJobOk, DecideOk, PoolForJobOk, RaisesOk,
     BatchOk, DeliverOk, QuietOk, GuardOk, ShutdownOk
     DEF Next, Submitter, Worker, Environment
<1> QED
  BY <1>1, InitOk, PTL DEF Spec

(* A job has one kind of verdict, and a second callback only for a result. *)
THEOREM VerdictIsOne == Spec => []OneVerdictPerJob
<1>1. IInv => OneVerdictPerJob
  BY DEF IInv, Types, JobTypes, Verdicts, AllTold, OneVerdictPerJob
<1> QED
  BY <1>1, Invariance, PTL

(* A job is dropped in silence only if another one told its session the    *)
(* VIN that it was decided with.                                           *)
THEOREM SilenceIsRepetition == Spec => []SilentOnlyIfKnown
<1>1. IInv => SilentOnlyIfKnown
  <2> SUFFICES ASSUME IInv, NEW j \in Job, fate[j] = "duplicate"
               PROVE \E k \in Job : /\ k # j /\ of[k] = of[j] /\ said[k] = said[j]
                                    /\ "result" \in {told[k][i] : i \in DOMAIN told[k]}
    BY DEF SilentOnlyIfKnown
  <2>1. PICK k \in Job \ {j} : of[k] = of[j] /\ said[k] = said[j] /\ Has(k)
    BY DEF IInv, Silence
  <2>2. 1 \in DOMAIN told[k] /\ told[k][1] = "result"
    BY <2>1 DEF Has
  <2> QED
    BY <2>1, <2>2
<1> QED
  BY <1>1, Invariance, PTL

(* The grace waits only for a body that has a job without a verdict.       *)
THEOREM MarkIsOfAJob == Spec => []MarkHasJob
<1>1. IInv => MarkHasJob
  BY DEF IInv
<1> QED
  BY <1>1, Invariance, PTL

(* No job of a body is admitted after the guard's last word.               *)
THEOREM LastWord == Spec => RefusalIsFinal
<1>1. IInv /\ [Next]_vars =>
        [\A s \in Body : guard[s].over =>
           /\ guard'[s].over
           /\ \A j \in Job : of'[j] = s => of[j] = s]_<<guard, of>>
  <2> SUFFICES ASSUME IInv, [Next]_vars, ~UNCHANGED <<guard, of>>, NEW s \in Body, guard[s].over
               PROVE  guard'[s].over /\ \A j \in Job : of'[j] = s => of[j] = s
    OBVIOUS
  <2>1. Admit \/ PlateLeaves \/ BudgetIsShort
    BY DEF Next, Submitter, Worker, Environment, vars, gate, Preload, StartBody, Pause,
           ShutdownBegin, ShutdownPool, PutRefused, PutQueued, PutFull, Swap, LockPlate,
           LoopStarts, LoopEnds, TakeJob, PoolForJob, Raises, PrimaryBatch, RetryBatch,
           DetBatch, Decide, Deliver, Unlock, TellFail, Report
  <2>2. CASE Admit
    <3>1. body # s /\ of' = [of EXCEPT ![sent + 1] = body]
      BY <2>2 DEF Admit, Allows
    <3>2. PICK sig \in 1 .. 2, quality \in 1 .. 2 :
            guard' = [guard EXCEPT ![body].sig = sig, ![body].quality = quality]
      BY <2>2 DEF Admit
    <3>3. guard'[s].over
      BY <3>1, <3>2 DEF IInv, Types, GuardType
    <3>4. \A j \in Job : of'[j] = s => of[j] = s
      BY <3>1 DEF IInv, Types, JobTypes
    <3> QED
      BY <3>3, <3>4
  <2>3. CASE PlateLeaves \/ BudgetIsShort
    <3>1. guard' = [guard EXCEPT ![body] = Over] /\ UNCHANGED of
      BY <2>3 DEF PlateLeaves, BudgetIsShort
    <3>2. Over.over
      BY DEF Over, Unseen
    <3> QED
      BY <3>1, <3>2 DEF IInv, Types, GuardType
  <2> QED
    BY <2>1, <2>2, <2>3
<1> QED
  BY <1>1, Invariance, PTL DEF Spec, RefusalIsFinal

(***************************************************************************)
(* The in-flight mark, when no body overlaps the last one's job: there is  *)
(* never more than one job on its way, it is of the body in view, and the  *)
(* plate is locked until it has been told and the lock is taken off again. *)
(***************************************************************************)
Shut == plate /\ sub.pc = "idle" => locked
InOrder ==
  ~set.overlap =>
    /\ \A j \in Job : OnItsWay(j) =>
         /\ of[j] = body /\ Shut /\ wk.pc # "unlock"
         /\ told[j] = << >> => inflight = of[j] /\ waits[of[j]]
         /\ \A k \in Job : OnItsWay(k) => k = j
    /\ wk.pc = "unlock" => Shut

(* A step that puts no job on its way, unlocks nothing and keeps the mark. *)
LEMMA OrderKept ==
  ASSUME InOrder, UNCHANGED <<set, of, body, inflight, waits>>,
         \A j \in Job : OnItsWay(j)' => OnItsWay(j) /\ (told'[j] = << >> => told[j] = << >>),
         Shut => Shut', wk'.pc = "unlock" => wk.pc = "unlock"
  PROVE  InOrder'
<1> SUFFICES ASSUME ~set.overlap
             PROVE  /\ \A j \in Job : OnItsWay(j)' =>
                         /\ of[j] = body /\ Shut' /\ wk'.pc # "unlock"
                         /\ told'[j] = << >> => inflight = of[j] /\ waits[of[j]]
                         /\ \A k \in Job : OnItsWay(k)' => k = j
                    /\ wk'.pc = "unlock" => Shut'
  BY DEF InOrder
<1> QED
  BY DEF InOrder

(* Without any job on its way little is left to show.                      *)
LEMMA NoneOnItsWay ==
  ASSUME \A j \in Job : ~OnItsWay(j)', wk'.pc = "unlock" => Shut'
  PROVE  InOrder'
BY DEF InOrder

LEMMA OrderInit == Init => InOrder
BY DEF Init, InOrder, OnItsWay, NoJob

LEMMA AdmitInOrder == IInv /\ InOrder /\ Admit => InOrder'
<1> SUFFICES ASSUME IInv, InOrder, Admit, ~set.overlap PROVE InOrder'
  BY DEF InOrder, Admit
<1> DEFINE n == sent + 1
<1>1. /\ n \in Job /\ body \in Body /\ plate /\ ~locked /\ sub.pc = "idle" /\ told' = told
      /\ UNCHANGED <<set, body, wk, plate, locked>>
  BY DEF IInv, Types, JobTypes, BodyType, Admit
<1>2. /\ of' = [of EXCEPT ![n] = body] /\ fate' = [fate EXCEPT ![n] = "sending"]
      /\ waits' = [waits EXCEPT ![body] = TRUE] /\ inflight' = body /\ sub'.pc = "put"
  BY DEF Admit
<1> HIDE DEF n
<1>3. wk.pc # "unlock" /\ \A j \in Job : ~OnItsWay(j)
  BY <1>1 DEF InOrder, Shut
<1>4. /\ of'[n] = body /\ waits'[body]
      /\ \A j \in Job : j # n => fate'[j] = fate[j]
  BY <1>1, <1>2 DEF IInv, Types, JobTypes
<1>5. \A j \in Job : OnItsWay(j)' => j = n
  BY <1>3, <1>4 DEF OnItsWay
<1>6. Shut'
  BY <1>2 DEF Shut
<1> QED
  BY <1>1, <1>2, <1>3, <1>4, <1>5, <1>6 DEF InOrder

LEMMA SenderInOrder ==
  IInv /\ InOrder /\ (PutRefused \/ PutQueued \/ PutFull \/ Swap \/ LockPlate) => InOrder'
<1> SUFFICES ASSUME IInv, InOrder, PutRefused \/ PutQueued \/ PutFull \/ Swap \/ LockPlate
             PROVE  InOrder'
  OBVIOUS
<1>1. UNCHANGED <<set, of, body, inflight, waits, wk, told, plate>>
  BY DEF PutRefused, PutQueued, PutFull, Swap, LockPlate, line
<1>2. \A j \in Job : OnItsWay(j)' => OnItsWay(j)
  <2>1. CASE PutFull \/ LockPlate
    BY <2>1 DEF PutFull, LockPlate, OnItsWay
  <2>2. CASE PutRefused \/ PutQueued \/ Swap
    <3>1. sub.job \in Job /\ fate[sub.job] = "sending"
      BY <2>2 DEF IInv, Handed, PutRefused, PutQueued, Swap
    <3>2. \A j \in Job : \/ fate'[j] = fate[j] \/ j = sub.job
                         \/ fate'[j] \in {"refused", "dropped", "lost"}
      BY <2>2 DEF IInv, Types, JobTypes, PutRefused, PutQueued, Swap
    <3> QED
      BY <3>1, <3>2 DEF OnItsWay
  <2> QED
    BY <2>1, <2>2
<1>3. Shut'
  <2>1. CASE LockPlate
    BY <2>1 DEF LockPlate, Shut
  <2>2. CASE PutRefused \/ PutQueued \/ PutFull \/ Swap
    <3>1. sub'.pc \in {"lock", "full"}
      BY <2>2 DEF IInv, Types, SenderType, PutRefused, PutQueued, PutFull, Swap
    <3> QED
      BY <3>1 DEF Shut
  <2> QED
    BY <2>1, <2>2
<1> QED
  BY <1>1, <1>2, <1>3, OrderKept

LEMMA FailInOrder ==
  ASSUME IInv, InOrder, wk.pc \in {"taken", "primary", "retry", "det", "decide"},
         TellFail(wk.job), UNCHANGED set
  PROVE  InOrder'
<1> SUFFICES ASSUME ~set.overlap PROVE InOrder'
  BY DEF InOrder
<1> DEFINE j == wk.job
<1>1. /\ j \in Job /\ fate[j] = "reading" /\ fate' = [fate EXCEPT ![j] = "told"]
      /\ UNCHANGED <<plate, sub, locked>>
  BY DEF IInv, Read, BusyPlace, TellFail
<1> HIDE DEF j
<1>2. Shut /\ \A k \in Job : OnItsWay(k) => k = j
  BY <1>1 DEF InOrder, OnItsWay
<1>3. fate'[j] = "told" /\ \A k \in Job : k # j => fate'[k] = fate[k]
  BY <1>1 DEF IInv, Types, JobTypes
<1>4. \A k \in Job : ~OnItsWay(k)'
  BY <1>2, <1>3 DEF OnItsWay
<1>5. Shut'
  BY <1>1, <1>2 DEF Shut
<1> QED
  BY <1>4, <1>5, NoneOnItsWay

LEMMA DeliverInOrder == IInv /\ InOrder /\ Deliver => InOrder'
<1> SUFFICES ASSUME IInv, InOrder, Deliver, ~set.overlap PROVE InOrder'
  BY DEF InOrder, Deliver
<1> DEFINE j == wk.job
<1>1. /\ j \in Job /\ fate[j] = "reading" /\ told' = [told EXCEPT ![j] = Append(@, "result")]
      /\ wk.pc \in {"deliver", "again", "slot"}
      /\ UNCHANGED <<set, of, body, plate, sub, locked>>
  BY DEF IInv, Read, BusyPlace, Deliver
<1>2. wk'.pc # "unlock" /\ \A k \in Job : k # j => fate'[k] = fate[k]
  BY DEF Deliver, GoOn, JobOver, NoJob, IInv, Types, JobTypes, WorkerType
<1>3. told'[j] # << >>
  <2>1. told[j] \in {<< >>, <<"result">>}
    BY <1>1 DEF IInv, Unanswered, BusyPlace
  <2>2. \A was \in {<< >>, <<"result">>} : Append(was, "result") # << >>
    OBVIOUS
  <2> HIDE DEF j
  <2>3. told'[j] = Append(told[j], "result")
    BY <1>1 DEF IInv, Types, JobTypes
  <2> QED
    BY <2>1, <2>2, <2>3
<1> HIDE DEF j
<1>4. /\ Shut /\ of[j] = body /\ \A k \in Job : OnItsWay(k) => k = j
  BY <1>1 DEF InOrder, OnItsWay
<1>5. \A k \in Job : OnItsWay(k)' => k = j
  BY <1>2, <1>4 DEF OnItsWay
<1>6. Shut'
  BY <1>1, <1>4 DEF Shut
<1> QED
  BY <1>1, <1>2, <1>3, <1>4, <1>5, <1>6 DEF InOrder

LEMMA ReaderInOrder ==
  IInv /\ InOrder /\ (\/ LoopStarts \/ LoopEnds \/ TakeJob \/ PoolForJob \/ PrimaryBatch
                      \/ RetryBatch \/ DetBatch \/ Raises \/ Decide \/ Unlock) => InOrder'
<1> SUFFICES ASSUME IInv, InOrder,
                    \/ LoopStarts \/ LoopEnds \/ TakeJob \/ PoolForJob \/ PrimaryBatch
                    \/ RetryBatch \/ DetBatch \/ Raises \/ Decide \/ Unlock
             PROVE  InOrder'
  OBVIOUS
<1>1. CASE TellFail(wk.job) /\ UNCHANGED set
           /\ wk.pc \in {"taken", "primary", "retry", "det", "decide"}
  BY <1>1, FailInOrder
<1>2. CASE LoopStarts \/ LoopEnds \/ PrimaryBatch \/ RetryBatch \/ DetBatch
  <2>1. UNCHANGED gate /\ UNCHANGED <<set, told, fate>>
    BY <1>2 DEF LoopStarts, LoopEnds, PrimaryBatch, RetryBatch, DetBatch
  <2>2. \E pc \in {"ready", "off", "decide", "retry", "det"} : GoOn(pc)
    BY <1>2 DEF LoopStarts, LoopEnds, PrimaryBatch, RetryBatch, DetBatch
  <2>3. wk'.pc # "unlock"
    BY <2>2 DEF IInv, Types, WorkerType, GoOn
  <2>4. UNCHANGED <<of, body, inflight, waits, plate, sub, locked>>
    BY <2>1 DEF gate
  <2> QED
    BY <2>1, <2>3, <2>4, OrderKept DEF OnItsWay, Shut
<1>3. CASE TakeJob
  <2>1. /\ UNCHANGED <<set, told, of, body, inflight, waits, plate, sub, locked>>
        /\ queue # << >> /\ fate' = [fate EXCEPT ![Head(queue)] = "reading"]
        /\ wk'.pc = "taken"
    BY <1>3 DEF TakeJob, gate
  <2>2. Head(queue) \in Job /\ fate[Head(queue)] = "queued"
    BY <2>1, LeavesTheLine DEF IInv, Types, JobTypes, Queued
  <2>3. \A j \in Job : OnItsWay(j)' => OnItsWay(j)
    BY <2>1, <2>2 DEF OnItsWay, IInv, Types, JobTypes
  <2> QED
    BY <2>1, <2>3, OrderKept DEF Shut
<1>4. CASE PoolForJob
  <2>1. CASE GoOn("primary") /\ UNCHANGED <<gate, ev, fate, told>>
    <3>1. wk'.pc # "unlock" /\ UNCHANGED set
      BY <2>1, <1>4 DEF IInv, Types, WorkerType, GoOn, PoolForJob
    <3>2. UNCHANGED <<of, body, inflight, waits, plate, sub, locked, fate, told>>
      BY <2>1 DEF gate
    <3> QED
      BY <3>1, <3>2, OrderKept DEF OnItsWay, Shut
  <2>2. CASE TellFail(wk.job)
    BY <2>2, <1>4, <1>1 DEF PoolForJob, Reading
  <2> QED
    BY <2>1, <2>2, <1>4 DEF PoolForJob
<1>5. CASE Raises
  BY <1>5, <1>1 DEF Raises
<1>6. CASE Decide
  <2>1. UNCHANGED set /\ wk.pc = "decide"
    BY <1>6 DEF Decide, Reading
  <2>2. CASE TellFail(wk.job)
    BY <2>1, <2>2, <1>1
  <2>3. ASSUME NEW v, NEW pc \in {"slot", "deliver"}, Report(wk.job, v, pc)
        PROVE  InOrder'
    <3>1. UNCHANGED <<of, body, inflight, waits, plate, sub, locked, told>>
      BY <2>3 DEF Report, gate
    <3>2. wk'.pc # "unlock"
      <4>1. wk' = NoJob("ready") \/ wk' = [wk EXCEPT !.pc = pc, !.vin = v]
        BY <2>3 DEF Report, JobOver
      <4>2. CASE wk' = NoJob("ready")
        BY <4>2 DEF NoJob
      <4>3. CASE wk' = [wk EXCEPT !.pc = pc, !.vin = v]
        BY <4>3 DEF IInv, Types, WorkerType
      <4> QED
        BY <4>1, <4>2, <4>3
    <3>3. \A j \in Job : OnItsWay(j)' => OnItsWay(j)
      BY <2>3 DEF Report, OnItsWay, IInv, Types, JobTypes
    <3> QED
      BY <2>1, <3>1, <3>2, <3>3, OrderKept DEF Shut
  <2>4. \/ TellFail(wk.job) \/ \E v : Report(wk.job, v, "slot") \/ Report(wk.job, v, "deliver")
    BY <1>6 DEF Decide
  <2> QED
    BY <2>2, <2>3, <2>4
<1>7. CASE Unlock
  <2> SUFFICES ASSUME ~set.overlap PROVE InOrder'
    BY <1>7 DEF InOrder, Unlock
  <2>1. wk.pc = "unlock" /\ UNCHANGED fate /\ wk'.pc = "ready"
    BY <1>7 DEF Unlock, Reading, GoOn, IInv, Types, WorkerType
  <2>2. \A j \in Job : ~OnItsWay(j)'
    BY <2>1 DEF InOrder, OnItsWay
  <2> QED
    BY <2>1, <2>2, NoneOnItsWay
<1> QED
  BY <1>2, <1>3, <1>4, <1>5, <1>6, <1>7

LEMMA OthersInOrder ==
  IInv /\ InOrder /\ (\/ Preload \/ StartBody \/ PlateLeaves \/ Pause \/ BudgetIsShort
                      \/ ShutdownBegin \/ ShutdownPool \/ UNCHANGED vars) => InOrder'
<1> SUFFICES ASSUME IInv, InOrder,
                    \/ Preload \/ StartBody \/ PlateLeaves \/ Pause \/ BudgetIsShort
                    \/ ShutdownBegin \/ ShutdownPool \/ UNCHANGED vars
             PROVE  InOrder'
  OBVIOUS
<1>1. CASE StartBody
  <2> SUFFICES ASSUME ~set.overlap PROVE InOrder'
    BY <1>1 DEF InOrder, StartBody
  <2>1. wk.pc \in {"off", "ready"} /\ (\A j \in Job : ~OnItsWay(j)) /\ UNCHANGED fate
    BY <1>1 DEF StartBody
  <2>2. wk'.pc # "unlock"
    BY <1>1, <2>1 DEF StartBody, IInv, Types, WorkerType
  <2>3. \A j \in Job : ~OnItsWay(j)'
    BY <2>1 DEF OnItsWay
  <2> QED
    BY <2>2, <2>3, NoneOnItsWay
<1>2. CASE PlateLeaves
  <2>1. UNCHANGED <<set, of, body, inflight, waits, fate, told, wk>> /\ plate' = FALSE
    BY <1>2 DEF PlateLeaves
  <2> QED
    BY <2>1, OrderKept DEF OnItsWay, Shut
<1>3. CASE Preload \/ Pause \/ BudgetIsShort \/ ShutdownBegin \/ ShutdownPool \/ UNCHANGED vars
  <2>1. UNCHANGED <<set, of, body, inflight, waits, plate, sub, locked, told, wk>>
    BY <1>3 DEF Preload, Pause, BudgetIsShort, ShutdownBegin, ShutdownPool, vars, gate
  <2>2. \A j \in Job : fate'[j] \in {fate[j], "drained"}
    BY <1>3 DEF Preload, Pause, BudgetIsShort, ShutdownBegin, ShutdownPool, vars
  <2> QED
    BY <2>1, <2>2, OrderKept DEF OnItsWay, Shut
<1> QED
  BY <1>1, <1>2, <1>3

(* Without an overlap a job that waits to be told is marked as in flight.  *)
THEOREM JobsAreMarked == Spec => []JobIsMarked
<1>1. InOrder => JobIsMarked
  BY DEF InOrder, JobIsMarked
<1>2. IInv /\ InOrder /\ [Next]_vars => InOrder'
  BY AdmitInOrder, SenderInOrder, DeliverInOrder, ReaderInOrder, OthersInOrder
     DEF Next, Submitter, Worker, Environment
<1> QED
  BY <1>1, <1>2, OrderInit, Invariance, PTL DEF Spec

(***************************************************************************)
(* Sums and numbers, for the vote on the readings of a plate.              *)
(***************************************************************************)
(* Induction over the subsets of a finite set, as a fact about sets.       *)
LEMMA SubsetInduction ==
  ASSUME NEW S, IsFiniteSet(S), NEW Good,
         \A T \in SUBSET S : (\A x \in T : T \ {x} \in Good) => T \in Good
  PROVE  \A T \in SUBSET S : T \in Good
<1> DEFINE Bad == {T \in SUBSET S : T \notin Good}
           R == StrictSubsetOrdering(S)
<1> SUFFICES ASSUME Bad # {} PROVE FALSE
  OBVIOUS
<1>1. IsWellFoundedOn(R, SUBSET S)
  <2>1. IsWellFoundedOn(StrictSubsetOrdering(S), FiniteSubsetsOf(S))
    BY FS_StrictSubsetOrderingWellFounded
  <2>2. FiniteSubsetsOf(S) = SUBSET S
    BY FS_FiniteSubsetsOfFinite
  <2> QED
    BY <2>1, <2>2
<1>2. \E T \in Bad : \A U \in Bad : ~(<<U, T>> \in R)
  <2>1. Bad \subseteq SUBSET S
    OBVIOUS
  <2> HIDE DEF Bad, R
  <2> QED
    BY <1>1, <2>1, WFMin
<1>3. PICK T \in Bad : \A U \in Bad : ~(<<U, T>> \in R)
  BY <1>2
<1>4. \A x \in T : T \ {x} \in Good
  <2> SUFFICES ASSUME NEW x \in T, T \ {x} \notin Good PROVE FALSE
    OBVIOUS
  <2>1. T \ {x} \in Bad /\ <<T \ {x}, T>> \in R
    BY DEF StrictSubsetOrdering
  <2> QED
    BY <2>1, <1>3
<1> QED
  BY <1>4

(* A sum of naturals is the number of its units.                           *)
Units(w, S) == UNION {{i} \X (1 .. w[i]) : i \in S}

LEMMA UnitsGrow ==
  ASSUME NEW w, NEW S, NEW x \in S, w[x] \in Nat, IsFiniteSet(Units(w, S \ {x}))
  PROVE  /\ IsFiniteSet(Units(w, S))
         /\ Cardinality(Units(w, S)) = w[x] + Cardinality(Units(w, S \ {x}))
<1> DEFINE A == Units(w, S \ {x})
           B == {x} \X (1 .. w[x])
<1>1. Units(w, S) = A \cup B /\ A \cap B = {}
  BY DEF Units
<1>2. IsFiniteSet(B) /\ Cardinality(B) = w[x]
  <2>1. IsFiniteSet({x}) /\ Cardinality({x}) = 1
    BY FS_Singleton
  <2>2. IsFiniteSet(1 .. w[x]) /\ Cardinality(1 .. w[x]) = w[x]
    BY FS_Interval
  <2>3. IsFiniteSet(B) /\ Cardinality(B) = Cardinality({x}) * Cardinality(1 .. w[x])
    BY <2>1, <2>2, FS_Product
  <2> QED
    BY <2>1, <2>2, <2>3
<1>3. Cardinality(A) \in Nat
  BY FS_CardinalityType
<1> HIDE DEF A, B
<1>4. Cardinality(A \cap B) = 0
  BY <1>1, FS_EmptySet
<1>5. IsFiniteSet(A) BY DEF A
<1>6. IsFiniteSet(A \cup B) /\ Cardinality(A \cup B) = Cardinality(A) + Cardinality(B) - Cardinality(A \cap B)
  BY <1>2, <1>5, FS_Union
<1>7. Cardinality(A \cup B) = w[x] + Cardinality(A)
  BY <1>2, <1>3, <1>4, <1>6
<1> QED
  BY <1>1, <1>6, <1>7 DEF A

LEMMA UnitsFinite ==
  ASSUME NEW w, NEW S, IsFiniteSet(S), \A i \in S : w[i] \in Nat
  PROVE  \A T \in SUBSET S : IsFiniteSet(Units(w, T))
<1> DEFINE Good == {T \in SUBSET S : IsFiniteSet(Units(w, T))}
<1>1. \A T \in SUBSET S : (\A x \in T : T \ {x} \in Good) => T \in Good
  <2> SUFFICES ASSUME NEW T \in SUBSET S, \A x \in T : T \ {x} \in Good
               PROVE  IsFiniteSet(Units(w, T))
    OBVIOUS
  <2>1. CASE T = {}
    <3>1. Units(w, T) = {}
      BY <2>1 DEF Units
    <3> QED
      BY <3>1, FS_EmptySet
  <2>2. CASE \E x : x \in T
    BY <2>2, UnitsGrow
  <2> QED
    BY <2>1, <2>2
<1> HIDE DEF Good
<1>2. \A T \in SUBSET S : T \in Good
  BY <1>1, SubsetInduction
<1> QED
  BY <1>2 DEF Good

Adds(w, S, it) ==
  it = [s \in SUBSET S |-> IF s = {} THEN 0
                           ELSE LET x == CHOOSE x \in s : TRUE IN w[x] + it[s \ {x}]]

LEMMA SumIsCount ==
  ASSUME NEW w, NEW S, IsFiniteSet(S), \A i \in S : w[i] \in Nat
  PROVE  /\ IsFiniteSet(Units(w, S))
         /\ SumFunctionOnSet(w, S) = Cardinality(Units(w, S))
<1>1. \A T \in SUBSET S : IsFiniteSet(Units(w, T))
  BY UnitsFinite
<1>2. \A T \in SUBSET S : \A x \in T :
         Cardinality(Units(w, T)) = w[x] + Cardinality(Units(w, T \ {x}))
  <2> SUFFICES ASSUME NEW T \in SUBSET S, NEW x \in T
               PROVE  Cardinality(Units(w, T)) = w[x] + Cardinality(Units(w, T \ {x}))
    OBVIOUS
  <2>1. w[x] \in Nat /\ T \ {x} \in SUBSET S
    OBVIOUS
  <2>2. IsFiniteSet(Units(w, T \ {x}))
    BY <2>1, <1>1
  <2> QED
    BY <2>1, <2>2, UnitsGrow
<1>3. Cardinality(Units(w, {})) = 0
  <2>1. Units(w, {}) = {}
    BY DEF Units
  <2> QED
    BY <2>1, FS_EmptySet
<1>4. \E it : Adds(w, S, it)
  <2> DEFINE f == [T \in SUBSET S |-> Cardinality(Units(w, T))]
             g == [T \in SUBSET S |-> IF T = {} THEN 0
                     ELSE LET x == CHOOSE x \in T : TRUE IN w[x] + f[T \ {x}]]
  <2>1. ASSUME NEW T \in SUBSET S PROVE f[T] = g[T]
    <3>1. CASE T = {}
      BY <3>1, <1>3
    <3>2. CASE T # {}
      <4> DEFINE x == CHOOSE x \in T : TRUE
      <4>1. x \in T
        BY <3>2
      <4>2. T \ {x} \in SUBSET S
        OBVIOUS
      <4>3. f[T] = w[x] + f[T \ {x}]
        BY <4>1, <4>2, <1>2
      <4> HIDE DEF f
      <4> QED
        BY <4>3, <3>2
    <3> QED
      BY <3>1, <3>2
  <2>2. f = g
    <3> DEFINE F(T) == Cardinality(Units(w, T))
               G(T) == IF T = {} THEN 0
                     ELSE LET x == CHOOSE x \in T : TRUE IN w[x] + f[T \ {x}]
    <3>1. \A T \in SUBSET S : F(T) = G(T)
      BY <2>1
    <3>2. f = [T \in SUBSET S |-> F(T)] /\ g = [T \in SUBSET S |-> G(T)]
      OBVIOUS
    <3> HIDE DEF F, G, f, g
    <3> QED
      BY <3>1, <3>2
  <2>3. Adds(w, S, f)
    BY <2>2 DEF Adds
  <2> QED
    BY <2>3
<1> DEFINE it == CHOOSE it : Adds(w, S, it)
<1>5. Adds(w, S, it)
  BY <1>4
<1>6. SumFunctionOnSet(w, S) = it[S]
  BY DEF SumFunctionOnSet, FoldFunctionOnSet, MapThenFoldSet, Adds
<1> HIDE DEF it
<1> DEFINE Good == {T \in SUBSET S : it[T] = Cardinality(Units(w, T))}
<1>7. \A T \in SUBSET S : (\A x \in T : T \ {x} \in Good) => T \in Good
  <2> SUFFICES ASSUME NEW T \in SUBSET S, \A x \in T : T \ {x} \in Good
               PROVE  it[T] = Cardinality(Units(w, T))
    OBVIOUS
  <2>1. CASE T = {}
    BY <2>1, <1>3, <1>5 DEF Adds
  <2>2. CASE T # {}
    <3> DEFINE x == CHOOSE x \in T : TRUE
    <3>1. x \in T
      BY <2>2
    <3>2. it[T] = w[x] + it[T \ {x}]
      BY <2>2, <1>5 DEF Adds
    <3> HIDE DEF x
    <3> QED
      BY <3>1, <3>2, <1>2
  <2> QED
    BY <2>1, <2>2
<1> HIDE DEF Good
<1>8. \A T \in SUBSET S : T \in Good
  BY <1>7, SubsetInduction
<1> QED
  BY <1>1, <1>6, <1>8 DEF Good

(* More readings, none of less weight, do not weigh less.                  *)
LEMMA SumGrows ==
  ASSUME NEW w, NEW S, IsFiniteSet(S), \A i \in S : w[i] \in Nat,
         NEW v, NEW T \in SUBSET S, \A i \in T : v[i] \in Nat /\ v[i] <= w[i]
  PROVE  /\ SumFunctionOnSet(w, S) \in Nat /\ SumFunctionOnSet(v, T) \in Nat
         /\ SumFunctionOnSet(v, T) <= SumFunctionOnSet(w, S)
<1>1. IsFiniteSet(T)
  BY FS_Subset
<1>2. /\ IsFiniteSet(Units(w, S)) /\ SumFunctionOnSet(w, S) = Cardinality(Units(w, S))
      /\ IsFiniteSet(Units(v, T)) /\ SumFunctionOnSet(v, T) = Cardinality(Units(v, T))
  BY <1>1, SumIsCount
<1>3. Units(v, T) \in SUBSET Units(w, S)
  <2> SUFFICES ASSUME NEW i \in T, NEW u \in 1 .. v[i]
               PROVE  u \in 1 .. w[i]
    BY DEF Units
  <2> QED
    OBVIOUS
<1> QED
  BY <1>2, <1>3, FS_Subset, FS_CardinalityType

(* A nonempty set of naturals has a least member.                          *)
LEMMA LeastNatural ==
  ASSUME NEW S \in SUBSET Nat, S # {}
  PROVE  \E n \in S : \A k \in S : n <= k
<1> DEFINE R == OpToRel(<, Nat)
<1>1. IsWellFoundedOn(R, Nat)
  BY NatLessThanWellFounded
<1>2. \A x, y \in Nat : x < y => <<x, y>> \in R
  BY DEF OpToRel
<1> HIDE DEF R
<1>3. PICK n \in S : \A k \in S : ~(<<k, n>> \in R)
  BY <1>1, WFMin
<1>4. ASSUME NEW k \in S PROVE n <= k
  <2>1. ~(k < n)
    BY <1>2, <1>3
  <2> QED
    BY <2>1
<1> QED
  BY <1>4

(* Induction over the naturals, as a fact about sets.                      *)
LEMMA NaturalInduction ==
  ASSUME NEW Good, 0 \in Good, \A n \in Nat : n \in Good => n + 1 \in Good
  PROVE  \A n \in Nat : n \in Good
<1> DEFINE Bad == {n \in Nat : n \notin Good}
<1> SUFFICES ASSUME Bad # {} PROVE FALSE
  OBVIOUS
<1>1. PICK n \in Bad : \A k \in Bad : n <= k
  BY LeastNatural
<1>2. n - 1 \in Nat /\ n - 1 \notin Bad
  BY <1>1
<1> QED
  BY <1>1, <1>2
(***************************************************************************)
(* The groups of the crops.                                                *)
(***************************************************************************)
(* The first members of the groups among the crops up to n.                *)
IsKernel(K, n) ==
  /\ K \subseteq 1 .. n
  /\ \A i \in 1 .. n : i \in K <=> ~ \E j \in 1 .. i - 1 : j \in K /\ Near(i, j)

LEMMA KernelExists ==
  ASSUME NEW n \in Nat
  PROVE  \E K : IsKernel(K, n)
<1> DEFINE Good == {k \in Nat : \E K : IsKernel(K, k)}
<1>1. 0 \in Good
  <2>1. IsKernel({}, 0)
    BY DEF IsKernel
  <2> QED
    BY <2>1
<1>2. ASSUME NEW k \in Nat, k \in Good PROVE k + 1 \in Good
  <2>1. PICK K : IsKernel(K, k)
    BY <1>2
  <2> DEFINE met == \E j \in 1 .. k : j \in K /\ Near(k + 1, j)
             L == IF met THEN K ELSE K \cup {k + 1}
  <2>2. L \subseteq 1 .. k + 1 /\ (\A j \in 1 .. k : j \in L <=> j \in K)
    BY <2>1 DEF IsKernel
  <2>3. k + 1 \in L <=> ~met
    BY <2>1 DEF IsKernel
  <2>4. ASSUME NEW i \in 1 .. k + 1
        PROVE  i \in L <=> ~ \E j \in 1 .. i - 1 : j \in L /\ Near(i, j)
    <3>1. CASE i = k + 1
      <4>1. \A j \in 1 .. i - 1 : j \in L <=> j \in K
        BY <3>1, <2>2
      <4>2. met <=> \E j \in 1 .. i - 1 : j \in L /\ Near(i, j)
        BY <3>1, <4>1
      <4> QED
        BY <3>1, <4>2, <2>3
    <3>2. CASE i # k + 1
      <4>1. i \in 1 .. k /\ \A j \in 1 .. i - 1 : j \in L <=> j \in K
        BY <3>2, <2>2
      <4> HIDE DEF L
      <4> QED
        BY <4>1, <2>1, <2>2 DEF IsKernel
    <3> QED
      BY <3>1, <3>2
  <2>5. IsKernel(L, k + 1)
    BY <2>2, <2>4 DEF IsKernel
  <2> QED
    BY <2>5
<1> HIDE DEF Good
<1>3. \A k \in Nat : k \in Good
  BY <1>1, <1>2, NaturalInduction
<1> QED
  BY <1>3 DEF Good

(* What the recursive definition says of every crop.                       *)
RepresentativesOf(f, i) == {j \in 1 .. i - 1 : f[j] = j /\ Near(i, j)}
Represents(f) ==
  f = [i \in DOMAIN hashes |->
         IF RepresentativesOf(f, i) = {} THEN i ELSE Min(RepresentativesOf(f, i))]

LEMMA LeastOf ==
  ASSUME NEW S \in SUBSET Nat, S # {}
  PROVE  Min(S) \in S
BY LeastNatural DEF Min

LEMMA RepresentativeIs ==
  ASSUME hashes \in Seq(Nat)
  PROVE  Represents(Representative)
<1> DEFINE n == Len(hashes)
<1>1. n \in Nat /\ DOMAIN hashes = 1 .. n
  OBVIOUS
<1> HIDE DEF n
<1>2. PICK K : IsKernel(K, n)
  BY <1>1, KernelExists
<1> DEFINE F(i) == {j \in 1 .. i - 1 : j \in K /\ Near(i, j)}
           f == [i \in 1 .. n |-> IF F(i) = {} THEN i ELSE Min(F(i))]
<1>3. \A i \in 1 .. n : f[i] = i <=> i \in K
  <2> SUFFICES ASSUME NEW i \in 1 .. n PROVE f[i] = i <=> i \in K
    OBVIOUS
  <2>1. i \in K <=> F(i) = {}
    BY <1>2 DEF IsKernel
  <2>2. F(i) \in SUBSET Nat /\ i \notin F(i)
    BY <1>1
  <2>3. F(i) # {} => Min(F(i)) \in F(i)
    <3> HIDE DEF F
    <3> QED
      BY <2>2, LeastOf
  <2>4. f[i] = IF F(i) = {} THEN i ELSE Min(F(i))
    OBVIOUS
  <2> HIDE DEF f, F
  <2> QED
    BY <2>1, <2>2, <2>3, <2>4
<1>4. ASSUME NEW i \in 1 .. n PROVE F(i) = RepresentativesOf(f, i)
  <2>1. \A j \in 1 .. i - 1 : j \in 1 .. n
    BY <1>1
  <2> HIDE DEF f
  <2> QED
    BY <2>1, <1>3 DEF RepresentativesOf
<1>5. Represents(f)
  <2> DEFINE G(i) == IF F(i) = {} THEN i ELSE Min(F(i))
             H(i) == IF RepresentativesOf(f, i) = {} THEN i ELSE Min(RepresentativesOf(f, i))
  <2>1. \A i \in 1 .. n : G(i) = H(i)
    <3> HIDE DEF f, F
    <3> QED
      BY <1>4
  <2>2. f = [i \in 1 .. n |-> G(i)]
    OBVIOUS
  <2>3. Represents(f) <=> f = [i \in 1 .. n |-> H(i)]
    <3> HIDE DEF f
    <3> QED
      BY <1>1 DEF Represents
  <2> HIDE DEF f, G, H
  <2> QED
    BY <2>1, <2>2, <2>3
<1>6. Representative = CHOOSE g : Represents(g)
  BY DEF Representative, Represents, RepresentativesOf
<1> HIDE DEF f
<1> QED
  BY <1>5, <1>6

(* Of two groups, the first members are not near.                          *)
LEMMA GroupsAreApart ==
  ASSUME hashes \in Seq(Nat), NEW k \in DOMAIN hashes, NEW l \in DOMAIN hashes,
         Representative[k] # Representative[l]
  PROVE  ~Near(Representative[k], Representative[l])
<1> DEFINE f == Representative
<1>1. Represents(f)
  BY RepresentativeIs
<1>2. ASSUME NEW i \in DOMAIN hashes
      PROVE  f[i] \in DOMAIN hashes /\ f[f[i]] = f[i]
  <2> DEFINE R == RepresentativesOf(f, i)
  <2>1. f[i] = IF R = {} THEN i ELSE Min(R)
    <3> HIDE DEF f
    <3> QED BY <1>1 DEF Represents
  <2>2. R \in SUBSET Nat /\ (\A j \in R : j \in DOMAIN hashes /\ f[j] = j)
    BY DEF RepresentativesOf
  <2> HIDE DEF f, R
  <2>3. R # {} => Min(R) \in R
    BY <2>2, LeastOf
  <2> QED
    BY <2>1, <2>2, <2>3
<1>3. ASSUME NEW i \in DOMAIN hashes, NEW j \in DOMAIN hashes,
             f[i] = i, f[j] = j, j < i, Near(i, j)
      PROVE  FALSE
  <2> DEFINE R == RepresentativesOf(f, i)
  <2>1. j \in R
    BY <1>3 DEF RepresentativesOf
  <2>2. f[i] = IF R = {} THEN i ELSE Min(R)
    <3> HIDE DEF f
    <3> QED BY <1>1 DEF Represents
  <2>3. R \in SUBSET Nat /\ i \notin R
    BY DEF RepresentativesOf
  <2> HIDE DEF f, R
  <2>4. Min(R) \in R
    BY <2>1, <2>3, LeastOf
  <2> QED
    BY <2>1, <2>2, <2>3, <2>4, <1>3
<1>4. \A i, j \in DOMAIN hashes : Near(i, j) <=> Near(j, i)
  BY DEF Near
<1> DEFINE a == f[k]
           b == f[l]
<1>5. a \in DOMAIN hashes /\ b \in DOMAIN hashes /\ f[a] = a /\ f[b] = b /\ a # b
  BY <1>2
<1>6. a \in Int /\ b \in Int
  BY <1>5
<1> HIDE DEF f, a, b
<1>7. ~Near(a, b)
  BY <1>3, <1>4, <1>5, <1>6
<1> QED
  BY <1>7 DEF a, b, f

LEMMA SameGroups ==
  ASSUME hashes' = hashes
  PROVE  Representative' = Representative
BY DEF Representative, Near

(***************************************************************************)
(* What fuse accepts, whatever was read.                                   *)
(***************************************************************************)
ModelName == {"QY", "BL7M"}

LEMMA BestIsScored ==
  ASSUME NEW rs
  PROVE  /\ BestModel(rs).model \in ModelName
         /\ BestModel(rs).fully => \A p \in Place :
              BestModel(rs).places[p].char \in Rules[BestModel(rs).model][p]
<1>1. ASSUME NEW m, NEW places
      PROVE  LET best == Scored(rs, m, places) IN
             /\ best.model = m
             /\ best.fully => \A p \in Place : best.places[p].char \in Rules[best.model][p]
  <2> DEFINE right == {p \in Place : places[p].char \in Rules[m][p]}
             best == Scored(rs, m, places)
             prob == (1000 * Untold + SumOver(Place, LAMBDA p : places[p].prob)) \div 17
             score == (500 * (Untold + Cardinality(right))) \div 17 + prob \div 4
                        + AverageConf(rs) \div 4
  <2>0. best = [model |-> m, places |-> places,
                fully |-> Fully(Cardinality(right)),
                prob |-> prob, score |-> score]
    BY Zenon DEF Scored
  <2> HIDE DEF right, best, prob, score
  <2>1. best.model = m /\ best.places = places
        /\ best.fully = (Cardinality(right) = Cardinality(Place))
    BY <2>0 DEF Fully
  <2>2. IsFiniteSet(Place) /\ right \in SUBSET Place
    <3>1. right \in SUBSET Place
      BY Zenon DEF right
    <3>2. \A n \in Nat : IsFiniteSet(1 .. n)
      BY FS_Interval
    <3> QED
      BY <3>1, <3>2 DEF Place
  <2>3. best.fully => right = Place
    BY <2>1, <2>2, FS_Subset
  <2> QED
    BY <2>1, <2>3 DEF right, best
<1>2. /\ ForModel(rs, "QY").model = "QY" /\ ForModel(rs, "BL7M").model = "BL7M"
      /\ \A m \in ModelName : ForModel(rs, m).fully => \A p \in Place :
           ForModel(rs, m).places[p].char \in Rules[ForModel(rs, m).model][p]
  BY <1>1 DEF ForModel, ModelName
<1>3. BestModel(rs) = ForModel(rs, "QY") \/ BestModel(rs) = ForModel(rs, "BL7M")
  BY DEF BestModel, Better, Models
<1> QED
  BY <1>2, <1>3 DEF ModelName

LEMMA OneModel ==
  ASSUME NEW text
  PROVE  /\ ModelOf(text) = {} \/ \E m \in ModelName : ModelOf(text) = {m}
         /\ \A m \in ModelName : text[1] \in Rules[m][1] => ModelOf(text) = {m}
BY DEF ModelOf, ModelName, Rules

(* The three ways to an accepted VIN.                                      *)
LEMMA AcceptedMeans ==
  ASSUME NEW rs, Fuse(rs).status = "ACCEPT"
  PROVE  LET best == BestModel(rs)
             vin == TextOf(best)
             m == ModelFor(best, vin)
             failed == FailedGates(rs, best, vin, m)
         IN /\ Fuse(rs).vin = vin
            /\ Fuse(rs).exactGroups = Cardinality(Groups(rs, Exact(rs, vin)))
            /\ \/ failed = {}
               \/ failed \subseteq Rescuable /\ DirectRescue(rs, best, vin, m)
               \/ failed \subseteq Rescuable /\ StructureRescue(rs, best, vin, m, failed)
BY DEF Fuse, FuseAs, Gated, Judge, NoResult

(* What a gate that did not fail tells.                                    *)
LEMMA GatesMean ==
  ASSUME NEW rs, NEW best, NEW vin, NEW m
  PROVE  LET failed == FailedGates(rs, best, vin, m)
         IN /\ "structurally_valid" \notin failed => best.fully
            /\ "exact_conflict" \notin failed => Rivals(rs, vin, m) = {}
            /\ "pos5" \notin failed => Pos5Gate(rs, best.places[Pos5], best.model)
BY DEF FailedGates

LEMMA NoCorrection ==
  ASSUME NEW rs, NEW d, NEW m, Pos5Gate(rs, d, m)
  PROVE  d.char \in Seen(rs, Pos5)
<1> DEFINE voters == Voters(rs, Pos5, d.char)
           variants == {<<rs[i].base, rs[i].rotation>> : i \in voters}
<1>1. voters = {} => Cardinality(Groups(rs, voters)) >= 2 \/ Cardinality(variants) >= 3
  BY DEF Pos5Gate, Limit
<1>2. voters = {} => Groups(rs, voters) = {} /\ variants = {}
  BY DEF Groups
<1>3. voters # {}
  <2> HIDE DEF voters, variants
  <2> QED
    BY <1>1, <1>2, FS_EmptySet
<1> QED
  BY <1>3 DEF Voters, Seen

LEMMA KitIsRead ==
  ASSUME NEW rs, Fuse(rs).status = "ACCEPT"
  PROVE  Fuse(rs).vin[Pos5] \in Seen(rs, Pos5)
<1> DEFINE best == BestModel(rs)
           vin == TextOf(best)
           m == ModelFor(best, vin)
           failed == FailedGates(rs, best, vin, m)
<1>1. /\ Fuse(rs).vin = vin
      /\ \/ failed = {}
         \/ DirectRescue(rs, best, vin, m)
         \/ StructureRescue(rs, best, vin, m, failed)
  BY AcceptedMeans
<1>2. vin[Pos5] = best.places[Pos5].char
  BY DEF TextOf, Pos5, Place
<1>3. failed = {} => Pos5Gate(rs, best.places[Pos5], best.model)
  BY GatesMean
<1> HIDE DEF failed, m, vin, best
<1>4. CASE failed = {}
  <2>1. best.places[Pos5].char \in Seen(rs, Pos5)
    BY <1>3, <1>4, NoCorrection
  <2> QED
    BY <1>1, <1>2, <2>1
<1>5. CASE DirectRescue(rs, best, vin, m)
  BY <1>1, <1>5 DEF DirectRescue
<1>6. CASE StructureRescue(rs, best, vin, m, failed)
  <2>1. PICK i \in DOMAIN rs : rs[i].text = vin
    BY <1>6 DEF StructureRescue, Exact
  <2> QED
    BY <1>6, <2>1 DEF StructureRescue, Seen
<1> QED
  BY <1>1, <1>4, <1>5, <1>6

(* The model the VIN is taken for: the one its characters were elected for *)
LEMMA VinIsValid ==
  ASSUME NEW rs, Fuse(rs).status = "ACCEPT"
  PROVE  \E m \in ModelName : /\ ModelOf(Fuse(rs).vin) = {m} /\ Valid(m, Fuse(rs).vin)
                              /\ Rivals(rs, Fuse(rs).vin, m) = {}
<1> DEFINE best == BestModel(rs)
           vin == TextOf(best)
           m == ModelFor(best, vin)
           failed == FailedGates(rs, best, vin, m)
<1>1. /\ Fuse(rs).vin = vin
      /\ \/ failed = {}
         \/ failed \subseteq Rescuable
  BY AcceptedMeans
<1>2. /\ "structurally_valid" \notin failed => best.fully
      /\ "exact_conflict" \notin failed => Rivals(rs, vin, m) = {}
  BY GatesMean
<1>3. best.fully /\ Rivals(rs, vin, m) = {}
  <2> HIDE DEF failed, m, vin, best
  <2> QED
    BY <1>1, <1>2 DEF Rescuable
<1>4. best.model \in ModelName /\ \A p \in Place : vin[p] \in Rules[best.model][p]
  <2>1. \A p \in Place : vin[p] = best.places[p].char
    BY DEF TextOf
  <2>2. best.model \in ModelName
        /\ (best.fully => \A p \in Place : best.places[p].char \in Rules[best.model][p])
    BY BestIsScored
  <2> HIDE DEF failed, m, vin, best
  <2> QED
    BY <1>3, <2>1, <2>2
<1>5. ModelOf(vin) = {best.model}
  <2>1. vin[1] \in Rules[best.model][1]
    BY <1>4 DEF Place
  <2> HIDE DEF failed, m, vin, best
  <2> QED
    BY <1>4, <2>1, OneModel
<1>6. m = best.model
  BY <1>5 DEF ModelFor
<1> HIDE DEF failed, m, vin, best
<1> QED
  BY <1>1, <1>3, <1>4, <1>5, <1>6 DEF Valid

(***************************************************************************)
(* The cascade.                                                            *)
(***************************************************************************)
Readings ==
  [crop : DOMAIN hashes, group : {Representative[k] : k \in DOMAIN hashes},
   base : DOMAIN BaseWeight, rotation : Int, conf : 1 .. 100, text : Texts]

CascadeInv ==
  /\ hashes \in Seq(Nat) /\ hashes # << >>
  /\ batch \subseteq Tasks
  /\ reads \in Seq(Readings)
  /\ phase = "done" => fr = Fuse(reads) /\ batch = {}
  /\ early => phase = "done" /\ fr.status = "ACCEPT" /\ fr.exactGroups >= 2

LEMMA FilterTypes ==
  ASSUME NEW t \in Tasks
  PROVE  /\ t[2] \in DOMAIN hashes
         /\ Filters[t[1]].base \in DOMAIN BaseWeight /\ Filters[t[1]].rotation \in Int
<1>1. t[1] \in DOMAIN Filters /\ t[2] \in DOMAIN hashes
  BY DEF Tasks
<1>2. Filters[t[1]] \in Variant
  BY <1>1, FusionConstants
<1> QED
  BY <1>1, <1>2 DEF Variant

LEMMA CascadeInvInit ==
  CascadeInit => CascadeInv
<1> SUFFICES ASSUME CascadeInit PROVE CascadeInv
  OBVIOUS
<1>1. hashes \in Seq(Nat) /\ hashes # << >>
  BY FusionConstants DEF CascadeInit
<1>2. batch \subseteq Tasks
  BY DEF CascadeInit, PrimaryTasks
<1>3. reads \in Seq(Readings)
  BY DEF CascadeInit
<1> QED
  BY <1>1, <1>2, <1>3 DEF CascadeInit, CascadeInv

LEMMA CascadeInvStep ==
  CascadeInv /\ [CascadeNext]_cascadeVars => CascadeInv'
<1> SUFFICES ASSUME CascadeInv, [CascadeNext]_cascadeVars PROVE CascadeInv'
  OBVIOUS
<1>1. hashes' = hashes
  BY DEF CascadeNext, ReadTask, BatchBreaks, PrimaryFused, RetryFused, DetFused, cascadeVars
<1>2. Tasks' = Tasks /\ Readings' = Readings
  <2>1. Representative' = Representative
    BY <1>1, SameGroups
  <2>2. Tasks' = Tasks
    BY <1>1 DEF Tasks, Rank
  <2>3. Readings' = Readings
    BY <1>1, <2>1 DEF Readings
  <2> QED
    BY <2>2, <2>3
<1>3. CASE ReadTask
  <2>1. PICK t \in batch :
          /\ batch' = batch \ {t}
          /\ \/ \E text \in Texts, conf \in Confs :
                  reads' = Append(reads, [crop |-> t[2], group |-> Representative[t[2]],
                                          base |-> Filters[t[1]].base,
                                          rotation |-> Filters[t[1]].rotation,
                                          conf |-> conf, text |-> text])
             \/ reads' = reads
    BY <1>3 DEF ReadTask
  <2>2. phase # "done" /\ ~early /\ phase' = phase /\ early' = early
    BY <1>3, <2>1 DEF ReadTask, CascadeInv
  <2>3. reads' \in Seq(Readings)
    <3>1. \A conf \in Confs, text \in Texts :
            [crop |-> t[2], group |-> Representative[t[2]], base |-> Filters[t[1]].base,
             rotation |-> Filters[t[1]].rotation, conf |-> conf, text |-> text] \in Readings
      <4>1. /\ t[2] \in DOMAIN hashes /\ Filters[t[1]].base \in DOMAIN BaseWeight
            /\ Filters[t[1]].rotation \in Int
        BY <2>1, FilterTypes DEF CascadeInv
      <4> QED
        BY <4>1, FusionConstants DEF Readings
    <3>2. \A x \in Readings : Append(reads, x) \in Seq(Readings)
      BY DEF CascadeInv
    <3>3. reads \in Seq(Readings)
      BY DEF CascadeInv
    <3> HIDE DEF Readings
    <3> QED
      BY <2>1, <3>1, <3>2, <3>3
  <2> QED
    BY <1>1, <1>2, <2>1, <2>2, <2>3 DEF CascadeInv
<1>4. CASE BatchBreaks
  BY <1>1, <1>2, <1>4 DEF BatchBreaks, CascadeInv
<1>5. /\ PrimaryTasks \subseteq Tasks /\ RetryTasks \subseteq Tasks /\ DetTasks \subseteq Tasks
  BY DEF PrimaryTasks, RetryTasks, DetTasks
<1>6. ASSUME AfterRetry
      PROVE  batch' \subseteq Tasks /\ (phase' = "done" => batch' = {})
  BY <1>5, <1>6 DEF AfterRetry, Goto
<1>7. CASE PrimaryFused
  <2>1. reads' = reads /\ fr' = Fuse(reads)
    BY <1>7 DEF PrimaryFused
  <2>2. batch' \subseteq Tasks /\ (phase' = "done" => batch' = {})
    BY <1>5, <1>6, <1>7 DEF PrimaryFused, Goto
  <2>3. early' => phase' = "done" /\ fr'.status = "ACCEPT" /\ fr'.exactGroups >= 2
    BY <1>7 DEF PrimaryFused, SafeEarly, Goto
  <2> QED
    BY <1>1, <1>2, <2>1, <2>2, <2>3 DEF CascadeInv
<1>8. CASE RetryFused
  BY <1>1, <1>2, <1>6, <1>8 DEF RetryFused, CascadeInv
<1>9. CASE DetFused
  BY <1>1, <1>2, <1>9 DEF DetFused, Goto, CascadeInv
<1>10. CASE UNCHANGED cascadeVars
  BY <1>1, <1>2, <1>10 DEF cascadeVars, CascadeInv
<1> QED
  BY <1>3, <1>4, <1>7, <1>8, <1>9, <1>10 DEF CascadeNext

(* The invariant the four theorems rest on.                                *)
LEMMA CascadeInvHolds ==
  CascadeSpec => []CascadeInv
BY CascadeInvInit, CascadeInvStep, PTL DEF CascadeSpec

LEMMA WeightIsNatural ==
  ASSUME NEW r \in Readings
  PROVE  Weight(r) \in Nat
<1>1. BaseWeight[r.base] \in Nat
  BY DEF Readings, BaseWeight
<1>2. VariantWeight(r) \in Nat
  <2>1. RotationWeight(r.rotation) \in Nat
    BY DEF RotationWeight
  <2> QED
    BY <1>1, <2>1 DEF VariantWeight
<1>3. r.conf * VariantWeight(r) \in Nat
  BY <1>2 DEF Readings
<1> QED
  BY <1>3 DEF Weight

LEMMA TotalGrows ==
  ASSUME NEW rs \in Seq(Readings), NEW S \in SUBSET DOMAIN rs, NEW T \in SUBSET S
  PROVE  /\ Total(rs, S) \in Nat /\ Total(rs, T) \in Nat
         /\ Total(rs, T) <= Total(rs, S)
<1> DEFINE w == [i \in S |-> Weight(rs[i])]
           v == [i \in T |-> Weight(rs[i])]
<1>1. IsFiniteSet(S)
  <2>1. IsFiniteSet(DOMAIN rs)
    <3>1. Len(rs) \in Nat /\ DOMAIN rs = 1 .. Len(rs)
      OBVIOUS
    <3> QED
      BY <3>1, FS_Interval
  <2> QED
    BY <2>1, FS_Subset
<1>2. \A i \in DOMAIN rs : Weight(rs[i]) \in Nat
  BY WeightIsNatural
<1>3. /\ \A i \in S : w[i] \in Nat
      /\ \A i \in T : v[i] \in Nat /\ v[i] <= w[i]
  BY <1>2
<1>4. Total(rs, S) = SumFunctionOnSet(w, S) /\ Total(rs, T) = SumFunctionOnSet(v, T)
  BY DEF Total, SumOver
<1> HIDE DEF w, v
<1> QED
  BY <1>1, <1>3, <1>4, SumGrows

(* An accepted VIN is a VIN of the model it is taken for.                  *)
THEOREM AcceptedIsValidHolds ==
  CascadeSpec => []AcceptedIsValid
<1>1. CascadeInv => AcceptedIsValid
  BY VinIsValid DEF CascadeInv, AcceptedIsValid, VinAccepted
<1> QED
  BY <1>1, CascadeInvHolds, PTL

(* Its kit character was read, whichever gate was rescued.                 *)
THEOREM Pos5IsSeenHolds ==
  CascadeSpec => []Pos5IsSeen
<1>1. CascadeInv => Pos5IsSeen
  BY KitIsRead DEF CascadeInv, Pos5IsSeen, VinAccepted
<1> QED
  BY <1>1, CascadeInvHolds, PTL

(* It outweighs what the trusted variants read of any other VIN.           *)
THEOREM NoTrustedRivalHolds ==
  CascadeSpec => []NoTrustedRival
<1>1. CascadeInv => NoTrustedRival
  <2> SUFFICES ASSUME CascadeInv, VinAccepted, NEW i \in DOMAIN reads,
                      NEW t, t = reads[i].text, t # fr.vin,
                      NEW trusted, trusted = {k \in Exact(reads, t) : reads[k].base \in Trusted},
                      trusted # {}, NEW m \in ModelOf(fr.vin), Valid(m, t)
               PROVE  Total(reads, trusted) < Total(reads, Exact(reads, fr.vin))
    BY DEF NoTrustedRival
  <2>1. fr = Fuse(reads) /\ fr.status = "ACCEPT" /\ reads \in Seq(Readings)
    BY DEF CascadeInv, VinAccepted
  <2>2. m \in ModelName /\ Rivals(reads, fr.vin, m) = {}
    <3>1. PICK n \in ModelName : ModelOf(fr.vin) = {n} /\ Rivals(reads, fr.vin, n) = {}
      BY <2>1, VinIsValid
    <3> QED
      BY <3>1
  <2>3. m \in ModelOf(t)
    <3>1. t[1] \in Rules[m][1]
      BY DEF Valid, Place
    <3> QED
      BY <2>2, <3>1, OneModel
  <2>4. Bases(reads, Exact(reads, t)) \cap Trusted # {}
    BY DEF Bases
  <2> DEFINE a == Total(reads, Exact(reads, t))
             b == Total(reads, Exact(reads, fr.vin))
  <2>5. ~(100 * a >= 55 * b)
    <3>1. ~(100 * a >= Limit.rival * b)
      BY <2>2, <2>3, <2>4 DEF Rivals
    <3>2. Limit.rival = 55
      BY DEF Limit
    <3> HIDE DEF a, b
    <3> QED
      BY <3>1, <3>2
  <2>6. a \in Nat /\ b \in Nat /\ Total(reads, trusted) \in Nat /\ Total(reads, trusted) <= a
    BY <2>1, TotalGrows DEF Exact
  <2> HIDE DEF a, b
  <2>7. Total(reads, trusted) < b
    BY <2>5, <2>6
  <2> QED
    BY <2>7 DEF b
<1> QED
  BY <1>1, CascadeInvHolds, PTL

(* Two readings of different groups, if there are two groups.              *)
LEMMA TwoOf ==
  ASSUME NEW S, Cardinality(S) >= 2
  PROVE  \E x, y \in S : x # y
<1> SUFFICES ASSUME \A x, y \in S : x = y PROVE FALSE
  OBVIOUS
<1>1. CASE S = {}
  BY <1>1, FS_EmptySet
<1>2. ASSUME NEW x \in S PROVE FALSE
  <2>1. S = {x}
    BY <1>2
  <2>2. Cardinality({x}) = 1
    BY FS_Singleton
  <2> QED
    BY <2>1, <2>2
<1> QED
  BY <1>1, <1>2

(* The cascade stops early on two independent readings of the VIN.         *)
THEOREM EarlyIsIndependentHolds ==
  CascadeSpec => []EarlyIsIndependent
<1>1. CascadeInv => EarlyIsIndependent
  <2> SUFFICES ASSUME CascadeInv, early
               PROVE  /\ fr.status = "ACCEPT"
                      /\ \E i, j \in DOMAIN reads :
                           /\ reads[i].text = fr.vin /\ reads[j].text = fr.vin
                           /\ ~Near(reads[i].group, reads[j].group)
    BY DEF EarlyIsIndependent
  <2> DEFINE S == Exact(reads, fr.vin)
  <2>1. fr = Fuse(reads) /\ fr.status = "ACCEPT" /\ fr.exactGroups >= 2
    BY DEF CascadeInv
  <2>2. Cardinality(Groups(reads, S)) >= 2
    BY <2>1, AcceptedMeans
  <2>3. PICK g \in Groups(reads, S), h \in Groups(reads, S) : g # h
    BY <2>2, TwoOf
  <2>4. PICK i \in DOMAIN reads, j \in DOMAIN reads :
          /\ reads[i].text = fr.vin /\ reads[i].group = g
          /\ reads[j].text = fr.vin /\ reads[j].group = h
    BY <2>3 DEF Groups, Exact
  <2>5. PICK k \in DOMAIN hashes, l \in DOMAIN hashes : g = Representative[k] /\ h = Representative[l]
    <3>1. reads[i] \in Readings /\ reads[j] \in Readings
      BY DEF CascadeInv
    <3> QED
      BY <2>4, <3>1 DEF Readings
  <2>6. ~Near(g, h)
    BY <2>3, <2>5, GroupsAreApart DEF CascadeInv
  <2> QED
    BY <2>1, <2>4, <2>6
<1> QED
  BY <1>1, CascadeInvHolds, PTL
=============================================================================
