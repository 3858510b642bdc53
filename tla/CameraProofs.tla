---------------------------- MODULE CameraProofs ----------------------------
(***************************************************************************)
(* ShutdownIsFinal and AckIsTrue of CameraSafety, for any number of        *)
(* connections, retries and triggers.                                      *)
(***************************************************************************)
EXTENDS CameraSafety, TLAPS

-----------------------------------------------------------------------------
(* The connection. *)

LineTypes ==
  /\ made \in Nat /\ made <= MaxStreams /\ client \in 0 .. made /\ link \in 0 .. made
  /\ hand \in [Thread -> 0 .. made]
  /\ acked \in [Stream -> BOOLEAN] /\ pushing \in BOOLEAN

(* A connection that was not made yet has acked nothing; one that the      *)
(* camera serves behaves as its last ack says, for no ack ever comes late: *)
(* a command without an answer costs the connection.                       *)
LineInv ==
  /\ LineTypes
  /\ late = {}
  /\ \A c \in Stream : c > made => ~acked[c]
  /\ link = 0 => ~pushing
  /\ link # 0 => acked[link] = pushing

LEMMA LineInit == Init => LineInv
<1> SUFFICES ASSUME Init PROVE LineInv
  OBVIOUS
<1>1. made = 0 /\ client = 0 /\ link = 0 /\ pushing = FALSE /\ late = {}
  BY DEF Init
<1>2. hand \in [Thread -> 0 .. made] /\ acked \in [Stream -> BOOLEAN]
  BY <1>1 DEF Init
<1>3. \A c \in Stream : ~acked[c]
  BY DEF Init
<1>4. LineTypes
  <2>1. made \in Nat /\ made <= MaxStreams
    BY <1>1, CameraConstants
  <2>2. client \in 0 .. made /\ link \in 0 .. made
    BY <1>1
  <2>3. pushing \in BOOLEAN
    BY <1>1
  <2> QED
    BY <1>1, <1>2, <2>1, <2>2, <2>3 DEF LineTypes
<1> QED
  BY <1>1, <1>3, <1>4 DEF LineInv

LEMMA LineUntouched ==
  ASSUME LineInv, UNCHANGED <<made, hand, wire>>, client' \in {client, 0} PROVE LineInv'
  BY DEF LineInv, LineTypes, wire

LEMMA CloseKeeps ==
  ASSUME LineInv, NEW c \in Stream, Close(c), UNCHANGED <<made, hand>>, client' \in {client, 0}
  PROVE  LineInv'
<1>1. /\ acked' \in [Stream -> BOOLEAN] /\ ~acked'[c]
      /\ \A d \in Stream : d # c => acked'[d] = acked[d]
  <2>1. acked' = [acked EXCEPT ![c] = FALSE] /\ acked \in [Stream -> BOOLEAN]
    BY DEF LineInv, LineTypes, Close
  <2> QED
    BY <2>1
<1>2. CASE link = c
  <2>1. link' = 0 /\ pushing' = FALSE /\ late' = {}
    BY <1>2 DEF Close
  <2>2. pushing' \in BOOLEAN
    BY <2>1
  <2>3. LineTypes'
    BY <1>1, <2>1, <2>2 DEF LineInv, LineTypes
  <2>4. \A d \in Stream : d > made => ~acked'[d]
    BY <1>1 DEF LineInv
  <2> QED
    BY <2>1, <2>3, <2>4 DEF LineInv
<1>3. CASE link # c
  <2>1. UNCHANGED <<link, pushing, late>>
    BY <1>3 DEF Close
  <2>2. link # 0 => link \in Stream
    BY CameraConstants DEF LineInv, LineTypes, Stream
  <2>3. link # 0 => acked'[link] = acked[link]
    BY <1>1, <1>3, <2>2
  <2> QED
    BY <1>1, <2>1, <2>3 DEF LineInv, LineTypes
<1> QED
  BY <1>2, <1>3

LEMMA ExchangeKeeps ==
  ASSUME LineInv, client # 0, NEW cmd \in {"start", "stop"}, Exchange(client, cmd),
         UNCHANGED <<made, hand, client>>
  PROVE  LineInv'
<1>1. client \in Stream /\ client \in 1 .. made
  BY CameraConstants DEF LineInv, LineTypes, Stream
<1>2. CASE link = client /\ ~LateAck(cmd) /\ pushing' = (cmd = "start")
           /\ acked' = [acked EXCEPT ![client] = cmd = "start"] /\ UNCHANGED <<link, late>>
  <2>1. /\ acked'[client] = (cmd = "start")
        /\ \A d \in Stream : d # client => acked'[d] = acked[d]
    BY <1>1, <1>2 DEF LineInv, LineTypes
  <2>2. acked' \in [Stream -> BOOLEAN] /\ pushing' \in BOOLEAN
    BY <1>1, <1>2 DEF LineInv, LineTypes
  <2>3. LineTypes' /\ late' = {}
    BY <1>2, <2>2 DEF LineInv, LineTypes
  <2>4. \A d \in Stream : d > made => ~acked'[d]
    BY <1>1, <2>1 DEF LineInv, LineTypes
  <2>5. acked'[link'] = pushing'
    BY <1>2, <2>1
  <2> QED
    BY <1>1, <1>2, <2>3, <2>4, <2>5 DEF LineInv
<1>3. CASE UNCHANGED wire
  BY <1>3, LineUntouched
<1>4. CASE Close(client)
  BY <1>1, <1>4, CloseKeeps
<1>5. ~LateAck(cmd)
  BY DEF LineInv, LateAck
<1> QED
  BY <1>2, <1>3, <1>4, <1>5 DEF Exchange, Acked, Failed, Lost

(* The steps that talk to the camera, or make or forget a client.          *)
LEMMA CommandsKeep ==
  ASSUME LineInv, Resume \/ StreamPauses \/ \E c \in Stream : CaptureStarts(c) \/ CaptureEnds(c)
  PROVE  LineInv'
<1>1. UNCHANGED <<made, hand, client>>
  BY DEF Resume, StreamPauses, CaptureStarts, CaptureEnds, calls
<1>2. \/ UNCHANGED wire
      \/ client # 0 /\ \E cmd \in {"start", "stop"} : Exchange(client, cmd)
  BY DEF Resume, StreamPauses, CaptureStarts, CaptureEnds, Exchange
<1> QED
  BY <1>1, <1>2, ExchangeKeeps, LineUntouched

LEMMA ClosesKeep ==
  ASSUME LineInv, Collect \/ \E t \in Thread : CloseClient(t) PROVE LineInv'
<1>1. UNCHANGED <<made, hand>> /\ client' \in {client, 0}
  BY DEF Collect, CloseClient, calls
<1>2. \A c \in {link, client} : c # 0 => c \in Stream
  BY CameraConstants DEF LineInv, LineTypes, Stream
<1>3. CASE Collect
  BY <1>1, <1>2, <1>3, CloseKeeps DEF Collect
<1>4. CASE \E t \in Thread : CloseClient(t)
  <2>1. IF client = 0 THEN UNCHANGED wire ELSE Close(client)
    BY <1>4 DEF CloseClient
  <2> QED
    BY <1>1, <1>2, <2>1, CloseKeeps, LineUntouched
<1> QED
  BY <1>3, <1>4

LEMMA DialKeeps == ASSUME LineInv, NEW t \in Thread, DialWorks(t) PROVE LineInv'
<1>1. /\ link = 0 /\ made < MaxStreams /\ made' = made + 1 /\ link' = made + 1
      /\ hand' = [hand EXCEPT ![t] = made + 1] /\ UNCHANGED <<client, acked, pushing, late>>
  BY DEF DialWorks
<1>2. made + 1 \in Stream /\ made \in Nat
  BY <1>1, CameraConstants DEF LineInv, LineTypes, Stream
<1>3. ~acked[made + 1] /\ ~pushing
  BY <1>1, <1>2 DEF LineInv
<1>4. acked[made + 1] = pushing
  BY <1>2, <1>3 DEF LineInv, LineTypes
<1>5. LineTypes'
  BY <1>1, <1>2, CameraConstants DEF LineInv, LineTypes
<1>6. \A c \in Stream : c > made + 1 => ~acked[c]
  BY <1>2 DEF LineInv, Stream
<1> QED
  BY <1>1, <1>2, <1>3, <1>4, <1>5, <1>6 DEF LineInv

LEMMA HandsKeep ==
  ASSUME LineInv, NEW t \in Thread, DialFails(t) \/ Publish(t) \/ Spawn(t) PROVE LineInv'
<1>1. UNCHANGED <<made, wire>>
  BY DEF DialFails, Publish, Spawn
<1>2. client' \in 0 .. made /\ hand' \in [Thread -> 0 .. made]
  BY DEF DialFails, Publish, Spawn, calls, LineInv, LineTypes
<1> QED
  BY <1>1, <1>2 DEF LineInv, LineTypes, wire

LEMMA LineStep == LineInv /\ [Next]_vars => LineInv'
<1> SUFFICES ASSUME LineInv, [Next]_vars PROVE LineInv'
  OBVIOUS
<1>1. CASE \E t \in Thread : Works(t)
  <2>1. PICK t \in Thread : Works(t)
    BY <1>1
  <2>2. CASE Ask(t) \/ Cancel(t) \/ Signal(t) \/ Join(t) \/ ScheduleRetry(t) \/ Leave(t)
             \/ Halt(t) \/ JoinThreads(t)
    <3>1. UNCHANGED <<made, hand, client, wire>>
      BY <2>2 DEF Ask, Cancel, Signal, Join, Cancelled, ScheduleRetry, Leave, Halt, JoinThreads, calls
    <3> QED
      BY <3>1, LineUntouched
  <2> QED
    BY <2>1, <2>2, DialKeeps, HandsKeep, ClosesKeep DEF Works, Connects, Disconnects
<1>2. CASE Trigger \/ Order \/ GoNowhere \/ Go \/ CaptureReleased \/ UNCHANGED vars
  <2>1. UNCHANGED <<made, hand, client, wire>>
    BY <1>2 DEF Trigger, Order, GoNowhere, Go, CaptureReleased, calls, vars
  <2> QED
    BY <2>1, LineUntouched
<1>3. CASE \E r \in Retry : RetryLoop(r)
  <2>1. UNCHANGED <<made, hand, client, wire>>
    BY <1>3 DEF RetryLoop, calls
  <2> QED
    BY <2>1, LineUntouched
<1>4. CASE \E c \in Stream : \/ GiveUp(c) \/ CaptureStopped(c) \/ CaptureWraps(c)
                             \/ CaptureSchedules(c) \/ GoodFrame(c) \/ MissedFrame(c)
                             \/ InferenceEnds(c)
  <2>1. UNCHANGED <<made, hand, client, wire>>
    BY <1>4 DEF GiveUp, CaptureStopped, CaptureWraps, CaptureSchedules, GoodFrame, MissedFrame,
                InferenceEnds, calls
  <2> QED
    BY <2>1, LineUntouched
<1> QED
  BY <1>1, <1>2, <1>3, <1>4, CommandsKeep, ClosesKeep DEF Next, Captures

(* On the connection in use the camera pushes frames if and only if the    *)
(* last command it acked there was mLIStart, whoever connects, disconnects *)
(* or commands it: no ack is taken for the answer to another command.      *)
THEOREM AckTrue == Spec => []AckIsTrue
<1>1. LineInv => AckIsTrue
  BY DEF LineInv, AckIsTrue
<1> QED
  BY <1>1, LineInit, LineStep, PTL DEF Spec

-----------------------------------------------------------------------------
(* The callers and the retries. *)

(* The service shuts the camera down after the PLC thread has ended; the   *)
(* operator orders nothing.                                                *)
ShutdownOnly == Orders \subseteq {"shutdown"}

Callers == {Plc, Operator}
RetryPlace == {"dead", "loop", "dial", "publish", "spawn", "schedule"}
Cancelling == {"cancel", "signal", "join"}
Connecting == {"dial", "publish", "spawn", "schedule"}
Halting == {"halt", "threads", "close"}
CallerPlace ==
  {"idle", "ask", "leave", "go", "resume"} \cup Cancelling \cup Connecting \cup Halting
Job == {"connect", "disconnect"}

ThreadTypes ==
  /\ pc \in [Thread -> CallerPlace \cup RetryPlace]
  /\ \A r \in Retry : pc[r] \in RetryPlace
  /\ \A t \in Callers : pc[t] \in CallerPlace
  /\ job \in [Thread -> Job]
  /\ awaits \in [Thread -> Retry \cup {NoThread}]
  /\ retryRef \in Retry \cup {NoThread}
  /\ outlived \subseteq Retry

(* A retry that runs is the one scheduled last, or somebody waits for it,  *)
(* or has waited in vain.                                                  *)
Known ==
  \A r \in Retry :
    Busy(r) => r = retryRef \/ r \in outlived \/ \E t \in Callers : awaits[t] = r

Waits == \A t \in Thread : awaits[t] # NoThread => t \in Callers /\ pc[t] \in {"signal", "join"}

(* One caller at a time: when the service shuts down the PLC thread has    *)
(* ended and nothing is asked for any more.                                *)
Alone ==
  pc[Operator] # "idle" =>
    /\ pc[Plc] = "idle" /\ asked = MaxAsked
    /\ pc[Operator] \in {"leave"} \cup Cancelling \cup Halting
    /\ job[Operator] = "disconnect"

(* Only retries that outlived their join still run.                        *)
OnlyOutlived == \A r \in Retry : Busy(r) => r \in outlived

(* What a call has achieved where it is: a disconnect forbids new retries, *)
(* takes the last one over, waits for it and tells the threads to stop; a  *)
(* connect allows them again.                                              *)
Leaves(t) == pc[t] \in Cancelling /\ job[t] = "disconnect"
Reached(t) ==
  /\ Leaves(t) \/ pc[t] \in Halting => shutting
  /\ Leaves(t) /\ pc[t] # "cancel" =>
       \A r \in Retry : Busy(r) => awaits[t] = r \/ r \in outlived
  /\ pc[t] \in Halting => OnlyOutlived
  /\ pc[t] \in {"threads", "close"} => Revived \/ stopEvent
  /\ pc[t] \in Connecting => ~shutting
  /\ pc[t] \in Cancelling /\ job[t] = "connect" => ~shutting
  /\ pc[t] = "ask" => job[t] = "connect"
  /\ pc[t] = "leave" => job[t] = "disconnect"

(* A disconnect stands while nobody is inside one and none has connected.  *)
Leaving == Cancelling \cup Halting
NobodyLeaves == \A t \in Callers : pc[t] \notin Leaving
Spent == OnlyOutlived /\ (Revived \/ (stopEvent /\ client = 0))
Final == shutting /\ NobodyLeaves => Spent

CallInv == ThreadTypes /\ Known /\ Waits /\ Alone /\ (\A t \in Callers : Reached(t)) /\ Final

LEMMA Threads ==
  /\ Plc # Operator /\ NoThread \notin Retry
  /\ Thread = Callers \cup Retry /\ Callers \cap Retry = {}
  BY DEF Plc, Operator, NoThread, Retry, Thread, Callers

LEMMA CallInit == Init => CallInv
<1> SUFFICES ASSUME Init PROVE CallInv
  OBVIOUS
<1>1. /\ \A r \in Retry : pc[r] = "dead"
      /\ \A t \in Callers : pc[t] = "idle"
      /\ pc \in [Thread -> {"dead", "idle"}]
  BY Threads DEF Init
<1>2. /\ job \in [Thread -> Job] /\ awaits = [t \in Thread |-> NoThread] /\ retryRef = NoThread
      /\ shutting = FALSE /\ outlived = {}
  BY DEF Init, Job
<1>3. ThreadTypes
  BY <1>1, <1>2 DEF ThreadTypes, CallerPlace, RetryPlace
<1>4. Known /\ Waits /\ Final
  BY <1>1, <1>2 DEF Known, Waits, Final, Busy
<1>5. Alone
  BY <1>1 DEF Alone, Callers
<1>6. \A t \in Callers : Reached(t)
  BY <1>1 DEF Reached, Leaves, Cancelling, Connecting, Halting
<1> QED
  BY <1>3, <1>4, <1>5, <1>6 DEF CallInv

(* A step that moves neither a caller nor a retry.                         *)
LEMMA Bystander ==
  ASSUME CallInv,
         UNCHANGED <<pc, job, awaits, retryRef, outlived, asked, shutting, stopEvent, client>>
  PROVE  CallInv'
<1>1. ThreadTypes' /\ Known' /\ Waits' /\ Alone'
  BY DEF CallInv, ThreadTypes, Known, Waits, Alone, Busy
<1>2. (OnlyOutlived <=> OnlyOutlived') /\ (Revived <=> Revived')
  BY DEF OnlyOutlived, Revived, Busy
<1>3. \A t \in Callers : Reached(t)'
  BY <1>2 DEF CallInv, Reached, Leaves, Busy
<1>4. Final'
  BY <1>2 DEF CallInv, Final, NobodyLeaves, Spent
<1> QED
  BY <1>1, <1>3, <1>4 DEF CallInv

(* A retry goes on. While a shutdown stands it is one that outlived its    *)
(* join: it ends, or it publishes a client and has revived the camera.     *)
LEMMA RetryGoesOn ==
  ASSUME CallInv, NEW r \in Retry, NEW w \in RetryPlace, Busy(r), pc' = [pc EXCEPT ![r] = w],
         UNCHANGED <<job, awaits, retryRef, asked, shutting>>,
         outlived' = outlived \/ (w = "dead" /\ pc[r] # "spawn" /\ outlived' = outlived \ {r}),
         pc[r] = "spawn" => w = "dead",
         w = "spawn" \/ (stopEvent' = stopEvent /\ client' \in {client, 0})
  PROVE  CallInv'
<1>1. /\ r \in Thread /\ r \notin Callers /\ pc'[r] = w
      /\ \A t \in Thread : t # r => pc'[t] = pc[t]
      /\ \A t \in Callers : t \in Thread /\ pc'[t] = pc[t]
  BY Threads DEF CallInv, ThreadTypes
<1>2. ThreadTypes'
  BY <1>1, Threads DEF CallInv, ThreadTypes, RetryPlace
<1>3. \A q \in Retry : Busy(q)' => Busy(q) /\ (q \in outlived => q \in outlived')
  BY <1>1, Threads DEF Busy
<1>4. Known' /\ Waits' /\ Alone'
  BY <1>1, <1>3 DEF CallInv, Known, Waits, Alone, Callers
<1>5. OnlyOutlived => OnlyOutlived'
  BY <1>3 DEF OnlyOutlived
<1>6. Revived => Revived'
  <2> SUFFICES ASSUME Revived PROVE Revived'
    OBVIOUS
  <2>1. PICK q \in outlived : pc[q] \in {"spawn", "dead"}
    BY DEF Revived
  <2>2. q \in Thread /\ (q = r => w = "dead" /\ outlived' = outlived)
    BY <2>1, Threads DEF CallInv, ThreadTypes, Busy
  <2>3. q \in outlived' /\ pc'[q] \in {"spawn", "dead"}
    BY <1>1, <2>1, <2>2
  <2> QED
    BY <2>3 DEF Revived
<1>7. OnlyOutlived /\ w = "spawn" => Revived'
  <2> SUFFICES ASSUME OnlyOutlived, w = "spawn" PROVE Revived'
    OBVIOUS
  <2>1. r \in outlived /\ outlived' = outlived
    BY DEF OnlyOutlived
  <2> QED
    BY <1>1, <2>1 DEF Revived
<1>8. \A t \in Callers : Reached(t)'
  <2> SUFFICES ASSUME NEW t \in Callers PROVE Reached(t)'
    OBVIOUS
  <2>1. Reached(t) /\ pc'[t] = pc[t] /\ (Leaves(t)' <=> Leaves(t))
    BY <1>1 DEF CallInv, Leaves
  <2>2. pc[t] \in Halting => OnlyOutlived
    BY <2>1 DEF Reached
  <2>3. pc[t] \in {"threads", "close"} => Revived' \/ stopEvent'
    BY <1>6, <1>7, <2>1, <2>2 DEF Reached, Halting
  <2>4. Leaves(t) /\ pc[t] # "cancel" =>
          \A q \in Retry : Busy(q)' => awaits'[t] = q \/ q \in outlived'
    BY <1>3, <2>1 DEF Reached
  <2> QED
    BY <1>5, <2>1, <2>3, <2>4 DEF Reached
<1>9. Final'
  <2> SUFFICES ASSUME shutting', NobodyLeaves' PROVE Spent'
    BY DEF Final
  <2>1. Spent
    BY <1>1 DEF CallInv, Final, NobodyLeaves
  <2> QED
    BY <1>5, <1>6, <1>7, <2>1 DEF Spent
<1> QED
  BY <1>2, <1>4, <1>8, <1>9 DEF CallInv

(* A caller moves, and no retry does.                                      *)
LEMMA CallerMoves ==
  ASSUME CallInv, NEW t \in Callers, NEW w \in CallerPlace, pc' = [pc EXCEPT ![t] = w],
         \A o \in Callers : o # t => pc[o] = "idle",
         NEW a \in Retry \cup {NoThread}, awaits' = [awaits EXCEPT ![t] = a],
         a = NoThread \/ w \in {"signal", "join"},
         retryRef' \in Retry \cup {NoThread}, outlived' \subseteq Retry, Known',
         job' \in [Thread -> Job], Alone', Reached(t)', w \in Leaving \/ Final'
  PROVE  CallInv'
<1>1. /\ t \in Thread /\ t \notin Retry /\ pc'[t] = w
      /\ \A o \in Thread : o # t => pc'[o] = pc[o]
  BY Threads DEF CallInv, ThreadTypes
<1>2. \A r \in Retry : r \in Thread /\ pc'[r] = pc[r]
  BY <1>1, Threads
<1>3. /\ awaits' \in [Thread -> Retry \cup {NoThread}]
      /\ \A o \in Thread : awaits'[o] = IF o = t THEN a ELSE awaits[o]
  BY <1>1 DEF CallInv, ThreadTypes
<1>4. ThreadTypes'
  BY <1>1, <1>2, <1>3, Threads DEF CallInv, ThreadTypes
<1>5. Waits'
  BY <1>1, <1>3 DEF CallInv, Waits
<1>6. \A o \in Callers : o # t => Reached(o)'
  <2> SUFFICES ASSUME NEW o \in Callers, o # t PROVE Reached(o)'
    OBVIOUS
  <2>1. pc'[o] = "idle"
    BY <1>1, Threads
  <2> QED
    BY <2>1 DEF Reached, Leaves, Cancelling, Connecting, Halting
<1>7. Final'
  BY <1>1 DEF Final, NobodyLeaves
<1> QED
  BY <1>4, <1>5, <1>6, <1>7 DEF CallInv

(* While nobody leaves, what a disconnect has achieved stays.              *)
LEMMA FinalStays ==
  ASSUME CallInv, NobodyLeaves, \A r \in Retry : pc'[r] = pc[r],
         UNCHANGED <<outlived, stopEvent, client, shutting>>
  PROVE  Final'
<1>1. outlived \subseteq Retry /\ (shutting => Spent)
  BY DEF CallInv, ThreadTypes, Final
<1>2. (OnlyOutlived <=> OnlyOutlived') /\ (Revived <=> Revived')
  BY <1>1 DEF OnlyOutlived, Revived, Busy
<1> QED
  BY <1>1, <1>2 DEF Final, Spent

(* It waits for nobody.                                                    *)
LEMMA CallerGoesOn ==
  ASSUME CallInv, NEW t \in Callers, NEW w \in CallerPlace, pc' = [pc EXCEPT ![t] = w],
         \A o \in Callers : o # t => pc[o] = "idle",
         UNCHANGED <<awaits, retryRef>>, awaits[t] = NoThread \/ w \in {"signal", "join"},
         outlived' \subseteq Retry, \A r \in outlived : Busy(r) => r \in outlived',
         job' \in [Thread -> Job], Alone', Reached(t)', w \in Leaving \/ Final'
  PROVE  CallInv'
<1>1. /\ awaits[t] \in Retry \cup {NoThread} /\ awaits' = [awaits EXCEPT ![t] = awaits[t]]
      /\ retryRef' \in Retry \cup {NoThread}
  BY Threads DEF CallInv, ThreadTypes
<1>2. \A r \in Retry : pc'[r] = pc[r]
  BY Threads DEF CallInv, ThreadTypes
<1>3. Known'
  BY <1>2 DEF CallInv, Known, Busy
<1> QED
  BY <1>1, <1>3, CallerMoves

(* A retry is scheduled: by a thread that was connecting, or by none of    *)
(* them.                                                                   *)
LEMMA Scheduled ==
  ASSUME CallInv, NEW r \in Retry, pc[r] = "dead", ~Alive(retryRef), ~shutting,
         NEW go \in [Thread -> CallerPlace \cup RetryPlace],
         \A q \in Retry : (go[q] = pc[q]) \/ (Busy(q) /\ go[q] = "loop"),
         \A t \in Callers : (go[t] = pc[t]) \/ (pc[t] = "schedule" /\ go[t] = "idle"),
         pc' = [go EXCEPT ![r] = "loop"], retryRef' = r, outlived' = outlived \ {r},
         UNCHANGED <<job, awaits, asked, shutting>>
  PROVE  CallInv'
<1>1. /\ r \in Thread /\ \A q \in Thread : pc'[q] = IF q = r THEN "loop" ELSE go[q]
      /\ pc' \in [Thread -> CallerPlace \cup RetryPlace]
      /\ \A t \in Callers : t \in Thread /\ t # r
      /\ \A q \in Retry : q \in Thread
  BY Threads DEF RetryPlace
<1>2. ThreadTypes'
  BY <1>1, Threads DEF CallInv, ThreadTypes, RetryPlace, CallerPlace
<1>3. Known'
  <2> SUFFICES ASSUME NEW q \in Retry, Busy(q)', q # r
                  PROVE  q \in outlived \/ \E t \in Callers : awaits[t] = q
    BY DEF Known
  <2>1. Busy(q)
    BY <1>1 DEF Busy
  <2>2. q # retryRef
    BY <2>1, Threads DEF Alive, Busy
  <2> QED
    BY <2>1, <2>2 DEF CallInv, Known
<1>4. \A t \in Callers : pc'[t] = pc[t] \/ (pc[t] = "schedule" /\ pc'[t] = "idle")
  BY <1>1
<1>5. Waits'
  BY <1>4 DEF CallInv, Waits
<1>6. Alone'
  BY <1>4 DEF CallInv, Alone, Callers
<1>7. \A t \in Callers : Reached(t)'
  <2> SUFFICES ASSUME NEW t \in Callers PROVE Reached(t)'
    OBVIOUS
  <2>1. Reached(t)
    BY DEF CallInv
  <2>2. pc[t] \notin Halting /\ ~Leaves(t)
    BY <2>1 DEF Reached
  <2>3. CASE pc'[t] = pc[t]
    BY <2>1, <2>2, <2>3 DEF Reached, Leaves, Halting
  <2>4. CASE pc'[t] = "idle"
    BY <2>4 DEF Reached, Leaves, Cancelling, Connecting, Halting
  <2> QED
    BY <1>4, <2>3, <2>4
<1>8. Final'
  BY DEF Final
<1> QED
  BY <1>2, <1>3, <1>5, <1>6, <1>7, <1>8 DEF CallInv

LEMMA OneCaller ==
  ASSUME CallInv, NEW t \in Callers, pc[t] # "idle"
  PROVE  \A o \in Callers : o # t => pc[o] = "idle"
  BY DEF CallInv, Alone, Callers

LEMMA CaptureSchedulesKeeps ==
  ASSUME CallInv, NEW c \in Stream, CaptureSchedules(c) PROVE CallInv'
<1>1. /\ UNCHANGED <<job, awaits, asked, shutting, stopEvent, client>>
      /\ Schedule(pc)
  BY DEF CaptureSchedules, calls, gates
<1>2. CASE pc' = pc /\ UNCHANGED <<retryRef, outlived>>
  BY <1>1, <1>2, Bystander
<1>3. CASE /\ ~shutting /\ ~Alive(retryRef)
           /\ \E r \in Retry : /\ pc[r] = "dead" /\ retryRef' = r
                             /\ outlived' = outlived \ {r} /\ pc' = [pc EXCEPT ![r] = "loop"]
  <2>1. pc \in [Thread -> CallerPlace \cup RetryPlace]
    BY DEF CallInv, ThreadTypes
  <2> QED
    BY <1>1, <1>3, <2>1, Scheduled
<1> QED
  BY <1>1, <1>2, <1>3 DEF Schedule, retries

LEMMA ScheduleRetryKeeps ==
  ASSUME CallInv, NEW t \in Thread, ScheduleRetry(t) PROVE CallInv'
<1> DEFINE w == IF t \in Retry THEN "loop" ELSE "idle"
           go == [pc EXCEPT ![t] = w]
<1>1. /\ UNCHANGED <<job, awaits, asked, shutting, stopEvent, client>>
      /\ pc[t] = "schedule" /\ Schedule(go)
  BY DEF ScheduleRetry, At, calls, gates
<1>2. /\ go \in [Thread -> CallerPlace \cup RetryPlace] /\ go[t] = w
      /\ \A q \in Thread : q # t => go[q] = pc[q]
  BY DEF CallInv, ThreadTypes, CallerPlace, RetryPlace
<1>3. t \in Retry => Busy(t)
  BY <1>1 DEF Busy
<1>4. t \in Callers => t \notin Retry /\ ~shutting
  BY <1>1, Threads DEF CallInv, Reached, Connecting
<1>5. CASE pc' = go /\ UNCHANGED <<retryRef, outlived>>
  <2>1. CASE t \in Retry
    <3>1. w \in RetryPlace /\ w = "loop"
      BY <2>1 DEF RetryPlace
    <3> QED
      BY <1>1, <1>3, <1>5, <2>1, <3>1, RetryGoesOn
  <2>2. CASE t \in Callers
    <3>1. w = "idle" /\ w \in CallerPlace /\ pc'[t] = "idle"
      BY <1>2, <1>4, <1>5, <2>2 DEF CallerPlace
    <3>2. Reached(t)'
      BY <3>1 DEF Reached, Leaves, Cancelling, Connecting, Halting
    <3>3. awaits[t] = NoThread
      BY <1>1, <2>2 DEF CallInv, Waits
    <3>4. Final'
      BY <1>1, <1>4, <2>2 DEF Final
    <3>5. \A o \in Callers : o # t => pc[o] = "idle"
      BY <1>1, <2>2, OneCaller
    <3>6. Alone'
      BY <1>1, <1>2, <1>5, <2>2, <3>1, <3>5, Threads DEF CallInv, Alone, Callers
    <3>7. job' \in [Thread -> Job] /\ outlived' \subseteq Retry
      BY <1>1, <1>5 DEF CallInv, ThreadTypes
    <3> QED
      BY <1>1, <1>5, <2>2, <3>1, <3>2, <3>3, <3>4, <3>5, <3>6, <3>7, CallerGoesOn
  <2> QED
    BY <2>1, <2>2, Threads
<1>6. CASE /\ ~shutting /\ ~Alive(retryRef)
           /\ \E r \in Retry : /\ pc[r] = "dead" /\ retryRef' = r
                             /\ outlived' = outlived \ {r} /\ pc' = [go EXCEPT ![r] = "loop"]
  <2>1. \A q \in Retry : go[q] = pc[q] \/ (Busy(q) /\ go[q] = "loop")
    BY <1>2, <1>3, Threads
  <2>2. \A o \in Callers : go[o] = pc[o] \/ (pc[o] = "schedule" /\ go[o] = "idle")
    BY <1>1, <1>2, <1>4, Threads
  <2> HIDE DEF go
  <2> QED
    BY <1>1, <1>2, <1>6, <2>1, <2>2, Scheduled
<1> QED
  BY <1>1, <1>5, <1>6 DEF Schedule, retries

(* The steps of a retry but for the scheduling of another.                 *)
LEMMA RetryKeeps ==
  ASSUME CallInv, NEW r \in Retry, Works(r) \/ RetryLoop(r), ~ScheduleRetry(r) PROVE CallInv'
<1>1. pc[r] \in RetryPlace /\ r \in Thread
  BY Threads DEF CallInv, ThreadTypes
<1>2. ~(Ask(r) \/ Cancel(r) \/ Signal(r) \/ Join(r) \/ Disconnects(r))
  BY <1>1
     DEF Ask, Cancel, Signal, Join, Disconnects, Leave, Halt, JoinThreads, CloseClient, At, RetryPlace
<1>3. DialWorks(r) \/ DialFails(r) \/ Publish(r) \/ Spawn(r) \/ RetryLoop(r)
  BY <1>2 DEF Works, Connects
<1>4. Busy(r) /\ UNCHANGED <<job, awaits, retryRef, asked, shutting>>
  <2>1. Busy(r)
    BY <1>3 DEF DialWorks, DialFails, Publish, Spawn, RetryLoop, At, Busy
  <2>2. UNCHANGED <<job, awaits, retryRef, asked, shutting>>
    BY <1>3 DEF DialWorks, DialFails, Publish, Spawn, RetryLoop, flags, calls, retries
  <2> QED
    BY <2>1, <2>2
<1>5. CASE DialWorks(r) \/ DialFails(r)
  <2>1. PICK w \in {"publish", "schedule"} : pc' = [pc EXCEPT ![r] = w]
    BY <1>5 DEF DialWorks, DialFails, Goto
  <2>2. UNCHANGED <<outlived, stopEvent>> /\ client' \in {client, 0} /\ pc[r] # "spawn"
    BY <1>5 DEF DialWorks, DialFails, At, retries, gates
  <2>3. w \in RetryPlace
    BY DEF RetryPlace
  <2> QED
    BY <1>4, <2>1, <2>2, <2>3, RetryGoesOn
<1>6. CASE Publish(r)
  <2>1. pc' = [pc EXCEPT ![r] = "spawn"] /\ UNCHANGED outlived /\ pc[r] # "spawn"
    BY <1>6 DEF Publish, Goto, At, retries
  <2>2. "spawn" \in RetryPlace
    BY DEF RetryPlace
  <2> QED
    BY <1>4, <2>1, <2>2, RetryGoesOn
<1>7. CASE Spawn(r)
  <2>1. pc' = [pc EXCEPT ![r] = "dead"] /\ UNCHANGED <<outlived, stopEvent, client>>
    BY <1>7 DEF Spawn, Goto, retries, gates
  <2>2. "dead" \in RetryPlace
    BY DEF RetryPlace
  <2> QED
    BY <1>4, <2>1, <2>2, RetryGoesOn
<1>8. CASE RetryLoop(r)
  <2>1. pc[r] # "spawn" /\ UNCHANGED <<stopEvent, client>>
    BY <1>8 DEF RetryLoop, At, gates
  <2>2. \/ pc' = [pc EXCEPT ![r] = "dead"] /\ outlived' = outlived \ {r}
        \/ pc' = [pc EXCEPT ![r] = "dial"] /\ outlived' = outlived
    BY <1>8 DEF RetryLoop, Dials, Goto
  <2>3. "dead" \in RetryPlace /\ "dial" \in RetryPlace
    BY DEF RetryPlace
  <2> QED
    BY <1>4, <2>1, <2>2, <2>3, RetryGoesOn
<1> QED
  BY <1>3, <1>5, <1>6, <1>7, <1>8

(* The PLC thread goes on while the operator is idle.                      *)
LEMMA PlcGoesOn ==
  ASSUME CallInv, NEW w \in CallerPlace, pc' = [pc EXCEPT ![Plc] = w], pc[Operator] = "idle",
         UNCHANGED <<awaits, retryRef, outlived>>, pc[Plc] \notin {"signal", "join"},
         job' \in [Thread -> Job], Reached(Plc)', w \in Leaving \/ Final'
  PROVE  CallInv'
<1>1. Plc \in Callers /\ Plc \in Thread /\ \A o \in Callers : o # Plc => pc[o] = "idle"
  BY Threads DEF Callers
<1>2. awaits[Plc] = NoThread
  BY <1>1 DEF CallInv, Waits
<1>3. Operator \in Thread /\ pc'[Operator] = "idle"
  BY Threads DEF CallInv, ThreadTypes, Callers
<1>4. Alone' /\ outlived' \subseteq Retry
  BY <1>3 DEF Alone, CallInv, ThreadTypes
<1> QED
  BY <1>1, <1>2, <1>4, CallerGoesOn

(* A step of the PLC thread outside a disconnect keeps what an earlier one *)
(* has achieved.                                                           *)
LEMMA PlcStays ==
  ASSUME CallInv, NEW w \in CallerPlace, pc' = [pc EXCEPT ![Plc] = w],
         pc[Operator] = "idle", pc[Plc] \notin Leaving,
         UNCHANGED <<outlived, stopEvent, client, shutting>>
  PROVE  Final'
<1>1. NobodyLeaves
  BY DEF NobodyLeaves, Callers, Leaving, Cancelling, Halting
<1>2. \A r \in Retry : pc'[r] = pc[r]
  BY Threads DEF CallInv, ThreadTypes, Callers
<1> QED
  BY <1>1, <1>2, FinalStays

LEMMA TriggerKeeps == CallInv /\ Trigger => CallInv'
<1> SUFFICES ASSUME CallInv, Trigger PROVE CallInv'
  OBVIOUS
<1>1. /\ pc[Plc] = "idle" /\ asked < MaxAsked
      /\ UNCHANGED <<awaits, retryRef, outlived, shutting, stopEvent, client>>
  BY DEF Trigger, At, flags, retries, gates
<1>2. asked # MaxAsked
  BY <1>1, CameraConstants
<1>3. pc[Operator] = "idle"
  BY <1>2 DEF CallInv, Alone
<1>5. Plc \in Thread /\ pc \in [Thread -> CallerPlace \cup RetryPlace] /\ job \in [Thread -> Job]
  BY Threads DEF CallInv, ThreadTypes, Callers
<1>6. PICK w \in {"go", "leave", "ask"} :
        /\ pc' = [pc EXCEPT ![Plc] = w]
        /\ job' \in [Thread -> Job]
        /\ w = "leave" => job'[Plc] = "disconnect"
        /\ w = "ask" => job'[Plc] = "connect"
  <2>1. CASE Healthy
    BY <1>5, <2>1 DEF Trigger, Goto
  <2>2. CASE ~Healthy /\ connected
    BY <1>5, <2>2 DEF Trigger, Goto, Job
  <2>3. CASE ~Healthy /\ ~connected
    BY <1>5, <2>3 DEF Trigger, Goto, Job
  <2> QED
    BY <2>1, <2>2, <2>3
<1>7. w \in CallerPlace /\ w # "idle" /\ pc'[Plc] = w
  BY <1>5, <1>6 DEF CallerPlace
<1>8. Reached(Plc)'
  BY <1>1, <1>6, <1>7 DEF Reached, Leaves, Cancelling, Connecting, Halting
<1>9. Final'
  BY <1>1, <1>3, <1>6, <1>7, PlcStays DEF Leaving, Cancelling, Halting
<1> QED
  BY <1>1, <1>3, <1>6, <1>7, <1>8, <1>9, PlcGoesOn

(* Where the operator's thread never is, the PLC thread is alone.          *)
LEMMA OfPlc ==
  ASSUME CallInv, NEW t \in Callers, pc[t] \in {"ask", "go", "resume"} \cup Connecting
  PROVE  /\ t = Plc /\ pc[Operator] = "idle" /\ Plc \in Thread
         /\ pc \in [Thread -> CallerPlace \cup RetryPlace] /\ job \in [Thread -> Job]
  BY Threads DEF CallInv, Alone, Callers, ThreadTypes, Cancelling, Connecting, Halting

LEMMA AskKeeps == ASSUME CallInv, NEW t \in Callers, Ask(t) PROVE CallInv'
<1>1. pc[t] = "ask" /\ UNCHANGED <<awaits, retryRef, outlived, job, asked, stopEvent, client>>
  BY DEF Ask, At, retries, calls, gates
<1>2. /\ t = Plc /\ pc[Operator] = "idle" /\ Plc \in Thread
      /\ pc \in [Thread -> CallerPlace \cup RetryPlace] /\ job' \in [Thread -> Job]
  BY <1>1, OfPlc
<1>3. job[Plc] = "connect"
  BY <1>1, <1>2 DEF CallInv, Reached, Callers
<1>4. CASE threadAlive
  <2>1. pc' = [pc EXCEPT ![Plc] = "go"] /\ pc'[Plc] = "go" /\ UNCHANGED shutting
    BY <1>2, <1>4 DEF Ask, Connected, Goto
  <2>2. Reached(Plc)'
    BY <2>1 DEF Reached, Leaves, Cancelling, Connecting, Halting
  <2>3. "go" \in CallerPlace
    BY DEF CallerPlace
  <2>4. Final'
    BY <1>1, <1>2, <2>1, <2>3, PlcStays DEF Leaving, Cancelling, Halting
  <2> QED
    BY <1>1, <1>2, <2>1, <2>2, <2>3, <2>4, PlcGoesOn
<1>5. CASE ~threadAlive
  <2>1. pc' = [pc EXCEPT ![Plc] = "cancel"] /\ pc'[Plc] = "cancel" /\ ~shutting'
    BY <1>2, <1>5 DEF Ask, Goto
  <2>2. Reached(Plc)'
    BY <1>1, <1>3, <2>1 DEF Reached, Leaves, Cancelling, Connecting, Halting
  <2>3. "cancel" \in CallerPlace /\ "cancel" \in Leaving
    BY DEF CallerPlace, Cancelling, Leaving
  <2> QED
    BY <1>1, <1>2, <2>1, <2>2, <2>3, PlcGoesOn
<1> QED
  BY <1>4, <1>5

(* A connect goes on, from the dial to the capture thread.                 *)
LEMMA ConnectKeeps ==
  ASSUME CallInv, NEW t \in Callers, DialWorks(t) \/ DialFails(t) \/ Publish(t) \/ Spawn(t)
  PROVE  CallInv'
<1>1. pc[t] \in Connecting /\ UNCHANGED <<awaits, retryRef, outlived, job, asked, shutting>>
  <2>1. pc[t] \in Connecting
    BY DEF DialWorks, DialFails, Publish, Spawn, At, Connecting
  <2>2. UNCHANGED <<awaits, retryRef, outlived, job, asked, shutting>>
    BY DEF DialWorks, DialFails, Publish, Spawn, flags, retries, calls
  <2> QED
    BY <2>1, <2>2
<1>2. /\ t = Plc /\ pc[Operator] = "idle" /\ Plc \in Thread /\ Plc \notin Retry
      /\ pc \in [Thread -> CallerPlace \cup RetryPlace] /\ job' \in [Thread -> Job]
      /\ pc[Plc] \notin {"signal", "join"}
  BY <1>1, OfPlc, Threads DEF Connecting
<1>3. ~shutting
  BY <1>1, <1>2 DEF CallInv, Reached, Callers
<1>4. \E w \in {"go"} \cup Connecting : pc' = [pc EXCEPT ![Plc] = w]
  BY <1>2 DEF DialWorks, DialFails, Publish, Spawn, Connected, Goto, Connecting
<1>5. PICK w \in {"go"} \cup Connecting : pc' = [pc EXCEPT ![Plc] = w]
  BY <1>4
<1>6. pc'[Plc] = w /\ w \in CallerPlace
  BY <1>2, <1>5 DEF CallerPlace
<1>7. Reached(Plc)'
  BY <1>1, <1>3, <1>6 DEF Reached, Leaves, Cancelling, Connecting, Halting
<1>8. Final'
  BY <1>1, <1>3 DEF Final
<1> QED
  BY <1>1, <1>2, <1>5, <1>6, <1>7, <1>8, PlcGoesOn

(* A trigger goes on to the start of the processing.                       *)
LEMMA GoKeeps == ASSUME CallInv, GoNowhere \/ Go \/ Resume PROVE CallInv'
<1>1. /\ pc[Plc] \in {"go", "resume"}
      /\ UNCHANGED <<awaits, retryRef, outlived, job, asked, shutting, stopEvent, client>>
  <2>1. pc[Plc] \in {"go", "resume"}
    BY DEF GoNowhere, Go, Resume, At
  <2>2. UNCHANGED <<awaits, retryRef, outlived, job, asked, shutting, stopEvent, client>>
    BY DEF GoNowhere, Go, Resume, flags, retries, calls, gates
  <2> QED
    BY <2>1, <2>2
<1>2. /\ pc[Operator] = "idle" /\ Plc \in Thread /\ Plc \in Callers
      /\ pc \in [Thread -> CallerPlace \cup RetryPlace] /\ job' \in [Thread -> Job]
  BY <1>1, OfPlc DEF Callers
<1>3. \E w \in {"idle", "resume"} : pc' = [pc EXCEPT ![Plc] = w]
  BY DEF GoNowhere, Go, Resume, Goto
<1>4. PICK w \in {"idle", "resume"} : pc' = [pc EXCEPT ![Plc] = w]
  BY <1>3
<1>5. pc'[Plc] = w /\ w \in CallerPlace
  BY <1>2, <1>4 DEF CallerPlace
<1>6. Reached(Plc)'
  BY <1>5 DEF Reached, Leaves, Cancelling, Connecting, Halting
<1>7. Final'
  BY <1>1, <1>2, <1>4, <1>5, PlcStays DEF Leaving, Cancelling, Halting
<1> QED
  BY <1>1, <1>2, <1>4, <1>5, <1>6, <1>7, PlcGoesOn

(* A disconnect may be the operator's.                                     *)
LEMMA EitherAlone ==
  ASSUME CallInv, NEW t \in Callers, pc[t] # "idle",
         NEW w \in {"idle", "dial"} \cup Cancelling \cup Halting, pc' = [pc EXCEPT ![t] = w],
         w = "dial" => t = Plc, UNCHANGED <<asked, job>>
  PROVE  Alone'
<1>1. Plc \in Thread /\ Operator \in Thread /\ Plc # Operator
  BY Threads DEF Callers
<1>2. CASE t = Plc
  <2>1. pc[Operator] = "idle"
    BY <1>1, <1>2, OneCaller DEF Callers
  <2> QED
    BY <1>1, <1>2, <2>1 DEF CallInv, ThreadTypes, Alone
<1>3. CASE t = Operator
  BY <1>1, <1>3 DEF CallInv, ThreadTypes, Alone
<1> QED
  BY <1>2, <1>3 DEF Callers

(* What the steps of cancelling and halting have in common.                *)
Settled(t) ==
  /\ t \in Thread /\ pc[t] # "idle" /\ Reached(t)
  /\ \A o \in Callers : o # t => pc[o] = "idle" /\ awaits[o] = NoThread
  /\ pc[t] \notin {"signal", "join"} => awaits[t] = NoThread
  /\ pc \in [Thread -> CallerPlace \cup RetryPlace] /\ job \in [Thread -> Job]
  /\ awaits \in [Thread -> Retry \cup {NoThread}]
  /\ job[t] # "disconnect" => job[t] = "connect" /\ t = Plc

LEMMA CancelFacts ==
  ASSUME CallInv, NEW t \in Callers, pc[t] \in {"leave"} \cup Cancelling \cup Halting
  PROVE  Settled(t)
<1>1. t \in Thread /\ pc[t] # "idle" /\ Reached(t)
  BY Threads DEF CallInv, Cancelling, Halting
<1>2. \A o \in Callers : o # t => pc[o] = "idle" /\ awaits[o] = NoThread
  BY <1>1, OneCaller, Threads DEF CallInv, Waits
<1>3. job[t] # "disconnect" => job[t] = "connect" /\ t = Plc
  BY <1>1 DEF CallInv, ThreadTypes, Job, Alone, Callers
<1> QED
  BY <1>1, <1>2, <1>3 DEF CallInv, ThreadTypes, Waits, Settled

LEMMA LeaveKeeps == ASSUME CallInv, NEW t \in Callers, Leave(t) PROVE CallInv'
<1>1. /\ pc[t] = "leave" /\ pc' = [pc EXCEPT ![t] = "cancel"] /\ shutting' = TRUE
      /\ UNCHANGED <<awaits, retryRef, job, asked>>
      /\ outlived' = {r \in outlived : pc[r] # "dead"}
  BY DEF Leave, At, Goto, calls
<1>2. Settled(t)
  BY <1>1, CancelFacts
<1> USE DEF Settled
<1>3. /\ pc'[t] = "cancel" /\ job[t] = "disconnect"
      /\ "cancel" \in CallerPlace /\ "cancel" \in Leaving
  BY <1>1, <1>2 DEF Reached, CallerPlace, Cancelling, Leaving
<1>4. Reached(t)'
  BY <1>1, <1>3 DEF Reached, Leaves, Cancelling, Connecting, Halting
<1>5. Alone'
  BY <1>1, <1>2, EitherAlone DEF Cancelling
<1>6. outlived' \subseteq Retry /\ \A r \in outlived : Busy(r) => r \in outlived'
  BY <1>1 DEF CallInv, ThreadTypes, Busy
<1> QED
  BY <1>1, <1>2, <1>3, <1>4, <1>5, <1>6, CallerGoesOn

LEMMA CancelKeeps == ASSUME CallInv, NEW t \in Callers, Cancel(t) PROVE CallInv'
<1>1. /\ pc[t] = "cancel" /\ pc' = [pc EXCEPT ![t] = "signal"]
      /\ awaits' = [awaits EXCEPT ![t] = retryRef] /\ retryRef' = NoThread
      /\ UNCHANGED <<job, asked, shutting, outlived>>
  BY DEF Cancel, At, Goto, flags, calls
<1>2. Settled(t)
  BY <1>1, CancelFacts DEF Cancelling
<1> USE DEF Settled
<1>3. /\ pc'[t] = "signal" /\ awaits[t] = NoThread
      /\ "signal" \in CallerPlace /\ "signal" \in Leaving
  BY <1>1, <1>2 DEF CallerPlace, Cancelling, Leaving
<1>4. awaits'[t] = retryRef /\ \A r \in Retry : pc'[r] = pc[r]
  BY <1>1, <1>2, Threads
<1>5. \A r \in Retry : Busy(r) => r = retryRef \/ r \in outlived
  BY <1>2, <1>3, Threads DEF CallInv, Known
<1>6. Known'
  BY <1>1, <1>4, <1>5 DEF Known, Busy
<1>7. Reached(t)'
  <2>1. \A r \in Retry : Busy(r)' => awaits'[t] = r \/ r \in outlived'
    BY <1>1, <1>4, <1>5 DEF Busy
  <2>2. Leaves(t)' => shutting'
    BY <1>1, <1>2 DEF Reached, Leaves, Cancelling
  <2> QED
    BY <1>1, <1>2, <1>3, <2>1, <2>2 DEF Reached, Leaves, Cancelling, Connecting, Halting
<1>8. Alone'
  BY <1>1, <1>2, EitherAlone DEF Cancelling
<1>9. /\ retryRef \in Retry \cup {NoThread} /\ retryRef' \in Retry \cup {NoThread}
      /\ outlived' \subseteq Retry
  BY <1>1 DEF CallInv, ThreadTypes
<1> QED
  BY <1>1, <1>2, <1>3, <1>6, <1>7, <1>8, <1>9, CallerMoves

LEMMA SignalKeeps == ASSUME CallInv, NEW t \in Callers, Signal(t) PROVE CallInv'
<1>1. /\ pc[t] = "signal" /\ pc' = [pc EXCEPT ![t] = "join"]
      /\ UNCHANGED <<awaits, retryRef, outlived, job, asked, shutting>>
  BY DEF Signal, At, Goto, flags, calls
<1>2. Settled(t)
  BY <1>1, CancelFacts DEF Cancelling
<1> USE DEF Settled
<1>3. /\ pc'[t] = "join" /\ \A r \in Retry : pc'[r] = pc[r]
      /\ "join" \in CallerPlace /\ "join" \in Leaving
  BY <1>1, <1>2, Threads DEF CallerPlace, Cancelling, Leaving
<1>4. Reached(t)'
  BY <1>1, <1>2, <1>3 DEF Reached, Leaves, Cancelling, Connecting, Halting, Busy
<1>5. Alone' /\ outlived' \subseteq Retry
  BY <1>1, <1>2, EitherAlone DEF Cancelling, CallInv, ThreadTypes
<1> QED
  BY <1>1, <1>2, <1>3, <1>4, <1>5, CallerGoesOn

LEMMA JoinKeeps == ASSUME CallInv, NEW t \in Callers, Join(t) PROVE CallInv'
<1> DEFINE w == IF job[t] = "connect" THEN "dial" ELSE "halt"
<1>1. /\ pc[t] = "join" /\ pc' = [pc EXCEPT ![t] = w]
      /\ awaits' = [awaits EXCEPT ![t] = NoThread]
      /\ outlived' = IF Alive(awaits[t]) THEN outlived \cup {awaits[t]} ELSE outlived
      /\ UNCHANGED <<retryRef, job, asked, shutting>>
  BY DEF Join, Cancelled, Dials, At, Goto
<1>2. Settled(t)
  BY <1>1, CancelFacts DEF Cancelling
<1> USE DEF Settled
<1>3. pc'[t] = w /\ w \in CallerPlace /\ w \in {"dial", "halt"}
  BY <1>1, <1>2 DEF CallerPlace, Connecting, Halting
<1>4. \A r \in Retry : pc'[r] = pc[r] /\ (Busy(r) /\ awaits[t] = r => r \in outlived')
  BY <1>1, <1>2, Threads DEF Alive, Busy
<1>5. outlived \subseteq outlived' /\ outlived' \subseteq Retry
  BY <1>1, <1>2 DEF CallInv, ThreadTypes, Alive
<1>6. Known'
  <2>1. \A r \in Retry : Busy(r) => r = retryRef \/ r \in outlived'
    BY <1>2, <1>4, <1>5, Threads DEF CallInv, Known
  <2> QED
    BY <1>1, <1>4, <2>1 DEF Known, Busy
<1>7. CASE job[t] = "connect"
  <2>1. ~shutting /\ pc'[t] = "dial"
    BY <1>1, <1>2, <1>3, <1>7 DEF Reached, Cancelling
  <2>2. Reached(t)' /\ Final'
    BY <1>1, <2>1 DEF Reached, Leaves, Cancelling, Connecting, Halting, Final
  <2>3. Alone' /\ w = "dial"
    BY <1>1, <1>2, <1>7, EitherAlone
  <2>4. retryRef' \in Retry \cup {NoThread} /\ NoThread \in Retry \cup {NoThread}
    BY <1>1 DEF CallInv, ThreadTypes
  <2> HIDE DEF w
  <2> QED
    BY <1>1, <1>2, <1>3, <1>5, <1>6, <2>2, <2>3, <2>4, CallerMoves
<1>8. CASE job[t] # "connect"
  <2>1. Leaves(t) /\ pc'[t] = "halt" /\ w = "halt" /\ "halt" \in Leaving
    BY <1>1, <1>2, <1>3, <1>8 DEF Leaves, Cancelling, Halting, Leaving
  <2>2. shutting /\ \A r \in Retry : Busy(r) => awaits[t] = r \/ r \in outlived
    BY <1>1, <1>2, <2>1 DEF Reached
  <2>3. OnlyOutlived'
    BY <1>4, <1>5, <2>2 DEF OnlyOutlived, Busy
  <2>4. Reached(t)'
    BY <1>1, <2>1, <2>2, <2>3 DEF Reached, Leaves, Cancelling, Connecting, Halting
  <2>5. Alone'
    BY <1>1, <1>2, <2>1, EitherAlone DEF Halting
  <2>6. retryRef' \in Retry \cup {NoThread} /\ NoThread \in Retry \cup {NoThread}
    BY <1>1 DEF CallInv, ThreadTypes
  <2> HIDE DEF w
  <2> QED
    BY <1>1, <1>2, <1>3, <1>5, <1>6, <2>1, <2>4, <2>5, <2>6, CallerMoves
<1> QED
  BY <1>7, <1>8

(* The threads are told to stop, joined, and the client closed.            *)
LEMMA HaltKeeps ==
  ASSUME CallInv, NEW t \in Callers, Halt(t) \/ JoinThreads(t) PROVE CallInv'
<1>1. PICK w \in {"threads", "close"} : pc' = [pc EXCEPT ![t] = w]
  BY DEF Halt, JoinThreads, Goto
<1>2. pc[t] \in Halting /\ UNCHANGED <<awaits, retryRef, outlived, job, asked, shutting>>
  <2>1. pc[t] \in Halting
    BY DEF Halt, JoinThreads, At, Halting
  <2>2. UNCHANGED <<awaits, retryRef, outlived, job, asked, shutting>>
    BY DEF Halt, JoinThreads, flags, retries, calls
  <2> QED
    BY <2>1, <2>2
<1>3. Settled(t)
  BY <1>2, CancelFacts
<1> USE DEF Settled
<1>4. /\ pc[t] \notin {"signal", "join"} /\ pc'[t] = w /\ w \in CallerPlace /\ w \in Leaving
      /\ outlived \subseteq Retry /\ \A r \in Retry : pc'[r] = pc[r]
  BY <1>1, <1>2, <1>3, Threads DEF CallerPlace, Halting, Leaving, CallInv, ThreadTypes
<1>5. Revived' \/ stopEvent'
  <2>1. CASE Halt(t)
    BY <2>1 DEF Halt
  <2>2. CASE JoinThreads(t)
    <3>1. Revived \/ stopEvent
      BY <1>3, <2>2 DEF JoinThreads, At, Reached
    <3>2. Revived => Revived'
      BY <1>2, <1>4 DEF Revived
    <3>3. stopEvent' = stopEvent
      BY <2>2 DEF JoinThreads, gates
    <3> QED
      BY <3>1, <3>2, <3>3
  <2> QED
    BY <2>1, <2>2
<1>6. shutting /\ OnlyOutlived'
  BY <1>2, <1>3, <1>4 DEF Reached, OnlyOutlived, Busy
<1>7. Reached(t)'
  BY <1>1, <1>2, <1>4, <1>5, <1>6 DEF Reached, Leaves, Cancelling, Connecting, Halting
<1>8. Alone'
  BY <1>1, <1>2, <1>3, EitherAlone DEF Halting
<1> QED
  BY <1>1, <1>2, <1>3, <1>4, <1>7, <1>8, CallerGoesOn

LEMMA CloseClientKeeps == ASSUME CallInv, NEW t \in Callers, CloseClient(t) PROVE CallInv'
<1>1. /\ pc[t] = "close" /\ client' = 0
      /\ UNCHANGED <<awaits, retryRef, outlived, asked, shutting, stopEvent>>
  BY DEF CloseClient, At, retries, gates
<1>2. Settled(t)
  BY <1>1, CancelFacts DEF Halting
<1> USE DEF Settled
<1>3. shutting /\ OnlyOutlived /\ (Revived \/ stopEvent) /\ outlived \subseteq Retry
  BY <1>1, <1>2 DEF Reached, Halting, CallInv, ThreadTypes
<1>4. PICK w \in {"ask", "idle"} : pc' = [pc EXCEPT ![t] = w]
  BY DEF CloseClient, Goto
<1>5. \A r \in Retry : pc'[r] = pc[r]
  BY <1>2, <1>4, Threads
<1>6. Final'
  <2>1. OnlyOutlived'
    BY <1>1, <1>3, <1>5 DEF OnlyOutlived, Busy
  <2>2. Revived => Revived'
    BY <1>1, <1>3, <1>5 DEF Revived
  <2> QED
    BY <1>1, <1>3, <2>1, <2>2 DEF Final, Spent
<1>7. CASE t = Plc
  <2>1. pc' = [pc EXCEPT ![Plc] = "ask"] /\ job' = [job EXCEPT ![Plc] = "connect"]
    BY <1>7 DEF CloseClient, Goto
  <2>2. pc'[Plc] = "ask" /\ job'[Plc] = "connect" /\ job' \in [Thread -> Job]
    BY <1>2, <1>7, <2>1 DEF Job
  <2>3. Reached(Plc)'
    BY <1>1, <2>2 DEF Reached, Leaves, Cancelling, Connecting, Halting
  <2>4. pc[Operator] = "idle" /\ "ask" \in CallerPlace
    BY <1>2, <1>7, Threads DEF Callers, CallerPlace
  <2> QED
    BY <1>1, <1>6, <1>7, <2>1, <2>2, <2>3, <2>4, PlcGoesOn
<1>8. CASE t # Plc
  <2>1. pc' = [pc EXCEPT ![t] = "idle"] /\ UNCHANGED job
    BY <1>8 DEF CloseClient, Goto
  <2>2. pc'[t] = "idle" /\ "idle" \in CallerPlace
    BY <1>2, <2>1 DEF CallerPlace
  <2>3. Reached(t)'
    BY <2>2 DEF Reached, Leaves, Cancelling, Connecting, Halting
  <2>4. Alone'
    BY <1>1, <1>2, <2>1, EitherAlone
  <2> QED
    BY <1>1, <1>2, <1>3, <1>6, <2>1, <2>2, <2>3, <2>4, CallerGoesOn
<1> QED
  BY <1>7, <1>8

LEMMA OrderKeeps == ASSUME ShutdownOnly, CallInv, Order PROVE CallInv'
<1>1. /\ pc[Operator] = "idle" /\ pc[Plc] = "idle" /\ asked' = MaxAsked
      /\ job' = [job EXCEPT ![Operator] = "disconnect"]
      /\ pc' = [pc EXCEPT ![Operator] = "leave"]
      /\ UNCHANGED <<awaits, retryRef, outlived, shutting, stopEvent, client>>
  BY DEF ShutdownOnly, Order, At, Goto, flags, retries, gates
<1>2. /\ Operator \in Callers /\ Operator \in Thread /\ Plc \in Thread /\ Plc # Operator
      /\ \A o \in Callers : o # Operator => pc[o] = "idle"
  BY <1>1, Threads DEF Callers
<1>3. /\ job' \in [Thread -> Job] /\ job'[Operator] = "disconnect"
      /\ pc'[Operator] = "leave" /\ pc'[Plc] = "idle" /\ awaits[Operator] = NoThread
  BY <1>1, <1>2 DEF CallInv, ThreadTypes, Waits, Job
<1>4. Final' /\ outlived' \subseteq Retry
  <2>1. NobodyLeaves
    BY <1>1 DEF NobodyLeaves, Callers, Leaving, Cancelling, Halting
  <2>2. \A r \in Retry : r \in Thread /\ r # Operator
    BY <1>2, Threads
  <2>3. \A r \in Retry : pc'[r] = pc[r]
    BY <1>1, <2>2 DEF CallInv, ThreadTypes
  <2> QED
    BY <1>1, <2>1, <2>3, FinalStays DEF CallInv, ThreadTypes
<1>5. Alone'
  BY <1>1, <1>3 DEF Alone
<1>6. Reached(Operator)'
  BY <1>1, <1>3 DEF Reached, Leaves, Cancelling, Connecting, Halting
<1>7. "leave" \in CallerPlace
  BY DEF CallerPlace
<1> QED
  BY <1>1, <1>2, <1>3, <1>4, <1>5, <1>6, <1>7, CallerGoesOn

LEMMA CallStep == ShutdownOnly /\ CallInv /\ [Next]_vars => CallInv'
<1> SUFFICES ASSUME ShutdownOnly, CallInv, [Next]_vars PROVE CallInv'
  OBVIOUS
<1>1. CASE Collect \/ CaptureReleased \/ StreamPauses \/ UNCHANGED vars
  <2>1. UNCHANGED <<pc, job, awaits, retryRef, outlived, asked, shutting, stopEvent, client>>
    BY <1>1 DEF Collect, CaptureReleased, StreamPauses, vars, flags, gates, retries, calls
  <2> QED
    BY <2>1, Bystander
<1>2. CASE GoNowhere \/ Go \/ Resume
  BY <1>2, GoKeeps
<1>3. ASSUME NEW t \in Thread, Works(t) PROVE CallInv'
  <2>1. CASE ScheduleRetry(t)
    BY <2>1, ScheduleRetryKeeps
  <2>2. CASE t \in Retry /\ ~ScheduleRetry(t)
    BY <1>3, <2>2, RetryKeeps
  <2>3. CASE t \in Callers /\ ~ScheduleRetry(t)
    BY <1>3, <2>3, AskKeeps, CancelKeeps, SignalKeeps, JoinKeeps, ConnectKeeps, LeaveKeeps,
       HaltKeeps, CloseClientKeeps DEF Works, Connects, Disconnects
  <2> QED
    BY <2>1, <2>2, <2>3, Threads
<1>4. ASSUME NEW r \in Retry, RetryLoop(r) PROVE CallInv'
  <2>1. ~ScheduleRetry(r)
    BY <1>4 DEF RetryLoop, ScheduleRetry, At
  <2> QED
    BY <1>4, <2>1, RetryKeeps
<1>5. ASSUME NEW c \in Stream, Captures(c) \/ GoodFrame(c) \/ MissedFrame(c) \/ InferenceEnds(c)
      PROVE  CallInv'
  <2>1. CASE CaptureSchedules(c)
    BY <2>1, CaptureSchedulesKeeps
  <2>2. CASE ~CaptureSchedules(c)
    <3>1. UNCHANGED <<pc, job, awaits, retryRef, outlived, asked, shutting, stopEvent, client>>
      BY <1>5, <2>2
         DEF Captures, CaptureStarts, GiveUp, CaptureStopped, CaptureEnds, CaptureWraps, GoodFrame,
             MissedFrame, InferenceEnds, flags, gates, retries, calls
    <3> QED
      BY <3>1, Bystander
  <2> QED
    BY <2>1, <2>2
<1> QED
  BY <1>1, <1>2, <1>3, <1>4, <1>5, TriggerKeeps, OrderKeeps DEF Next

(* After a disconnect no retry is left but those that outlived their join, *)
(* and until one of them connects the threads have been told to stop and   *)
(* the client is closed, whatever was being dialled or retried; when the   *)
(* only order is the shutdown of the service.                              *)
THEOREM ShutdownFinal == Spec => [](ShutdownOnly => ShutdownIsFinal)
<1> DEFINE Inv == ShutdownOnly => CallInv
<1>1. Init => Inv
  BY CallInit
<1>2. Inv /\ [Next]_vars => Inv'
  BY CallStep DEF ShutdownOnly
<1>3. Inv => (ShutdownOnly => ShutdownIsFinal)
  <2> SUFFICES ASSUME CallInv, shutting, CallersDone PROVE Spent
    BY DEF ShutdownIsFinal, Spent, OnlyOutlived
  <2>1. NobodyLeaves
    BY DEF CallersDone, NobodyLeaves, Busy, Callers, Leaving, Cancelling, Halting
  <2> QED
    BY <2>1 DEF CallInv, Final
<1> QED
  BY <1>1, <1>2, <1>3, PTL DEF Spec
=============================================================================
