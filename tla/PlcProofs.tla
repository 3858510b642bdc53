------------------------------ MODULE PlcProofs ------------------------------
(***************************************************************************)
(* The properties of PlcSafety hold for every number of edges and all      *)
(* settings.  The inductive invariant IInv adds to the type what the poll  *)
(* thread knows at each of its steps.                                      *)
(***************************************************************************)
EXTENDS PlcSafety, TLAPS

(* The sample the poll thread holds has been compared with _last_state.    *)
Handled == \/ poll.pc \in {"idle", "start", "stop", "notify"}
           \/ poll.pc = "ack" /\ poll.ackLast

(* A rising edge that has been sampled and not yet answered by on_start.   *)
Pending == poll.pc = "start" \/ (~Handled /\ poll.value = 1 /\ lastState = 0)

Sampled == /\ poll.pc # "idle" => prev = poll.value
           /\ Handled => lastState = prev
           /\ poll.pc = "start" => poll.value = 1
           /\ poll.pc = "decide" => ~poll.ackLast

Counted == /\ starts + (IF Pending THEN 1 ELSE 0) <= edges
           /\ set.pulse => starts + (IF Pending THEN 1 ELSE 0) = edges
           /\ edges + (IF signal = 1 /\ prev = 0 THEN 1 ELSE 0) <= rises
           /\ begun <= starts

(* The poll thread has a sample and has not called on_start for it. *)
InHand == ~Handled \/ poll.pc = "start"

(* Cycles are opened one after the other. *)
Fresh == \A c \in Cycle : c > begun => cycles[c] = "none"

(* With the minimum interval a cycle begins when all others are over. *)
Alone ==
  ~set.overlap =>
    /\ \A c \in Cycle : c # begun => Over(c)
    /\ poll.quiet /\ InHand => \A c \in Cycle : Over(c)

(* Then the handshake of an open cycle cannot be that of a finalized one. *)
OwnHandshake ==
  set.pulse /\ ~set.overlap =>
    /\ begun # 0 /\ cycles[begun] \in {"open", "closing", "ready"} => ~Finalized
    /\ poll.pc = "start" /\ poll.quiet => ~Finalized
    /\ poll.pc = "stop" /\ begun # 0 => cycles[begun] # "open"

(* A level session is open while its signal is on. *)
LevelHeld ==
  ~set.pulse /\ ~set.hold /\ begun # 0 /\ cycles[begun] = "open"
    => lastState = 1 \/ poll.pc = "stop"

IInv == /\ TypeOK /\ Sampled /\ Counted /\ Fresh /\ Alone /\ OwnHandshake
        /\ LevelHeld /\ ResultReadyPasses
-----------------------------------------------------------------------------
(* The sets of steps the proofs tell apart. *)

(* The capture, the acknowledgement deadline and the connection. *)
Outside == PlateLeaves \/ AckDeadlinePasses \/ Connect \/ ReadFails

Line == SignalChanges

Finalizers == \E c \in Cycle : FinalizerClaims(c) \/ FinalizerCommits(c)

Read == ReadAtStartup \/ ReadSignal

BeforeEdge == PulseTeardown \/ LevelTeardown \/ NoTeardown \/ CheckAck

Edge == NoEdge \/ Rise \/ RiseDisarmed \/ FallOfPulse \/ FallOfLevel

Callbacks == OnStart \/ OnStop \/ OnStopReturns

(* Every step is one of these. *)
LEMMA Steps ==
  Next => \/ Outside \/ Line \/ Finalizers \/ Notify \/ Read \/ BeforeEdge
          \/ Edge \/ Callbacks
BY DEF Next, Environment, Notify, Poll, Outside, Line, Finalizers, Read,
       BeforeEdge, Edge, Callbacks

-----------------------------------------------------------------------------
(* The type in two parts, flags and data. *)
Flags == /\ connected \in BOOLEAN /\ armed \in BOOLEAN
         /\ firstPoll \in BOOLEAN /\ waitingOff \in BOOLEAN
         /\ ackTimedOut \in BOOLEAN /\ teardown \in BOOLEAN

Data ==
  /\ set \in Settings /\ signal \in Level /\ rises \in 0 .. MaxRises
  /\ poll \in [pc : {"idle", "decide", "ack", "edge", "start", "stop", "notify"},
               value : Level, ackLast : BOOLEAN, quiet : BOOLEAN]
  /\ lastState \in Level /\ hstate \in Handshake
  /\ ack \in {"none", "running", "expired"}
  /\ cycles \in [Cycle -> {"none", "open", "closing", "ready", "flag",
                           "waiting", "done"}]
  /\ begun \in {0} \cup Cycle /\ capture \in {0} \cup Cycle
  /\ prev \in Level /\ edges \in Nat /\ starts \in Nat

LEMMA TypeParts == TypeOK <=> Flags /\ Data
BY DEF TypeOK, Flags, Data

(* The initial states. *)
LEMMA InitOk == Init => IInv
<1> SUFFICES ASSUME Init PROVE IInv OBVIOUS
<1> USE PlcConstants DEF Init, IdlePoll
<1>1. Flags BY Zenon DEF Flags
<1>2. Data BY DEF Data, Cycle, Level, Handshake
<1>3. Sampled /\ Counted BY DEF Sampled, Counted, Handled, Pending, Level
<1>4. Fresh /\ Alone BY DEF Fresh, Alone, InHand, Handled, Over
<1>5. OwnHandshake /\ LevelHeld /\ ResultReadyPasses
  BY DEF OwnHandshake, LevelHeld, ResultReadyPasses, Finalized
<1> QED BY <1>1, <1>2, <1>3, <1>4, <1>5, TypeParts DEF IInv

-----------------------------------------------------------------------------
(* The flags stay flags. *)
LEMMA FlagStep ==
  ASSUME Flags, Next PROVE Flags'
<1> USE DEF Flags, physical, edgeVars, startupVars, ackVars, PollStep
<1>1. CASE Outside
  BY <1>1, Zenon DEF Outside, PlateLeaves, AckDeadlinePasses, Connect, ReadFails
<1>2. CASE Line BY <1>2, Zenon DEF Line, SignalChanges
<1>3. CASE Finalizers
  BY <1>3, Zenon DEF Finalizers, FinalizerClaims, FinalizerCommits
<1>4. CASE Notify
  BY <1>4, Zenon DEF Notify, NotifyReady, NotifyFlag, NotifyWaiting
<1>5. CASE Read BY <1>5, Zenon DEF Read, ReadAtStartup, ReadSignal
<1>6. CASE BeforeEdge
  BY <1>6, Zenon DEF BeforeEdge, PulseTeardown, LevelTeardown, NoTeardown,
                     CheckAck
<1>7. CASE Edge
  BY <1>7, Zenon DEF Edge, NoEdge, Rise, RiseDisarmed, FallOfPulse, FallOfLevel
<1>8. CASE Callbacks
  BY <1>8, Zenon DEF Callbacks, OnStart, OnStop, OnStopReturns
<1> QED BY Steps, <1>1, <1>2, <1>3, <1>4, <1>5, <1>6, <1>7, <1>8

(* The data keep their type: the cycle plc_on opens is one of Cycle because every   *)
(* cycle has an edge of its own.                                            *)
LEMMA DataStep ==
  ASSUME Data, Sampled, Counted, Next PROVE Data'
<1> USE PlcConstants DEF Data, Level, Handshake, Settings
<1> USE DEF physical, edgeVars, startupVars, ackVars, cycleVars, history
<1>1. CASE Outside
  BY <1>1 DEF Outside, PlateLeaves, AckDeadlinePasses, Connect, ReadFails
<1>2. CASE Line BY <1>2 DEF Line, SignalChanges
<1>3. CASE Finalizers
  BY <1>3 DEF Finalizers, FinalizerClaims, FinalizerCommits, CycleStep
<1>4. CASE Notify
  BY <1>4 DEF Notify, NotifyReady, NotifyFlag, NotifyWaiting, CycleStep
<1>5. CASE Read
  <2>1. CASE ReadAtStartup BY <2>1 DEF ReadAtStartup
  <2>2. CASE ReadSignal
    <3> DEFINE q == \A c \in Cycle : Over(c)
    <3>1. q \in BOOLEAN OBVIOUS
    <3>2. poll' = [pc |-> "decide", value |-> signal, ackLast |-> FALSE, quiet |-> q]
      BY <2>2 DEF ReadSignal, IdlePoll
    <3> HIDE DEF q
    <3>3. poll' \in [pc : {"idle", "decide", "ack", "edge", "start", "stop", "notify"},
                     value : Level, ackLast : BOOLEAN, quiet : BOOLEAN]
      BY <3>1, <3>2
    <3> QED BY <2>2, <3>3 DEF ReadSignal
  <2> QED BY <1>5, <2>1, <2>2 DEF Read
<1>6. CASE BeforeEdge
  <2> DEFINE next(p) == [poll EXCEPT !.pc = p, !.ackLast = TRUE]
  <2>0. \A p \in {"edge", "stop"} : next(p) \in
          [pc : {"idle", "decide", "ack", "edge", "start", "stop", "notify"},
           value : Level, ackLast : BOOLEAN, quiet : BOOLEAN]
    OBVIOUS
  <2>5. PulseTeardown => poll' = next("edge") BY Zenon DEF PulseTeardown
  <2>6. LevelTeardown => poll' = next("stop") BY Zenon DEF LevelTeardown
  <2> HIDE DEF next
  <2>1. CASE PulseTeardown BY <2>0, <2>1, <2>5 DEF PulseTeardown
  <2>2. CASE LevelTeardown BY <2>0, <2>2, <2>6 DEF LevelTeardown
  <2>3. CASE NoTeardown BY <2>3 DEF NoTeardown, PollStep
  <2>4. CASE CheckAck BY <2>4 DEF CheckAck, PollStep
  <2> QED BY <1>6, <2>1, <2>2, <2>3, <2>4 DEF BeforeEdge
<1>7. CASE Edge
  <2> USE DEF PollStep, AfterEdge
  <2>1. CASE NoEdge BY <2>1 DEF NoEdge
  <2>2. CASE Rise BY <2>2 DEF Rise
  <2>3. CASE RiseDisarmed BY <2>3 DEF RiseDisarmed
  <2>4. CASE FallOfPulse BY <2>4 DEF FallOfPulse
  <2>5. CASE FallOfLevel BY <2>5 DEF FallOfLevel
  <2> QED BY <1>7, <2>1, <2>2, <2>3, <2>4, <2>5 DEF Edge
<1>8. CASE Callbacks
  <2>1. CASE OnStart
    <3>1. begun + 1 \in Cycle
      BY <2>1 DEF OnStart, Counted, Pending, Handled, Cycle
    <3> QED BY <2>1, <3>1 DEF OnStart, CycleStep, PollStep, AfterEdge
  <2>2. CASE OnStop
    BY <2>2 DEF OnStop, CycleStep, PollStep, AfterEdge
  <2>3. CASE OnStopReturns BY <2>3 DEF OnStopReturns, PollStep, AfterEdge
  <2> QED BY <1>8, <2>1, <2>2, <2>3 DEF Callbacks
<1> QED BY Steps, <1>1, <1>2, <1>3, <1>4, <1>5, <1>6, <1>7, <1>8

-----------------------------------------------------------------------------
(* What the poll thread knows of its sample: only Read and Edge change what *)
(* Sampled speaks of, and the teardown of a level.                          *)
LEMMA SampledStep ==
  ASSUME Data, Sampled, Next PROVE Sampled'
<1> USE DEF Data, Sampled, Handled, Level
<1> USE DEF physical, edgeVars, startupVars, ackVars, cycleVars, history
<1>1. CASE Outside
  BY <1>1 DEF Outside, PlateLeaves, AckDeadlinePasses, Connect, ReadFails
<1>2. CASE Line BY <1>2 DEF Line, SignalChanges
<1>3. CASE Finalizers
  BY <1>3 DEF Finalizers, FinalizerClaims, FinalizerCommits
<1>4. CASE Notify
  BY <1>4 DEF Notify, NotifyReady, NotifyFlag, NotifyWaiting
<1>5. CASE Read BY <1>5 DEF Read, ReadAtStartup, ReadSignal, IdlePoll
<1>6. CASE BeforeEdge
  <2>1. CASE PulseTeardown BY <2>1 DEF PulseTeardown
  <2>2. CASE LevelTeardown BY <2>2 DEF LevelTeardown
  <2>3. CASE NoTeardown BY <2>3 DEF NoTeardown, PollStep
  <2>4. CASE CheckAck BY <2>4 DEF CheckAck, PollStep
  <2> QED BY <1>6, <2>1, <2>2, <2>3, <2>4 DEF BeforeEdge
<1>7. CASE Edge
  <2> USE DEF PollStep, AfterEdge
  <2>1. CASE NoEdge BY <2>1 DEF NoEdge
  <2>2. CASE Rise BY <2>2 DEF Rise
  <2>3. CASE RiseDisarmed BY <2>3 DEF RiseDisarmed
  <2>4. CASE FallOfPulse
    <3>1. /\ poll.value = 0 /\ poll.pc = "edge" /\ lastState' = 0 /\ prev' = prev
          /\ poll'.value = poll.value /\ poll'.pc \notin {"start", "decide"}
      BY <2>4 DEF FallOfPulse
    <3> QED BY <3>1
  <2>5. CASE FallOfLevel BY <2>5 DEF FallOfLevel
  <2> QED BY <1>7, <2>1, <2>2, <2>3, <2>4, <2>5 DEF Edge
<1>8. CASE Callbacks
  BY <1>8 DEF Callbacks, OnStart, OnStop, OnStopReturns, PollStep, AfterEdge
<1> QED BY Steps, <1>1, <1>2, <1>3, <1>4, <1>5, <1>6, <1>7, <1>8

(* The count of edges and starts. *)
LEMMA CountedStep ==
  ASSUME Data, Sampled, Counted, Next PROVE Counted'
<1> USE DEF Data, Sampled, Counted, Pending, Handled, Level
<1> USE DEF physical, edgeVars, startupVars, ackVars, cycleVars, history
<1>1. CASE Outside
  BY <1>1 DEF Outside, PlateLeaves, AckDeadlinePasses, Connect, ReadFails
<1>2. CASE Line BY <1>2 DEF Line, SignalChanges
<1>3. CASE Finalizers
  BY <1>3 DEF Finalizers, FinalizerClaims, FinalizerCommits
<1>4. CASE Notify
  BY <1>4 DEF Notify, NotifyReady, NotifyFlag, NotifyWaiting
<1>5. CASE Read
  <2>1. CASE ReadAtStartup BY <2>1 DEF ReadAtStartup
  <2>2. CASE ReadSignal
    <3>1. /\ lastState = prev /\ ~Pending
          /\ Pending' <=> signal = 1 /\ prev = 0
      BY <2>2 DEF ReadSignal, IdlePoll
    <3>2. edges' = edges + (IF prev = 0 THEN signal ELSE 0) /\ prev' = signal
      BY <2>2 DEF ReadSignal
    <3> QED BY <2>2, <3>1, <3>2 DEF ReadSignal
  <2> QED BY <1>5, <2>1, <2>2 DEF Read
<1>6. CASE BeforeEdge
  <2>1. CASE PulseTeardown BY <2>1 DEF PulseTeardown
  <2>2. CASE LevelTeardown BY <2>2 DEF LevelTeardown
  <2>3. CASE NoTeardown
    <3>1. Pending' <=> Pending BY <2>3 DEF NoTeardown, PollStep
    <3> HIDE DEF Pending
    <3> QED BY <2>3, <3>1 DEF NoTeardown, PollStep
  <2>4. CASE CheckAck BY <2>4 DEF CheckAck, PollStep
  <2> QED BY <1>6, <2>1, <2>2, <2>3, <2>4 DEF BeforeEdge
<1>7. CASE Edge
  <2> USE DEF PollStep, AfterEdge
  <2>1. CASE NoEdge BY <2>1 DEF NoEdge
  <2>2. CASE Rise BY <2>2 DEF Rise
  <2>3. CASE RiseDisarmed BY <2>3 DEF RiseDisarmed
  <2>4. CASE FallOfPulse BY <2>4 DEF FallOfPulse, Finalized
  <2>5. CASE FallOfLevel BY <2>5 DEF FallOfLevel
  <2> QED BY <1>7, <2>1, <2>2, <2>3, <2>4, <2>5 DEF Edge
<1>8. CASE Callbacks
  <2> USE DEF PollStep, AfterEdge
  <2>1. CASE OnStart
    <3>1. Pending /\ ~Pending' BY <2>1 DEF OnStart
    <3>2. begun' \in {begun, begun + 1} BY <2>1 DEF OnStart
    <3>3. begun \in Nat BY PlcConstants DEF Cycle
    <3> HIDE DEF Pending
    <3> QED BY <2>1, <3>1, <3>2, <3>3 DEF OnStart
  <2>2. CASE OnStop BY <2>2 DEF OnStop
  <2>3. CASE OnStopReturns BY <2>3 DEF OnStopReturns
  <2> QED BY <1>8, <2>1, <2>2, <2>3 DEF Callbacks
<1> QED BY Steps, <1>1, <1>2, <1>3, <1>4, <1>5, <1>6, <1>7, <1>8

-----------------------------------------------------------------------------
(* Only OnStart and the threads that close cycles move the cycles. *)
Serving == SignalChanges \/ Outside \/ Read \/ BeforeEdge \/ Edge

LEMMA ServingKeepsCycles == Serving => UNCHANGED <<cycles, begun>>
<1> USE DEF cycleVars, PollStep
<1>1. Outside => UNCHANGED <<cycles, begun>>
  BY DEF Outside, PlateLeaves, AckDeadlinePasses, Connect, ReadFails
<1>2. Read => UNCHANGED <<cycles, begun>>
  BY DEF Read, ReadAtStartup, ReadSignal
<1>3. BeforeEdge => UNCHANGED <<cycles, begun>>
  BY DEF BeforeEdge, PulseTeardown, LevelTeardown, NoTeardown, CheckAck
<1>4. Edge => UNCHANGED <<cycles, begun>>
  BY DEF Edge, NoEdge, Rise, RiseDisarmed, FallOfPulse, FallOfLevel
<1> QED BY <1>1, <1>2, <1>3, <1>4 DEF Serving, SignalChanges

(* The other steps move one cycle, from a stage to the next. *)
LEMMA CycleMoves ==
  ASSUME Data, Counted, Finalizers \/ Notify \/ Callbacks
  PROVE  \/ UNCHANGED <<cycles, begun>>
         \/ /\ OnStart /\ begun + 1 \in Cycle /\ begun' = begun + 1
            /\ cycles' = [cycles EXCEPT ![begun + 1] = "open"]
         \/ /\ OnStop /\ begun \in Cycle /\ cycles[begun] = "open"
            /\ ~set.hold /\ poll'.pc = "notify"
            /\ cycles' = [cycles EXCEPT ![begun] = "ready"] /\ begun' = begun
         \/ /\ ~Callbacks /\ begun' = begun
            /\ \E c \in Cycle, next \in {"closing", "ready", "flag", "waiting", "done"} :
                 /\ ~Over(c) /\ cycles' = [cycles EXCEPT ![c] = next]
<1> USE PlcConstants DEF cycleVars, CycleStep, Over
<1>1. CASE OnStart
  <2>1. begun + 1 \in Cycle
    BY <1>1 DEF OnStart, Data, Counted, Pending, Handled, Cycle
  <2> QED BY <1>1, <2>1 DEF OnStart
<1>2. CASE OnStop BY <1>2 DEF OnStop, PollStep, Data
<1>3. CASE OnStopReturns BY <1>3 DEF OnStopReturns
<1>4. CASE Finalizers /\ ~Callbacks
  BY <1>4 DEF Finalizers, FinalizerClaims, FinalizerCommits
<1>5. CASE Notify /\ ~Callbacks
  BY <1>5 DEF Notify, NotifyReady, NotifyFlag, NotifyWaiting
<1> QED BY <1>1, <1>2, <1>3, <1>4, <1>5 DEF Callbacks

LEMMA FreshStep ==
  ASSUME Data, Counted, Fresh, Next PROVE Fresh'
<1> USE PlcConstants DEF Fresh, Data, Cycle
<1>1. CASE Serving BY <1>1, ServingKeepsCycles
<1>2. CASE Finalizers \/ Notify \/ Callbacks
  BY <1>2, CycleMoves DEF Over
<1> QED BY <1>1, <1>2, Steps DEF Serving, Line

-----------------------------------------------------------------------------
(* A sample in hand is the one that was read with its mark "quiet". *)
LEMMA InHandStep ==
  ASSUME Data, Sampled, Next, InHand', ~ReadSignal
  PROVE  InHand /\ poll'.quiet = poll.quiet
<1> USE DEF Data, InHand, Handled, Sampled, physical
<1>1. CASE Outside \/ ReadAtStartup
  BY <1>1 DEF Outside, PlateLeaves, AckDeadlinePasses, Connect, ReadFails,
              ReadAtStartup
<1>2. CASE Line BY <1>2 DEF Line, SignalChanges
<1>3. CASE Finalizers
  BY <1>3 DEF Finalizers, FinalizerClaims, FinalizerCommits
<1>4. CASE Notify
  BY <1>4 DEF Notify, NotifyReady, NotifyFlag, NotifyWaiting
<1>5. CASE BeforeEdge
  <2>1. CASE PulseTeardown BY <2>1 DEF PulseTeardown
  <2>2. CASE LevelTeardown BY <2>2 DEF LevelTeardown
  <2>3. CASE NoTeardown BY <2>3 DEF NoTeardown, PollStep
  <2>4. CASE CheckAck BY <2>4 DEF CheckAck, PollStep
  <2> QED BY <1>5, <2>1, <2>2, <2>3, <2>4 DEF BeforeEdge
<1>6. CASE Edge
  <2> USE DEF PollStep, AfterEdge
  <2>1. CASE NoEdge BY <2>1 DEF NoEdge
  <2>2. CASE Rise BY <2>2 DEF Rise
  <2>3. CASE RiseDisarmed BY <2>3 DEF RiseDisarmed
  <2>4. CASE FallOfPulse
    <3>1. poll.pc = "edge" /\ poll'.quiet = poll.quiet BY <2>4 DEF FallOfPulse
    <3> QED BY <3>1
  <2>5. CASE FallOfLevel BY <2>5 DEF FallOfLevel
  <2> QED BY <1>6, <2>1, <2>2, <2>3, <2>4, <2>5 DEF Edge
<1>7. CASE Callbacks
  <2> USE DEF PollStep, AfterEdge
  <2>1. CASE OnStart BY <2>1 DEF OnStart
  <2>2. CASE OnStop BY <2>2 DEF OnStop
  <2>3. CASE OnStopReturns BY <2>3 DEF OnStopReturns
  <2> QED BY <1>7, <2>1, <2>2, <2>3 DEF Callbacks
<1> QED BY Steps, <1>1, <1>2, <1>3, <1>4, <1>5, <1>6, <1>7 DEF Read

(* The settings never change. *)
LEMMA SettingsKept == Next => set' = set
<1> USE DEF physical, PollStep
<1>1. Outside \/ Line \/ Read => set' = set
  BY DEF Outside, PlateLeaves, AckDeadlinePasses, Connect, ReadFails, Line,
         SignalChanges, Read, ReadAtStartup, ReadSignal
<1>2. Finalizers \/ Notify => set' = set
  BY DEF Finalizers, FinalizerClaims, FinalizerCommits, Notify, NotifyReady,
         NotifyFlag, NotifyWaiting
<1>3. BeforeEdge => set' = set
  BY DEF BeforeEdge, PulseTeardown, LevelTeardown, NoTeardown, CheckAck
<1>4. Edge => set' = set
  BY DEF Edge, NoEdge, Rise, RiseDisarmed, FallOfPulse, FallOfLevel
<1>5. Callbacks => set' = set
  BY DEF Callbacks, OnStart, OnStop, OnStopReturns
<1> QED BY Steps, <1>1, <1>2, <1>3, <1>4, <1>5

LEMMA AloneStep ==
  ASSUME Data, Sampled, Counted, Alone, Next PROVE Alone'
<1> SUFFICES ASSUME ~set.overlap PROVE Alone' BY SettingsKept DEF Alone
<1> DEFINE AllOver == \A c \in Cycle : Over(c)
<1>1. CASE Serving
  <2>1. (\A c \in Cycle : c # begun' => Over(c)') /\ (AllOver' <=> AllOver)
    BY <1>1, ServingKeepsCycles DEF Alone, Over
  <2>2. ASSUME poll'.quiet, InHand' PROVE AllOver
    <3>1. CASE ReadSignal BY <2>2, <3>1 DEF ReadSignal, IdlePoll
    <3>2. CASE ~ReadSignal BY <2>2, <3>2, InHandStep DEF Alone
    <3> QED BY <3>1, <3>2
  <2> QED BY <2>1, <2>2 DEF Alone
<1>2. CASE OnStart /\ begun' # begun
  <2>1. AllOver BY <1>2 DEF OnStart, Alone, InHand, cycleVars
  <2>2. ~InHand'
    BY <1>2 DEF OnStart, InHand, Handled, PollStep, AfterEdge, Data
  <2>3. \A c \in Cycle : c # begun' => Over(c)'
    BY <1>2, <2>1, CycleMoves DEF Over, Callbacks, Data
  <2> QED BY <2>2, <2>3 DEF Alone
<1>3. CASE /\ Finalizers \/ Notify \/ Callbacks
           /\ ~Serving /\ ~(OnStart /\ begun' # begun)
  <2>1. UNCHANGED <<cycles, begun>> \/ ~AllOver
    BY <1>3, CycleMoves DEF Over, Data
  <2>2. \A c \in Cycle : c # begun' => Over(c)'
    BY <1>3, CycleMoves DEF Alone, Over, Data
  <2>3. poll'.quiet /\ InHand' => AllOver /\ InHand
    BY <1>3, InHandStep DEF Alone, Serving, Read
  <2> QED BY <2>1, <2>2, <2>3 DEF Alone, Over
<1> QED BY <1>1, <1>2, <1>3, Steps DEF Serving, Line

-----------------------------------------------------------------------------
(* In pulse mode with the minimum interval the handshake of a finalized     *)
(* session is never taken for that of the open one.                         *)
LEMMA OwnHandshakeStep ==
  ASSUME Data, Sampled, Counted, Alone, OwnHandshake, Next PROVE OwnHandshake'
<1> SUFFICES ASSUME set.pulse, ~set.overlap PROVE OwnHandshake'
  BY SettingsKept DEF OwnHandshake
<1> DEFINE Mine == begun # 0 /\ cycles[begun] \in {"open", "closing", "ready"}
<1> USE DEF Finalized, physical, edgeVars, ackVars, cycleVars, PollStep
<1>1. CASE Outside \/ Line
  BY <1>1 DEF OwnHandshake, Outside, PlateLeaves, AckDeadlinePasses, Connect,
              ReadFails, Line, SignalChanges
<1>0. CASE Read
  <2>1. UNCHANGED <<cycles, begun>> /\ (hstate' = hstate \/ hstate' = "BUSY")
    BY <1>0 DEF Read, ReadAtStartup, ReadSignal
  <2>2. CASE ReadAtStartup BY <2>1, <2>2 DEF ReadAtStartup, OwnHandshake
  <2>3. CASE ReadSignal
    <3>1. poll'.pc = "decide" BY <2>3 DEF ReadSignal, IdlePoll
    <3> QED BY <2>1, <3>1 DEF OwnHandshake
  <2> QED BY <1>0, <2>2, <2>3 DEF Read
<1>2. CASE BeforeEdge
  <2>1. CASE PulseTeardown BY <2>1 DEF PulseTeardown, OwnHandshake, Data
  <2>2. CASE LevelTeardown BY <2>2 DEF LevelTeardown
  <2>3. CASE NoTeardown BY <2>3 DEF NoTeardown, OwnHandshake, Data
  <2>4. CASE CheckAck BY <2>4 DEF CheckAck, OwnHandshake, Data
  <2> QED BY <1>2, <2>1, <2>2, <2>3, <2>4 DEF BeforeEdge
<1>3. CASE Edge
  <2> USE DEF AfterEdge, OwnHandshake, Data
  <2>1. CASE NoEdge BY <2>1 DEF NoEdge
  <2>2. CASE Rise BY <2>2 DEF Rise
  <2>3. CASE RiseDisarmed BY <2>3 DEF RiseDisarmed
  <2>4. CASE FallOfPulse BY <2>4 DEF FallOfPulse
  <2>5. CASE FallOfLevel BY <2>5 DEF FallOfLevel
  <2> QED BY <1>3, <2>1, <2>2, <2>3, <2>4, <2>5 DEF Edge
<1>4. CASE Callbacks
  <2> USE DEF AfterEdge, OwnHandshake
  <2>1. CASE OnStart
    <3>1. UNCHANGED <<begun, cycles>> \/ (poll.pc = "start" /\ poll.quiet)
      BY <2>1 DEF OnStart
    <3>2. hstate' = hstate /\ poll'.pc \notin {"start", "stop"}
      BY <2>1 DEF OnStart, Data
    <3> QED BY <3>1, <3>2
  <2>2. CASE OnStop
    <3>1. UNCHANGED <<begun, cycles>>
      BY <2>2 DEF OnStop
    <3>2. hstate' = hstate /\ poll'.pc \notin {"start", "stop"}
      BY <2>2 DEF OnStop, Data
    <3> QED BY <3>1, <3>2
  <2>3. CASE OnStopReturns BY <2>3 DEF OnStopReturns, Data
  <2> QED BY <1>4, <2>1, <2>2, <2>3 DEF Callbacks
<1>5. CASE (Finalizers \/ Notify) /\ ~Callbacks
  <2>1. PICK c \in Cycle : \/ FinalizerClaims(c) \/ FinalizerCommits(c)
                          \/ NotifyReady(c) \/ NotifyFlag(c) \/ NotifyWaiting(c)
    BY <1>5 DEF Finalizers, Notify
  <2>2. c = begun /\ ~(poll.quiet /\ poll.pc = "start")
    BY <2>1 DEF Alone, InHand, Over, FinalizerClaims, FinalizerCommits,
                NotifyReady, NotifyFlag, NotifyWaiting
  <2>3. poll' = poll /\ begun' = begun
    BY <2>1 DEF FinalizerClaims, FinalizerCommits, NotifyReady, NotifyFlag,
                NotifyWaiting
  <2>4. Mine' => Mine /\ hstate' = hstate
    BY <2>1, <2>2, <2>3 DEF FinalizerClaims, FinalizerCommits, NotifyReady,
                NotifyFlag, NotifyWaiting, CycleStep, Data
  <2>5. begun # 0 /\ cycles'[begun] = "open" => cycles[begun] = "open"
    BY <2>1, <2>2 DEF FinalizerClaims, FinalizerCommits, NotifyReady,
                NotifyFlag, NotifyWaiting, CycleStep, Data
  <2> QED BY <2>2, <2>3, <2>4, <2>5 DEF OwnHandshake
<1> QED BY <1>0, <1>1, <1>2, <1>3, <1>4, <1>5, Steps

(* In level mode without the hold the signal holds the session open. *)
LEMMA LevelHeldStep ==
  ASSUME Data, Sampled, Counted, LevelHeld, Next PROVE LevelHeld'
<1> SUFFICES ASSUME ~set.pulse, ~set.hold PROVE LevelHeld'
  BY SettingsKept DEF LevelHeld
<1> USE DEF LevelHeld, physical, edgeVars, ackVars, cycleVars, PollStep
<1>1. CASE Outside \/ Line \/ Read
  BY <1>1 DEF Outside, PlateLeaves, AckDeadlinePasses, Connect,
              ReadFails, Line, SignalChanges, Read, ReadAtStartup, ReadSignal
<1>2. CASE BeforeEdge
  <2>1. CASE PulseTeardown BY <2>1 DEF PulseTeardown
  <2>2. CASE LevelTeardown BY <2>2 DEF LevelTeardown, Data
  <2>3. CASE NoTeardown BY <2>3 DEF NoTeardown
  <2>4. CASE CheckAck BY <2>4 DEF CheckAck
  <2> QED BY <1>2, <2>1, <2>2, <2>3, <2>4 DEF BeforeEdge
<1>3. CASE Edge
  <2>1. CASE NoEdge BY <2>1 DEF NoEdge
  <2>2. CASE Rise BY <2>2 DEF Rise
  <2>3. CASE RiseDisarmed BY <2>3 DEF RiseDisarmed
  <2>4. CASE FallOfPulse BY <2>4 DEF FallOfPulse
  <2>5. CASE FallOfLevel BY <2>5 DEF FallOfLevel, Data
  <2> QED BY <1>3, <2>1, <2>2, <2>3, <2>4, <2>5 DEF Edge
<1>4. CASE OnStart
  <2>1. lastState = 1 /\ lastState' = lastState
    BY <1>4 DEF OnStart, Sampled, Handled
  <2> QED BY <2>1
<1>5. CASE OnStop BY <1>5 DEF OnStop, CycleStep, Data
<1>6. CASE OnStopReturns BY <1>6 DEF OnStopReturns
<1>7. CASE Finalizers
  BY <1>7 DEF Finalizers, FinalizerClaims, FinalizerCommits, CycleStep, Data
<1>8. CASE Notify
  BY <1>8 DEF Notify, NotifyReady, NotifyFlag, NotifyWaiting, CycleStep, Data
<1> QED BY <1>1, <1>2, <1>3, <1>4, <1>5, <1>6, <1>7, <1>8, Steps DEF Callbacks

-----------------------------------------------------------------------------
(* While the handshake says RESULT_READY, the thread that said so is on its *)
(* way to WAITING_ACK.                                                      *)
LEMMA ResultReadyStep ==
  ASSUME Data, Counted, Fresh, ResultReadyPasses, Next PROVE ResultReadyPasses'
<1> SUFFICES ASSUME hstate' = "RESULT_READY"
             PROVE  \E c \in Cycle : cycles'[c] \in {"flag", "waiting"}
  BY DEF ResultReadyPasses
<1> USE DEF physical, edgeVars, ackVars, cycleVars, PollStep
<1>1. CASE \E c \in Cycle : NotifyReady(c)
  BY <1>1 DEF NotifyReady, CycleStep, Data
<1>2. CASE \E c \in Cycle : NotifyWaiting(c) BY <1>2 DEF NotifyWaiting
<1>3. CASE \E c \in Cycle : NotifyFlag(c)
  BY <1>3 DEF NotifyFlag, CycleStep, Data
<1>4. CASE Outside \/ Line \/ Read
  BY <1>4 DEF ResultReadyPasses, Outside, PlateLeaves, AckDeadlinePasses,
              Connect, ReadFails, Line, SignalChanges, Read, ReadAtStartup,
              ReadSignal
<1>5. CASE BeforeEdge
  BY <1>5 DEF BeforeEdge, PulseTeardown, LevelTeardown, NoTeardown, CheckAck,
              ResultReadyPasses
<1>6. CASE Edge
  BY <1>6 DEF Edge, NoEdge, Rise, RiseDisarmed, FallOfPulse, FallOfLevel,
              ResultReadyPasses
<1>7. CASE Callbacks \/ Finalizers
  <2>1. hstate' = hstate
    BY <1>7 DEF Callbacks, OnStart, OnStop, OnStopReturns, Finalizers,
                FinalizerClaims, FinalizerCommits
  <2>2. PICK c \in Cycle : cycles[c] \in {"flag", "waiting"}
    BY <2>1 DEF ResultReadyPasses
  <2>3. cycles'[c] = cycles[c]
    <3>1. CASE OnStart
      <4>1. cycles[begun + 1] = "none" \/ begun + 1 \notin Cycle
        BY PlcConstants DEF Fresh, Data, Cycle
      <4> QED BY <2>2, <3>1, <4>1 DEF OnStart, CycleStep, Data
    <3>2. CASE OnStop BY <2>2, <3>2 DEF OnStop, CycleStep, Data
    <3>3. CASE OnStopReturns BY <3>3 DEF OnStopReturns
    <3>4. CASE Finalizers
      BY <2>2, <3>4 DEF Finalizers, FinalizerClaims, FinalizerCommits,
                        CycleStep, Data
    <3> QED BY <1>7, <3>1, <3>2, <3>3, <3>4 DEF Callbacks
  <2> QED BY <2>2, <2>3
<1> QED BY <1>1, <1>2, <1>3, <1>4, <1>5, <1>6, <1>7, Steps DEF Notify

-----------------------------------------------------------------------------
(* A step that changes nothing changes no part of the invariant. *)
LEMMA Stutters == IInv /\ UNCHANGED vars => IInv'
BY DEF IInv, TypeOK, Sampled, Counted, Fresh, Alone, OwnHandshake, LevelHeld,
       ResultReadyPasses, Handled, Pending, InHand, Over, Finalized, vars,
       physical, edgeVars, startupVars, ackVars, cycleVars, history

LEMMA Inductive == Spec => []IInv
<1>1. IInv /\ Next => IInv'
  <2> SUFFICES ASSUME IInv, Next PROVE IInv' OBVIOUS
  <2>1. Flags /\ Data BY TypeParts DEF IInv
  <2>2. TypeOK' BY <2>1, FlagStep, DataStep DEF IInv, TypeOK, Flags, Data
  <2>3. Sampled' /\ Counted' /\ Fresh'
    BY <2>1, SampledStep, CountedStep, FreshStep DEF IInv
  <2>4. Alone' /\ OwnHandshake'
    BY <2>1, AloneStep, OwnHandshakeStep DEF IInv
  <2>5. LevelHeld' /\ ResultReadyPasses'
    BY <2>1, LevelHeldStep, ResultReadyStep DEF IInv
  <2> QED BY <2>2, <2>3, <2>4, <2>5 DEF IInv
<1> QED BY InitOk, <1>1, Stutters, PTL DEF Spec

(* Every variable of the service keeps its type; no more cycles are begun   *)
(* than the line has shown bodies.                                          *)
THEOREM PlcTypeCorrect == Spec => []TypeOK
BY Inductive, PTL DEF IInv

(* on_start is called for every rising edge of a pulse and never without    *)
(* an edge.                                                                 *)
THEOREM EdgesStart == Spec => []StartsMatchEdges
<1>1. IInv => StartsMatchEdges
  BY DEF IInv, TypeOK, Counted, Pending, Handled, StartsMatchEdges
<1> QED BY Inductive, <1>1, PTL

(* A session ends with the signal in level mode without the hold. *)
THEOREM OffCloses == Spec => []LevelOffCloses
<1>1. IInv => LevelOffCloses
  BY DEF IInv, Sampled, Handled, LevelHeld, LevelOffCloses
<1> QED BY Inductive, <1>1, PTL

(* RESULT_READY is passed through. *)
THEOREM ResultReadyTransient == Spec => []ResultReadyPasses
BY Inductive, PTL DEF IInv

(* In pulse mode plc_off closes no session, under the hold or with the      *)
(* minimum interval.                                                        *)
THEOREM PulseNeverCloses == Spec => PulseClosesNothing
<1> DEFINE Kept == set.pulse /\ (set.hold \/ ~set.overlap) /\ OnStop
                     => UNCHANGED cycles
<1>1. IInv => Kept BY DEF IInv, OwnHandshake, OnStop
<1>2. IInv /\ [Next]_vars => [Kept]_vars BY <1>1
<1> QED BY Inductive, <1>2, PTL DEF Spec, PulseClosesNothing
=============================================================================
