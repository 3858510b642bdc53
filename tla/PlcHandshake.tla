---------------------------- MODULE PlcHandshake ----------------------------
(***************************************************************************)
(* The PLC polling service (backend/plc/plc_service.py): one thread samples *)
(* a signal, turns its edges into on_start and on_stop, and is told by the  *)
(* thread that finalized a session that the session is over                 *)
(* (notify_vin_done).                                                       *)
(*                                                                          *)
(* The callbacks are Pipeline.plc_on and plc_off.  Of the pipeline only     *)
(* what the handshake can tell apart is kept: which body cycles are open,   *)
(* which of them owns the capture, and how far notify_vin_done is in the    *)
(* thread that closed it.                                                   *)
(*                                                                          *)
(* The settings are chosen at the start and never change.  exit_address is  *)
(* empty and trigger_kind unset, as in config/settings.yaml,                *)
(* auto_off_on_vin is TRUE and the trigger queue is disabled.               *)
(***************************************************************************)
EXTENDS Integers, FiniteSets

CONSTANTS
  MaxRises,   \* bound: rising edges of the register, an initial 1 included
  Modes       \* plc.trigger_mode values to consider

ASSUME PlcConstants == MaxRises \in Nat \ {0} /\ Modes \subseteq {"pulse", "level"}

Cycle == 1 .. MaxRises
Level == 0 .. 1

Settings == [pulse     : {m = "pulse" : m \in Modes},
             simulator : BOOLEAN,   \* plc.mode = "simulator"
             ack       : BOOLEAN,   \* require_acknowledgement
             immediate : BOOLEAN,   \* startup_recovery_policy: start_immediately
             zero      : BOOLEAN,   \* require_zero_before_rearm
             hold      : BOOLEAN,   \* session.hold_until_deadline
             overlap   : BOOLEAN]   \* session.minimum_body_interval_sec = 0

Handshake == {"IDLE", "BUSY", "RESULT_READY", "WAITING_ACK", "ERROR"}

VARIABLES
  set,        \* the settings
  signal, rises,          \* the register; how often it was 1
  connected,              \* _connected
  poll,                   \* the poll thread's step, sample and order of work
  lastState, armed,       \* _last_state, _armed
  hstate,                 \* _hstate
  firstPoll, waitingOff,  \* _first_poll_done, _startup_waiting_for_off
  ack,                    \* _ack_deadline: none, running, expired
  ackTimedOut,            \* _ack_timed_out
  teardown,               \* _pending_teardown
  cycles,     \* how far each body cycle is
  begun,      \* body cycles plc_on has opened
  capture,    \* the cycle that owns the capture, or 0
  prev, edges, starts     \* history: last sample, 0-1 changes, on_start calls

edgeVars    == <<lastState, armed>>
startupVars == <<firstPoll, waitingOff>>
ackVars     == <<ack, ackTimedOut>>
cycleVars   == <<cycles, begun, capture>>
history     == <<prev, edges, starts>>
physical    == <<set, signal, rises>>
vars == <<physical, connected, poll, edgeVars, hstate, startupVars, ackVars,
          teardown, cycleVars, history>>

IdlePoll == [pc |-> "idle", value |-> 0, ackLast |-> FALSE, quiet |-> FALSE]

Init ==
  /\ set \in Settings
  /\ signal \in Level /\ rises = signal
  /\ connected = FALSE /\ poll = IdlePoll
  /\ lastState = 0 /\ armed = TRUE /\ hstate = "IDLE"
  /\ firstPoll = FALSE /\ waitingOff = FALSE
  /\ ack = "none" /\ ackTimedOut = FALSE /\ teardown = FALSE
  /\ cycles = [c \in Cycle |-> "none"] /\ begun = 0 /\ capture = 0
  /\ prev = 0 /\ edges = 0 /\ starts = 0

-----------------------------------------------------------------------------
(* The line and the pipeline around the service. *)

(* The PLC program, or the operator of the simulator, sets the register. *)
SignalChanges ==
  /\ signal' = 1 - signal
  /\ signal = 0 => rises < MaxRises
  /\ rises' = rises + signal'
  /\ UNCHANGED <<set, connected, poll, edgeVars, hstate, startupVars, ackVars,
                 teardown, cycleVars, history>>

(* _release_capture at plate exit: the cycle still waits for its results. *)
PlateLeaves ==
  /\ capture # 0 /\ capture' = 0
  /\ UNCHANGED <<physical, connected, poll, edgeVars, hstate, startupVars,
                 ackVars, teardown, cycles, begun, history>>

CycleStep(c, next) == cycles' = [cycles EXCEPT ![c] = next]

(* A watchdog, OCR or RFID thread claims the session for _finalize_session. *)
FinalizerClaims(c) ==
  /\ cycles[c] = "open" /\ CycleStep(c, "closing")
  /\ UNCHANGED <<physical, connected, poll, edgeVars, hstate, startupVars,
                 ackVars, teardown, begun, capture, history>>

(* It publishes the terminal state and goes on to call on_vin_done. *)
FinalizerCommits(c) ==
  /\ cycles[c] = "closing" /\ CycleStep(c, "ready")
  /\ capture' = IF capture = c THEN 0 ELSE capture
  /\ UNCHANGED <<physical, connected, poll, edgeVars, hstate, startupVars,
                 ackVars, teardown, begun, history>>

-----------------------------------------------------------------------------
(* notify_vin_done, in the thread that closed the cycle. *)

NotifyReady(c) ==
  /\ cycles[c] = "ready" /\ CycleStep(c, "flag")
  /\ hstate' = IF hstate = "BUSY" THEN "RESULT_READY" ELSE hstate
  /\ UNCHANGED <<physical, connected, poll, edgeVars, startupVars, ackVars,
                 teardown, begun, capture, history>>

(* The simulator's signal is set to 0; of the real PLC nothing is faked,   *)
(* the poll thread is left a teardown to do.                               *)
NotifyFlag(c) ==
  /\ cycles[c] = "flag" /\ CycleStep(c, "waiting")
  /\ IF set.simulator THEN signal' = 0 /\ UNCHANGED teardown
                      ELSE teardown' = TRUE /\ UNCHANGED signal
  /\ UNCHANGED <<set, rises, connected, poll, edgeVars, hstate, startupVars,
                 ackVars, begun, capture, history>>

NotifyWaiting(c) ==
  /\ cycles[c] = "waiting" /\ CycleStep(c, "done")
  /\ hstate' = "WAITING_ACK" /\ ackTimedOut' = FALSE
  /\ ack' = IF set.ack /\ ~set.simulator THEN "running" ELSE "none"
  /\ UNCHANGED <<physical, connected, poll, edgeVars, startupVars, teardown,
                 begun, capture, history>>

AckDeadlinePasses ==
  /\ ack = "running" /\ ack' = "expired"
  /\ UNCHANGED <<physical, connected, poll, edgeVars, hstate, startupVars,
                 ackTimedOut, teardown, cycleVars, history>>

-----------------------------------------------------------------------------
(* The poll thread: _poll_once. *)

PollStep(next) ==
  /\ poll' = [poll EXCEPT !.pc = next]
  /\ UNCHANGED <<physical, connected, startupVars, prev, edges>>

Connect ==
  /\ poll.pc = "idle" /\ ~connected /\ connected' = TRUE
  /\ UNCHANGED <<physical, poll, edgeVars, hstate, startupVars, ackVars,
                 teardown, cycleVars, history>>

Over(c) == cycles[c] \in {"none", "done"}

(* read_signal returned None; the simulator always answers. *)
ReadFails ==
  /\ poll.pc = "idle" /\ connected /\ ~set.simulator /\ connected' = FALSE
  /\ UNCHANGED <<physical, poll, edgeVars, hstate, startupVars, ackVars,
                 teardown, cycleVars, history>>

(* A signal that is already on at the first poll is no new body, unless    *)
(* the startup policy says so: the service waits for it to go off.         *)
ReadAtStartup ==
  /\ poll.pc = "idle" /\ connected /\ ~firstPoll /\ signal = 1 /\ ~set.immediate
  /\ firstPoll' = TRUE /\ waitingOff' = TRUE
  /\ lastState' = 1 /\ armed' = FALSE /\ hstate' = "BUSY"
  /\ prev' = 1
  /\ UNCHANGED <<physical, connected, poll, ackVars, teardown, cycleVars, edges,
                 starts>>

ReadSignal ==
  /\ poll.pc = "idle" /\ connected
  /\ firstPoll \/ signal = 0 \/ set.immediate
  /\ firstPoll' = TRUE
  /\ poll' = [IdlePoll EXCEPT !.pc = "decide", !.value = signal,
                              !.quiet = \A c \in Cycle : Over(c)]
  /\ edges' = edges + (IF prev = 0 THEN signal ELSE 0) /\ prev' = signal
  /\ UNCHANGED <<physical, connected, edgeVars, hstate, waitingOff, ackVars,
                 teardown, cycleVars, starts>>

(* The teardown a session left: with a pulse the edge is still looked at,  *)
(* with a level the sample counts as seen and the service is disarmed.     *)
PulseTeardownSwallows ==       \* mutant: the pulse's edge counts as seen too
  /\ poll.pc = "decide" /\ teardown /\ set.pulse
  /\ teardown' = FALSE /\ lastState' = poll.value
  /\ poll' = [poll EXCEPT !.pc = "ack", !.ackLast = TRUE]
  /\ UNCHANGED <<physical, connected, armed, hstate, startupVars, ackVars,
                 cycleVars, history>>

PulseTeardown ==
  /\ poll.pc = "decide" /\ teardown /\ set.pulse
  /\ teardown' = FALSE
  /\ poll' = [poll EXCEPT !.pc = "edge", !.ackLast = TRUE]
  /\ UNCHANGED <<physical, connected, edgeVars, hstate, startupVars, ackVars,
                 cycleVars, history>>

LevelTeardown ==
  /\ poll.pc = "decide" /\ teardown /\ ~set.pulse
  /\ teardown' = FALSE
  /\ armed' = FALSE /\ lastState' = poll.value
  /\ poll' = [poll EXCEPT !.pc = "stop", !.ackLast = TRUE]
  /\ UNCHANGED <<physical, connected, hstate, startupVars, ackVars, cycleVars,
                 history>>

NoTeardown ==
  /\ poll.pc = "decide" /\ ~teardown
  /\ PollStep("ack")
  /\ UNCHANGED <<edgeVars, hstate, ackVars, teardown, cycleVars, starts>>

(* _check_ack_timeout, before the edge or, after a teardown, behind it. *)
CheckAck ==
  /\ poll.pc = "ack"
  /\ IF /\ poll.value = 1 /\ hstate = "WAITING_ACK" /\ set.ack
        /\ ack = "expired" /\ ~ackTimedOut
     THEN ackTimedOut' = TRUE /\ hstate' = "ERROR"
     ELSE UNCHANGED <<ackTimedOut, hstate>>
  /\ PollStep(IF poll.ackLast THEN "idle" ELSE "edge")
  /\ UNCHANGED <<edgeVars, ack, teardown, cycleVars, starts>>

AfterEdge == IF poll.ackLast THEN "ack" ELSE "idle"

-----------------------------------------------------------------------------
(* _handle_transition *)

NoEdge ==
  /\ poll.pc = "edge" /\ poll.value = lastState
  /\ PollStep(AfterEdge)
  /\ UNCHANGED <<edgeVars, hstate, ackVars, teardown, cycleVars, starts>>

(* A pulse always starts; a level only if the service is armed. *)
Rise ==
  /\ poll.pc = "edge" /\ poll.value = 1 /\ lastState = 0
  /\ set.pulse \/ armed \/ ~set.zero
  /\ lastState' = 1
  /\ armed' = IF set.pulse THEN armed ELSE FALSE
  /\ hstate' = "BUSY"
  /\ PollStep("start")
  /\ UNCHANGED <<ackVars, teardown, cycleVars, starts>>

RiseDisarmed ==
  /\ poll.pc = "edge" /\ poll.value = 1 /\ lastState = 0
  /\ ~set.pulse /\ ~armed /\ set.zero
  /\ lastState' = 1
  /\ PollStep(AfterEdge)
  /\ UNCHANGED <<armed, hstate, ackVars, teardown, cycleVars, starts>>

Finalized == hstate \in {"RESULT_READY", "WAITING_ACK", "ERROR"}

(* The end of a pulse closes no session; it ends the handshake of one that *)
(* is finalized, and the wait for a signal that was on at the start.       *)
FallOfPulse ==
  /\ poll.pc = "edge" /\ poll.value = 0 /\ lastState = 1 /\ set.pulse
  /\ lastState' = 0 /\ armed' = TRUE
  /\ IF Finalized \/ waitingOff
     THEN hstate' = "IDLE" /\ ack' = "none" /\ ackTimedOut' = FALSE
     ELSE UNCHANGED <<hstate, ackVars>>
  /\ waitingOff' = FALSE
  /\ poll' = [poll EXCEPT !.pc = IF Finalized THEN "stop" ELSE AfterEdge]
  /\ UNCHANGED <<physical, connected, firstPoll, teardown, cycleVars, history>>

FallOfLevel ==
  /\ poll.pc = "edge" /\ poll.value = 0 /\ lastState = 1 /\ ~set.pulse
  /\ lastState' = 0 /\ armed' = TRUE
  /\ hstate' = "IDLE" /\ ack' = "none" /\ ackTimedOut' = FALSE
  /\ PollStep("stop")
  /\ UNCHANGED <<teardown, cycleVars, starts>>

-----------------------------------------------------------------------------
(* The callbacks, in the poll thread. *)

(* plc_on opens a cycle if the capture is free and the minimum interval is *)
(* over.  The interval outlasts a cycle by far more than a poll step, so   *)
(* that it is over only if no cycle was under way when the edge was read.  *)
OnStart ==
  /\ poll.pc = "start" /\ starts' = starts + 1
  /\ \/ /\ capture = 0 /\ (set.overlap \/ poll.quiet)
        /\ begun' = begun + 1 /\ capture' = begun'
        /\ CycleStep(begun', "open")
     \/ /\ capture # 0 \/ ~set.overlap
        /\ UNCHANGED cycleVars
  /\ PollStep(AfterEdge)
  /\ UNCHANGED <<edgeVars, hstate, ackVars, teardown>>

(* plc_off: _active_session_id is the last cycle begun while it is open. A  *)
(* cycle another thread has claimed, and any cycle under the hold, is left  *)
(* alone; one it closes itself is finalized before the call returns.        *)
OnStopIgnores ==               \* mutant: plc_off returns at once
  /\ poll.pc = "stop"
  /\ PollStep(AfterEdge)
  /\ UNCHANGED <<edgeVars, hstate, ackVars, teardown, cycleVars, starts>>

OnStop ==
  /\ poll.pc = "stop"
  /\ IF begun # 0 /\ cycles[begun] = "open" /\ ~set.hold
     THEN /\ CycleStep(begun, "ready")
          /\ capture' = IF capture = begun THEN 0 ELSE capture
          /\ PollStep("notify")
     ELSE UNCHANGED <<cycles, capture>> /\ PollStep(AfterEdge)
  /\ UNCHANGED <<edgeVars, hstate, ackVars, teardown, begun, starts>>

OnStopReturns ==
  /\ poll.pc = "notify" /\ cycles[begun] = "done"
  /\ PollStep(AfterEdge)
  /\ UNCHANGED <<edgeVars, hstate, ackVars, teardown, cycleVars, starts>>

-----------------------------------------------------------------------------
Environment == \/ SignalChanges \/ PlateLeaves \/ AckDeadlinePasses
               \/ \E c \in Cycle : FinalizerClaims(c) \/ FinalizerCommits(c)

Notify == \E c \in Cycle : NotifyReady(c) \/ NotifyFlag(c) \/ NotifyWaiting(c)

Poll == \/ Connect \/ ReadFails \/ ReadAtStartup \/ ReadSignal
        \/ PulseTeardown \/ LevelTeardown \/ NoTeardown \/ CheckAck
        \/ NoEdge \/ Rise \/ RiseDisarmed \/ FallOfPulse \/ FallOfLevel
        \/ OnStart \/ OnStop \/ OnStopReturns

Next == Environment \/ Notify \/ Poll

Spec == Init /\ [][Next]_vars
=============================================================================
