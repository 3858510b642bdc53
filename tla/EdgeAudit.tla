------------------------------ MODULE EdgeAudit ------------------------------
(***************************************************************************)
(* The forensic audit of the trigger signal (backend/plc/edge_audit.py),   *)
(* fed by the poll thread with the samples it acts on itself, in pulse     *)
(* mode: EdgeAuditor.feed looks for debounced edges, _handle_transition    *)
(* for a change between two samples, and plc_on starts a session or        *)
(* suppresses the trigger by rules of its own.                             *)
(*                                                                         *)
(* Time is counted in poll intervals.  A read that fails gives no sample:  *)
(* the next one comes after a longer gap.                                  *)
(***************************************************************************)
EXTENDS Integers, Sequences

CONSTANTS
  DebounceOn, DebounceOff,  \* debounce_on_ms, debounce_off_ms
  PulseMin, PulseMax,       \* expected_pulse_min_ms, expected_pulse_max_ms
  MinInterval,              \* minimum_body_interval_sec
  HoldTime,                 \* the longest a session keeps the camera
  WordDevice,               \* plc.signal_address is a word (D2222), not a bit
  Kind, SignalBit,          \* plc.signal_kind, plc.signal_bit
  OnValue, Mask,            \* plc.trigger_on_value, plc.trigger_mask
  Bits,                     \* bound: the bits of a word that change
  Gaps,                     \* the times between two samples
  Horizon                   \* bound: the time that is looked at

ASSUME EdgeConstants ==
  /\ DebounceOn \in Nat /\ DebounceOff \in Nat
  /\ PulseMin \in Nat /\ PulseMax \in Nat
  /\ WordDevice \in BOOLEAN /\ Kind \in {"value", "bit", "mask"}
  /\ SignalBit \in Bits /\ OnValue \subseteq Bits /\ Mask \subseteq Bits
  /\ Gaps \subseteq Nat \ {0} /\ Horizon \in Nat
  /\ \E longest \in Gaps : \A gap \in Gaps : gap <= longest
  /\ MinInterval \in Nat /\ HoldTime \in Nat /\ HoldTime < MinInterval

Never == -1

VARIABLES
  now,
  raw, rawSince,   \* _raw, _raw_since: the last sample, the first one like it
  debounced,       \* _debounced
  rise,            \* _rise_mono
  lastAccept,      \* _last_accept_rising_mono
  rows,            \* the EdgeEvents
  firstPoll,       \* PLCService._first_poll_done
  lastState,       \* PLCService._last_state
  active,          \* a session owns the camera
  lastTrigger,     \* Pipeline._last_accepted_trigger_mono
  starts,          \* the times at which sessions were started
  samples          \* history: every sample of the ARRIVE bit

audit    == <<raw, rawSince, debounced, rise, lastAccept, rows>>
service  == <<firstPoll, lastState>>
sessions == <<active, lastTrigger, starts>>
vars == <<now, audit, service, sessions, samples>>

Init ==
  /\ now = 0
  /\ raw = 0 /\ rawSince = 0 /\ debounced = 0
  /\ rise = Never /\ lastAccept = Never /\ rows = << >>
  /\ firstPoll = FALSE /\ lastState = 0
  /\ active = FALSE /\ lastTrigger = Never /\ starts = << >>
  /\ samples = << >>

-----------------------------------------------------------------------------
(* The register.  A word is the set of its bits that are on. *)

(* A word device is read as a word, any other as its one bit.             *)
Register == IF WordDevice THEN Bits ELSE {SignalBit}

(* read_signal_at, but for None after an exception: then there is no       *)
(* sample.                                                                 *)
ReadSignal == SUBSET Register

(* history: the ARRIVE bit of the word                                     *)
Arrives(word) == IF SignalBit \in word THEN 1 ELSE 0

(* _compute_trigger_state *)
TriggerState(word) ==
  LET on == CASE Kind = "bit"  -> SignalBit \in word
              [] Kind = "mask" -> word \cap Mask = OnValue \cap Mask
              [] OTHER         -> word = OnValue
  IN IF on THEN 1 ELSE 0

-----------------------------------------------------------------------------
(* EdgeAuditor.feed *)

RawSinceRisesOnly(t, v) == IF raw = 0 /\ v = 1 THEN t ELSE rawSince
                               \* mutant: a bounce to 0 is not noticed
RawSince(t, v) == IF v # raw THEN t ELSE rawSince

Need(v) == IF v = 1 THEN DebounceOn ELSE DebounceOff

(* The sample ends a stretch of equal ones that is long enough.            *)
Settles(t, v) == v # debounced /\ t - RawSince(t, v) >= Need(v)

Early(t) == lastAccept # Never /\ t - lastAccept < MinInterval

RisingDecision(t, activeCycle, startup) ==
  IF startup THEN "STARTUP_HIGH"
  ELSE IF activeCycle THEN "DUPLICATE_TRIGGER_IGNORED"
  ELSE IF Early(t) THEN "SUSPICIOUS_EARLY_TRIGGER"
  ELSE "ACCEPTED"

AcceptEvery(t, decision) == t    \* mutant: an early trigger moves the interval
Accept(t, decision) == IF decision = "ACCEPTED" THEN t ELSE lastAccept

(* One EdgeEvent; its clock readings, ids and ring of raw samples are left *)
(* out.  A file that cannot be written costs the row there, not in events. *)
Row(t, edge, decision, width) ==
  [at |-> t, edge |-> edge, decision |-> decision, width |-> width]

Emit(row) == rows' = Append(rows, row)

MakeRising(t, activeCycle, startup) ==
  LET decision == RisingDecision(t, activeCycle, startup)
  IN /\ rise' = t /\ lastAccept' = Accept(t, decision)
     /\ Emit(Row(t, 1, decision, 0))

Width(t) == t - rise

MakeFalling(t) ==
  /\ Emit(Row(t, 0, IF Width(t) \in PulseMin .. PulseMax THEN "FALLING"
                                                        ELSE "INVALID_PLC_PULSE",
              Width(t)))
  /\ UNCHANGED <<rise, lastAccept>>

Feed(t, v, activeCycle, startup) ==
  /\ raw' = v /\ rawSince' = RawSince(t, v)
  /\ \/ Settles(t, v) /\ debounced' = v
        /\ IF v = 1 THEN MakeRising(t, activeCycle, startup) ELSE MakeFalling(t)
     \/ ~Settles(t, v) /\ UNCHANGED <<debounced, rise, lastAccept, rows>>

-----------------------------------------------------------------------------
(* The service and the pipeline. *)

(* plc_on without the queue: while a session has the camera, and for       *)
(* MinInterval after the last trigger it took, the trigger is suppressed.  *)
PlcOn(t) ==
  IF active \/ (lastTrigger # Never /\ t - lastTrigger < MinInterval)
  THEN UNCHANGED sessions
  ELSE active' = TRUE /\ lastTrigger' = t /\ starts' = Append(starts, t)

(* A signal that is on at the first poll is no trigger                     *)
(* (startup_recovery_policy: wait_for_edge); later every rise is one.      *)
Transition(t, v) ==
  /\ firstPoll' = TRUE /\ lastState' = v
  /\ IF firstPoll /\ lastState = 0 /\ v = 1 THEN PlcOn(t) ELSE UNCHANGED sessions

(* _poll_once feeds the auditor with the state alone: it is never told of  *)
(* a startup or of an active cycle.                                        *)
Poll(gap, word) ==
  LET t == now + gap
      v == TriggerState(word)
  IN /\ t <= Horizon /\ now' = t
     /\ active => t <= lastTrigger + HoldTime
     /\ Feed(t, v, FALSE, FALSE)
     /\ Transition(t, v)
     /\ samples' = Append(samples, [at |-> t, raw |-> Arrives(word)])

(* The plate has left or the session is finalized.                         *)
SessionEnds ==
  /\ active /\ active' = FALSE
  /\ UNCHANGED <<now, audit, service, lastTrigger, starts, samples>>

Next == SessionEnds \/ \E gap \in Gaps, word \in ReadSignal : Poll(gap, word)

Spec == Init /\ [][Next]_vars
=============================================================================
