------------------------------ MODULE PlcSafety ------------------------------
(***************************************************************************)
(* What the PLC service promises the line and the pipeline.                *)
(***************************************************************************)
EXTENDS PlcHandshake

TypeOK ==
  /\ set \in Settings /\ signal \in Level /\ rises \in 0 .. MaxRises
  /\ connected \in BOOLEAN
  /\ poll \in [pc : {"idle", "decide", "ack", "edge", "start", "stop", "notify"},
               value : Level, ackLast : BOOLEAN, quiet : BOOLEAN]
  /\ lastState \in Level /\ armed \in BOOLEAN /\ hstate \in Handshake
  /\ firstPoll \in BOOLEAN /\ waitingOff \in BOOLEAN
  /\ ack \in {"none", "running", "expired"} /\ ackTimedOut \in BOOLEAN
  /\ teardown \in BOOLEAN
  /\ cycles \in [Cycle -> {"none", "open", "closing", "ready", "flag",
                           "waiting", "done"}]
  /\ begun \in {0} \cup Cycle /\ capture \in {0} \cup Cycle
  /\ prev \in Level /\ edges \in Nat /\ starts \in Nat

(* Every rising edge between two samples starts a cycle in pulse mode, also *)
(* when the sample is handled together with the teardown of the last        *)
(* session; no mode starts without an edge (no re-trigger storm from a      *)
(* signal that stays on or from an automatic off).                          *)
StartsMatchEdges ==
  poll.pc = "idle" => starts <= edges /\ (set.pulse => starts = edges)

(* The end of a pulse, or a teardown left by an earlier session, never      *)
(* closes a session: it runs until its VIN or its deadline (config.py:390). *)
(* With overlapping sessions and no hold the code does not keep this.       *)
PulseClosesNothing ==
  [][set.pulse /\ (set.hold \/ ~set.overlap) /\ OnStop
       => UNCHANGED cycles]_vars

(* In level mode without the hold no session outlives the signal: when the  *)
(* poll thread has dealt with a 0 the last cycle is closed, or claimed by   *)
(* another finalizer.                                                       *)
LevelOffCloses ==
  ~set.pulse /\ ~set.hold /\ poll.pc = "idle" /\ prev = 0 /\ begun # 0
    => cycles[begun] # "open"

(* RESULT_READY is only passed through: when no notify_vin_done is under    *)
(* way the PLC is told to acknowledge, or the handshake is over.            *)
ResultReadyPasses ==
  hstate = "RESULT_READY" => \E c \in Cycle : cycles[c] \in {"flag", "waiting"}
=============================================================================
