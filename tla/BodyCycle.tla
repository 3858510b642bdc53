------------------------------ MODULE BodyCycle ------------------------------
(***************************************************************************)
(* What the body cycle promises whoever reads vin_records: a trigger opens *)
(* at most one session, a session writes its verdict once, while it is     *)
(* open, and nothing but the recovery of a row that never got its verdict  *)
(* touches the row afterwards.  How threads, camera and readers bring the  *)
(* verdict about is left to SessionLifecycle, which implements this.       *)
(***************************************************************************)

CONSTANTS
  Trigger,   \* the rising edges of the PLC signal
  Row,       \* the contents a row of vin_records can have, the three below
             \* and the verdicts
  Absent,    \* no row
  Pending,   \* the placeholder insert_pending_session writes
  Failed     \* the placeholder as recovery leaves it

Verdict == Row \ {Absent, Pending}

VARIABLES
  stage,     \* how far the trigger's session is
  record     \* its row in vin_records

Stage == {"waiting", "open", "recorded", "closed", "gone"}

Init ==
  /\ stage = [t \in Trigger |-> "waiting"]
  /\ record = [t \in Trigger |-> Absent]

Open(t) ==
  /\ stage[t] = "waiting"
  /\ stage' = [stage EXCEPT ![t] = "open"]
  /\ UNCHANGED record

(* The placeholder may come late (its insert runs in another thread than    *)
(* the verdict's) or never (the insert failed), but only where no row is.   *)
Announce(t) ==
  /\ stage[t] \in {"open", "recorded", "closed"} /\ record[t] = Absent
  /\ record' = [record EXCEPT ![t] = Pending]
  /\ UNCHANGED stage

(* The one write of a verdict; the database may refuse it. *)
Record(t) ==
  /\ stage[t] = "open"
  /\ stage' = [stage EXCEPT ![t] = "recorded"]
  /\ \/ \E v \in Verdict : record' = [record EXCEPT ![t] = v]
     \/ UNCHANGED record

Close(t) ==
  /\ stage[t] = "recorded"
  /\ stage' = [stage EXCEPT ![t] = "closed"]
  /\ UNCHANGED record

(* The process ends: the triggers it has seen will not be heard of again. *)
Vanish(seen) ==
  /\ \A t \in Trigger \ seen : stage[t] \in {"waiting", "gone"}
  /\ stage' = [t \in Trigger |-> IF t \in seen THEN "gone" ELSE stage[t]]
  /\ UNCHANGED record

(* The next process: rows left without a verdict are failed. *)
Recover ==
  /\ \A t \in Trigger : stage[t] \in {"waiting", "gone"}
  /\ record' = [t \in Trigger |->
                  IF record[t] = Pending THEN Failed ELSE record[t]]
  /\ UNCHANGED stage

Next ==
  \/ \E t \in Trigger : Open(t) \/ Announce(t) \/ Record(t) \/ Close(t)
  \/ \E seen \in SUBSET Trigger : Vanish(seen)
  \/ Recover

Spec == Init /\ [][Next]_<<stage, record>>
=============================================================================
