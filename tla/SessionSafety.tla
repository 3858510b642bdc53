---------------------------- MODULE SessionSafety ----------------------------
(***************************************************************************)
(* What the body cycle of SessionLifecycle guarantees.                     *)
(***************************************************************************)
EXTENDS SessionLifecycle

VinType == SessionOrNone \cup {NoVin}
StateType == Open \cup Closing
RowType  == [status : RowState, vin : VinType, rfid : BOOLEAN]

StarterType == [pc : {"none", "create", "insert", "missed", "rfid", "camera",
                      "watchdog", "done"}, by : Thread]
ReaderType  == [pc : {"none", "reading", "validate", "store", "complete",
                      "finalize", "done"}, tag : BOOLEAN]
JobType     == [sid : SessionOrNone, of : SUBSET SessionOrNone]

(* A finalizer that has come to the write has a verdict; a thread about to  *)
(* store into, release or close a session has one.                          *)
FinType ==
  {f \in [pc : {"none", "stop", "pause", "vin", "status", "write", "commit",
                "done"},
          by : Thread, owns : BOOLEAN, vin : VinType, rfid : BOOLEAN,
          status : Terminal \cup {"none"}] :
     f.pc \in {"write", "commit", "done"} => f.status \in Terminal}

PlcType ==
  {p \in [pc : {"idle", "finalize", "stop"}, sid : SessionOrNone] :
     p.pc = "finalize" => p.sid \in Session}

InferType ==
  {i \in [pc : {"idle", "frame", "submit", "enqueue", "stop", "pause", "owner",
                "release"},
          taken : SessionOrNone, crops : SUBSET SessionOrNone,
          sid : SessionOrNone, exit : BOOLEAN] :
     i.pc = "release" => i.sid \in Session}

OcrType ==
  {o \in [pc : {"idle", "read", "validate", "signal", "store", "manual",
                "complete", "finalize", "unlock"},
          sid : SessionOrNone, of : SUBSET SessionOrNone, vin : VinType,
          ok : BOOLEAN] :
     /\ o.pc \in {"store", "complete", "finalize"} => o.sid \in Session
     /\ o.pc = "signal" /\ o.ok => o.sid \in Session}

ProcTypes ==
  /\ up \in BOOLEAN /\ crashes \in Nat
  /\ stopping \in [pc : {"no", "cancel", "exit"}, open : SUBSET Session]
  /\ lost \subseteq Session

TriggerTypes ==
  /\ trig \in 0 .. MaxTriggers
  /\ queue \in Seq(Session) /\ Len(queue) <= MaxPending
  /\ early \in BOOLEAN
  /\ suppressed \subseteq Session /\ dropped \subseteq Session

SessionTypes ==
  /\ st \in [Session -> StateType]
  /\ late \in [Session -> BOOLEAN] /\ vin \in [Session -> VinType]
  /\ rfid \in [Session -> BOOLEAN] /\ ocrDone \in [Session -> BOOLEAN]
  /\ plateExit \in [Session -> BOOLEAN]

RowTypes == row \in [Session -> RowType]

OwnerTypes ==
  /\ active \in SessionOrNone /\ owner \in SessionOrNone
  /\ last \in SessionOrNone /\ inflight \in SessionOrNone
  /\ attempts \in 0 .. MaxAttempts

CameraTypes ==
  /\ plateLocked \in BOOLEAN /\ processing \in BOOLEAN /\ paused \in BOOLEAN
  /\ buf \subseteq SessionOrNone

StarterTypes ==
  starter \in [Session -> StarterType]

FinTypes ==
  fin \in [Session -> FinType]

WatchTypes ==
  /\ wd \in [Session -> {"none", "waiting", "grace", "closing", "done"}]
  /\ search \in [Session -> {"none", "armed", "stop", "pause", "done"}]

RfidTypes ==
  /\ reader \in [Session -> ReaderType]
  /\ busy \in SessionOrNone

PlcTypes == plc \in PlcType

InferTypes == infer \in InferType

OcrTypes ==
  /\ jobs \in Seq(JobType) /\ ocr \in OcrType
  /\ lastRead \in SessionOrNone \X VinType
  /\ manual \in BOOLEAN

(* Every variable keeps its type; the FIFO queue and the OCR attempts keep  *)
(* their bounds (plc_on's overflow check, ocr_session_max_triggers).        *)
TypeOK ==
  /\ ProcTypes /\ TriggerTypes /\ SessionTypes /\ RowTypes /\ OwnerTypes
  /\ CameraTypes /\ StarterTypes /\ FinTypes /\ WatchTypes /\ RfidTypes
  /\ PlcTypes /\ InferTypes /\ OcrTypes

-----------------------------------------------------------------------------
(* Records. *)

(* One session, one record: once a row holds a verdict, no thread, late     *)
(* result, second finalize, shutdown or restart changes it again ("finalize *)
(* is idempotent: N parallel calls, 1 record").                             *)
RecordsFinalOnce ==
  [][\A s \in Session : row[s].status \in Terminal => row'[s] = row[s]]_vars

(* What the service says of a closed session is what SQLite holds; the one  *)
(* exception is a write that failed, and that session says FAILED and never *)
(* SUCCESS (the Tier-8 guard of _finalize_session).                         *)
TerminalIsRecorded ==
  \A s \in Session :
    st[s] \in Terminal =>
      \/ row[s].status = st[s]
      \/ DbMayFail /\ st[s] = "FAILED" /\ row[s].status \in {"absent", "PENDING"}

(* The VIN of a record was read from frames the detector took while the     *)
(* record's session owned the capture: a frame in the detector's hands, a   *)
(* buffered crop or an OCR job left over from an earlier capture does not   *)
(* reach it ("a wrong VIN is more dangerous than NO_READ"). What such a     *)
(* frame shows is another matter: one that waited in the camera's socket    *)
(* since the last pause is taken after the resume and counts as the new     *)
(* session's.                                                               *)
RecordIsFromItsCapture == \A s \in Session : row[s].vin \in {NoVin, s}

(* No row of a process that ended stays PENDING once the next one is up.    *)
RestartLeavesNoPending ==
  up /\ ~DbMayFail => \A s \in lost : row[s].status # "PENDING"

-----------------------------------------------------------------------------
(* The hard window. *)

(* Under hold_until_deadline a session gets no ordinary verdict before its  *)
(* deadline, by whatever thread and for whatever reason it was to be closed *)
(* (results complete, OCR out of retries, PLC stop).                        *)
HoldUntilDeadline ==
  HardHold => \A s \in Session : st[s] \in {"SUCCESS", "TIMEOUT"} => late[s]

(* Without the hold, a session the RFID thread closed early was complete:   *)
(* its record is a SUCCESS with both identities, whatever arrived since, or *)
(* a FAILED one because the database did not take it; never a TIMEOUT.      *)
EarlyCloseIsComplete ==
  \A s \in Session : fin[s].by = "rfid" /\ fin[s].pc = "done" =>
    /\ row[s].status # "TIMEOUT"
    /\ row[s].status = "SUCCESS" => row[s].vin # NoVin /\ row[s].rfid

-----------------------------------------------------------------------------
(* The capture. *)

(* A session that is closed is neither the active one nor the owner of the  *)
(* camera: otherwise queued triggers would wait for a session that can no   *)
(* longer release it, and the next body's crops would be submitted to it.   *)
OwnersAreOpen ==
  /\ owner # None => st[owner] \notin Terminal \cup {"NONE"}
  /\ active # None => st[active] \notin Terminal \cup {"NONE"}

(* Without the queue, the one ACTIVE session is the one the camera works    *)
(* for; a second trigger cannot take the camera from under it.              *)
ActiveOwnsCapture ==
  ~QueueEnabled => \A s \in Session : st[s] = "ACTIVE" => owner = s

(* When the next body is due, nothing of the last one keeps the camera      *)
(* pipeline running: whoever closed the session also stopped it.  (A        *)
(* service that is stopping takes no further body.)                         *)
CameraOffBetweenBodies ==
  early /\ Quiescent /\ stopping.pc = "no" => ~processing

-----------------------------------------------------------------------------
(* Triggers. *)

Queued(s) == \E i \in DOMAIN queue : queue[i] = s

(* No trigger is lost in silence and none is served twice: each is counted  *)
(* as suppressed or dropped, waits in the queue once, or was started.       *)
EveryTriggerAccounted ==
  LET started == {s \in Session : starter[s].pc # "none"}
      waiting == {queue[i] : i \in DOMAIN queue}
  IN /\ suppressed \cup dropped \cup waiting \cup started \cup lost = 1 .. trig
     /\ Cardinality(suppressed) + Cardinality(dropped) + Len(queue)
          + Cardinality(started) + Cardinality(lost) = trig

(* While triggers wait, somebody will take the next: a session owns the     *)
(* camera, or a thread is about to start one (no lost wake-up between       *)
(* plc_on, _release_capture and _finalize_session).                         *)
QueueIsServed ==
  queue # <<>> =>
    owner # None \/ \E s \in Session : starter[s].pc = "create"

-----------------------------------------------------------------------------
(* Liveness. *)

(* A session that was opened is closed, by its watchdog if by nobody else,  *)
(* unless the process ends first ("the result is ALWAYS written").          *)
SessionCloses ==
  \A s \in Session : st[s] # "NONE" ~> st[s] \in Terminal \cup {"NONE"}

(* Its row does not stay PENDING while the process runs.                    *)
VerdictIsWritten ==
  \A s \in Session : row[s].status = "PENDING" ~>
                       (row[s].status \in Terminal \/ ~up)

-----------------------------------------------------------------------------
(* Refinement of the promise in BodyCycle. *)

StageOf(s) ==
  IF st[s] = "NONE" THEN IF s \in lost THEN "gone" ELSE "waiting"
  ELSE IF st[s] \in Terminal THEN "closed"
  ELSE IF fin[s].pc = "commit" THEN "recorded"
  ELSE "open"

Promise == INSTANCE BodyCycle WITH
  Trigger <- Session, Row <- RowType, Absent <- NoRow, Pending <- PendingRow,
  Failed <- Recovered(PendingRow),
  stage <- [s \in Session |-> StageOf(s)], record <- row

(* Every step of the threads is a step of the promised cycle or changes     *)
(* nothing of it.                                                           *)
BodyCycleKept == Promise!Spec
=============================================================================
