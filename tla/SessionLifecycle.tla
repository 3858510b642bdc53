-------------------------- MODULE SessionLifecycle --------------------------
(***************************************************************************)
(* The body cycle of Station 509 (backend/pipeline.py, class Pipeline):    *)
(* a PLC trigger opens a session, camera/OCR and RFID deliver their        *)
(* results to it from threads of their own, a watchdog closes it at its    *)
(* deadline and its one record is written to SQLite.                       *)
(*                                                                         *)
(* Granularity.  One action per section of code that holds _session_lock,  *)
(* per write to the database and per statement outside the lock whose      *)
(* place between two lock sections matters.  The threads are the PLC poll  *)
(* thread, the inference thread, the OCR worker, one RFID reader and one   *)
(* watchdog per session, and the thread that shuts the service down.       *)
(*                                                                         *)
(* Data.  A session is the number of its trigger; 0 is None.  A frame, a   *)
(* crop and a VIN are the number of the session that owned the capture     *)
(* when the detector took the frame, so that a record can be told apart    *)
(* whose VIN was read for another session.  What the frame shows may be    *)
(* older still: frames wait in the camera's socket during a pause.         *)
(* Time is a set of deadlines that have passed.                            *)
(* exit_signal_enabled is FALSE, as in config/settings.yaml.               *)
(***************************************************************************)
EXTENDS Integers, Sequences, FiniteSets

CONSTANTS
  MaxTriggers,   \* bound: rising edges the PLC delivers
  MaxPending,    \* session.max_pending_triggers
  MaxAttempts,   \* detection.ocr_session_max_triggers
  MaxCrashes,    \* bound: crashes and restarts of the process
  Hold,          \* session.hold_until_deadline
  RfidEnabled,   \* rfid.enabled
  RequireRfid,   \* session.require_rfid
  QueueEnabled,  \* session.pending_trigger_queue_enabled
  MinInterval,   \* session.minimum_body_interval_sec > 0 (and it covers
                 \* timeout_sec plus ocr_inflight_grace_sec)
  CameraSearch,  \* the camera search timeout fires before the session closes
  DbMayFail,     \* environment: a write to SQLite may raise
  PlcStops,      \* environment: the PLC service calls on_stop
  Shutdowns      \* environment: the service may be asked to stop

ASSUME ConstantTypes ==
  /\ MaxTriggers \in Nat \ {0}
  /\ MaxPending \in Nat /\ MaxAttempts \in Nat /\ MaxCrashes \in Nat
  /\ Hold \in BOOLEAN /\ RfidEnabled \in BOOLEAN /\ RequireRfid \in BOOLEAN
  /\ QueueEnabled \in BOOLEAN /\ MinInterval \in BOOLEAN
  /\ CameraSearch \in BOOLEAN /\ DbMayFail \in BOOLEAN
  /\ PlcStops \in BOOLEAN /\ Shutdowns \in BOOLEAN

Session == 1 .. MaxTriggers
SessionOrNone == 0 .. MaxTriggers
None    == 0                     \* Python's None for a session id
NoVin   == -1                    \* session.vin is None / NO_READ in a row

Terminal == {"SUCCESS", "TIMEOUT", "FAILED", "CANCELLED",
             "MISSED_CAPTURE_WINDOW"}
Open     == {"ACTIVE", "WAITING_RESULTS"}
ClosingForgetsFinalizing == Terminal \cup {"NONE"}   \* mutant: no CAS state
Closing  == Terminal \cup {"NONE", "FINALIZING"}
RowState == Terminal \cup {"absent", "PENDING"}
Thread   == {"plc", "infer", "ocr", "rfid", "watchdog", "shutdown", "none"}

HardHold     == Hold /\ RfidEnabled /\ RequireRfid
RfidRequired == RfidEnabled /\ RequireRfid

VARIABLES
  up, crashes,      \* the process runs; crashes so far
  stopping,         \* prepare_shutdown: [pc, open]
  lost,             \* triggers whose state in memory a crash or exit erased
  trig,             \* _trigger_sequence
  queue,            \* _pending_triggers
  early,            \* minimum_body_interval since the last accepted trigger
                    \* is not over
  suppressed,       \* triggers _suppressed_trigger_count counts
  dropped,          \* triggers _dropped_trigger_count counts
  st,               \* Session.state ("NONE": not in _sessions)
  late,             \* the session's deadline has passed
  vin, rfid,        \* Session.vin; a usable Session.rfid_epc arrived
  ocrDone,          \* _ocr_inflight_events[session].is_set()
  plateExit,        \* Session.plate_exit_at is not None
  row,              \* the session's row in vin_records (survives a crash)
  active, owner, last,        \* _active_, _capture_owner_, _last_session_id
  inflight, attempts,         \* _ocr_inflight_session, _ocr_attempts
  plateLocked, processing, paused, buf,  \* _plate_locked, _processing,
                              \* _capture_pause; whose crops _event_buf has
  starter,          \* progress of _start_session, and the thread in it
  fin,              \* progress and locals of _finalize_session
  wd,               \* the session's watchdog thread
  search,           \* the session's camera search watch thread
  reader, busy,     \* the RFID worker thread; the reader's _busy lock
  plc,              \* plc_off in the PLC thread: [pc, sid]
  infer,            \* the inference thread: [pc, taken, crops, sid, exit]
  jobs, ocr, lastRead,  \* OCR queue, OCR thread, last (session, VIN) emitted
  manual            \* a record outside any session was written

procVars    == <<up, crashes, stopping, lost>>
triggerVars == <<trig, queue, early, suppressed, dropped>>
factVars    == <<late, vin, rfid, plateExit>>
sessionVars == <<st, factVars>>
ownerVars   == <<active, owner, last>>
camVars     == <<plateLocked, processing, paused, buf>>
ocrVars     == <<jobs, ocr, lastRead, manual>>
rfidVars    == <<reader, busy>>
shared      == <<ownerVars, inflight, attempts, camVars>>
threads     == <<plc, infer, ocrVars>>
vars == <<procVars, triggerVars, sessionVars, ocrDone, row, ownerVars,
          inflight, attempts, camVars, starter, fin, wd, search, rfidVars,
          plc, infer, ocrVars>>

NoRow     == [status |-> "absent", vin |-> NoVin, rfid |-> FALSE]
NoStarter == [pc |-> "none", by |-> "none"]
NoFin     == [pc |-> "none", by |-> "none", owns |-> FALSE, vin |-> NoVin,
              rfid |-> FALSE, status |-> "none"]
NoReader  == [pc |-> "none", tag |-> FALSE]
IdlePlc   == [pc |-> "idle", sid |-> None]
IdleInfer == [pc |-> "idle", taken |-> None, crops |-> {}, sid |-> None,
              exit |-> FALSE]
IdleOcr   == [pc |-> "idle", sid |-> None, of |-> {}, vin |-> NoVin,
              ok |-> FALSE]

(* What Pipeline.__init__ leaves in memory. *)
Boot ==
  /\ stopping = [pc |-> "no", open |-> {}]
  /\ queue = <<>> /\ early = FALSE
  /\ suppressed = {} /\ dropped = {}
  /\ st = [s \in Session |-> "NONE"] /\ late = [s \in Session |-> FALSE]
  /\ vin = [s \in Session |-> NoVin] /\ rfid = [s \in Session |-> FALSE]
  /\ ocrDone = [s \in Session |-> FALSE]
  /\ plateExit = [s \in Session |-> FALSE]
  /\ active = None /\ owner = None /\ last = None
  /\ inflight = None /\ attempts = 0
  /\ plateLocked = FALSE /\ processing = FALSE /\ paused = FALSE /\ buf = {}
  /\ starter = [s \in Session |-> NoStarter]
  /\ fin = [s \in Session |-> NoFin]
  /\ wd = [s \in Session |-> "none"] /\ search = [s \in Session |-> "none"]
  /\ reader = [s \in Session |-> NoReader] /\ busy = None
  /\ plc = IdlePlc /\ infer = IdleInfer
  /\ jobs = <<>> /\ ocr = IdleOcr /\ lastRead = <<None, NoVin>>

Init ==
  /\ Boot
  /\ up = TRUE /\ crashes = 0 /\ trig = 0 /\ lost = {} /\ manual = FALSE
  /\ row = [s \in Session |-> NoRow]

-----------------------------------------------------------------------------
(* Which thread is inside _start_session or _finalize_session. *)

Starting(s)  == starter[s].pc \notin {"none", "done"}
Finishing(s) == fin[s].pc \notin {"none", "done"}

ThreadFree(t) ==
  \A s \in Session : /\ Starting(s) => starter[s].by # t
                     /\ Finishing(s) => fin[s].by # t

(* session.stop_event and session.done_event are set. *)
StopSet(s) == fin[s].pc \notin {"none", "stop"}

(* Mutant: the worker is stopped, _processing is left on. *)
StopProcessingLeavesOn ==
  /\ buf' = {} /\ plateLocked' = FALSE /\ UNCHANGED processing

(* stop_processing(): the crops and the pending frame are discarded. *)
StopProcessing ==
  /\ buf' = {} /\ plateLocked' = FALSE /\ processing' = FALSE

(* Mutant: a new start keeps the crops of the last event. *)
StartProcessingKeepsCrops ==
  /\ paused' = FALSE /\ processing' = TRUE
  /\ UNCHANGED <<buf, plateLocked, attempts>>

(* start_processing() on a connected camera. *)
StartProcessing ==
  /\ paused' = FALSE /\ processing' = TRUE
  /\ IF processing
     THEN UNCHANGED <<buf, plateLocked, attempts>>
     ELSE buf' = {} /\ plateLocked' = FALSE /\ attempts' = 0

(* Mutant: nobody starts the queued trigger. *)
PopNextForgets(t) == queue # <<>> /\ UNCHANGED <<queue, starter>>

(* A trigger popped from _pending_triggers: thread t goes on to start it. *)
PopNext(t) ==
  /\ queue # <<>>
  /\ starter' = [starter EXCEPT ![Head(queue)] = [pc |-> "create", by |-> t]]
  /\ queue' = Tail(queue)

(* Mutant: no refusal before the deadline. *)
BeginFinalizeUnheld(s, t, forced, mayBreakHold) ==
  IF st[s] \in Closing
  THEN UNCHANGED <<st, fin>>
  ELSE /\ st' = [st EXCEPT ![s] = "FINALIZING"]
       /\ fin' = [fin EXCEPT ![s] =
            [pc |-> "stop", by |-> t, owns |-> owner = s, vin |-> NoVin,
             rfid |-> FALSE, status |-> forced]]

(* The entry section of _finalize_session: it closes a session once, and   *)
(* under the hard hold not before the deadline unless the reason may.      *)
BeginFinalize(s, t, forced, mayBreakHold) ==
  IF st[s] \in Closing \/ (HardHold /\ ~late[s] /\ ~mayBreakHold)
  THEN UNCHANGED <<st, fin>>
  ELSE /\ st' = [st EXCEPT ![s] = "FINALIZING"]
       /\ fin' = [fin EXCEPT ![s] =
            [pc |-> "stop", by |-> t, owns |-> owner = s, vin |-> NoVin,
             rfid |-> FALSE, status |-> forced]]

-----------------------------------------------------------------------------
(* PLC poll thread: plc_on and plc_off. *)

CaptureBusy == owner # None /\ st[owner] \notin Terminal

PlcSuppressDuplicate ==
  /\ CaptureBusy /\ ~QueueEnabled
  /\ suppressed' = suppressed \cup {trig + 1}
  /\ UNCHANGED <<queue, dropped, early, starter>>

PlcOverflowSilent ==      \* mutant: the refused trigger is not counted
  /\ CaptureBusy /\ QueueEnabled /\ Len(queue) >= MaxPending
  /\ UNCHANGED <<queue, suppressed, dropped, early, starter>>

PlcOverflow ==
  /\ CaptureBusy /\ QueueEnabled /\ Len(queue) >= MaxPending
  /\ dropped' = dropped \cup {trig + 1}
  /\ UNCHANGED <<queue, suppressed, early, starter>>

PlcEnqueue ==
  /\ CaptureBusy /\ QueueEnabled /\ Len(queue) < MaxPending
  /\ queue' = Append(queue, trig + 1)
  /\ UNCHANGED <<suppressed, dropped, early, starter>>

PlcSuppressEarly ==
  /\ ~CaptureBusy /\ ~QueueEnabled /\ early
  /\ suppressed' = suppressed \cup {trig + 1}
  /\ UNCHANGED <<queue, dropped, early, starter>>

PlcAccept ==
  /\ ~CaptureBusy /\ (QueueEnabled \/ ~early)
  /\ early' = MinInterval
  /\ starter' = [starter EXCEPT ![trig + 1] = [pc |-> "create", by |-> "plc"]]
  /\ UNCHANGED <<queue, suppressed, dropped>>

PlcThreadFree == plc = IdlePlc /\ ThreadFree("plc")

PlcOn ==
  /\ up /\ stopping.pc = "no" /\ PlcThreadFree
  /\ trig < MaxTriggers /\ trig' = trig + 1
  /\ \/ PlcSuppressDuplicate \/ PlcOverflow \/ PlcEnqueue
     \/ PlcSuppressEarly \/ PlcAccept
  /\ UNCHANGED <<procVars, sessionVars, ocrDone, row, shared, fin, wd, search,
                 rfidVars, threads>>

(* plc_off decides under the lock; the hard window ignores it while a      *)
(* session runs.                                                           *)
PlcOff ==
  /\ PlcStops /\ up /\ stopping.pc = "no" /\ PlcThreadFree
  /\ LET running == active # None /\ st[active] \notin Terminal IN
     /\ ~(running /\ Hold)
     /\ plc' = IF running THEN [pc |-> "finalize", sid |-> active]
                          ELSE [pc |-> "stop", sid |-> None]
  /\ UNCHANGED <<procVars, triggerVars, sessionVars, ocrDone, row, shared,
                 starter, fin, wd, search, rfidVars, infer, ocrVars>>

PlcOffFinalize ==
  /\ plc.pc = "finalize"
  /\ BeginFinalize(plc.sid, "plc", "none", FALSE)
  /\ plc' = [pc |-> "stop", sid |-> None]
  /\ UNCHANGED <<procVars, triggerVars, factVars, ocrDone, row, shared,
                 starter, wd, search, rfidVars, infer, ocrVars>>

(* plc_off's last calls: stop_processing and disconnect_camera. *)
PlcOffStop ==
  /\ plc.pc = "stop" /\ ThreadFree("plc")
  /\ StopProcessing
  /\ plc' = IdlePlc
  /\ UNCHANGED <<procVars, triggerVars, sessionVars, ocrDone, row, ownerVars,
                 inflight, attempts, paused, starter, fin, wd, search,
                 rfidVars, infer, ocrVars>>

-----------------------------------------------------------------------------
(* _start_session, in the thread starter[s].by. *)

StartCreate(s) ==
  /\ starter[s].pc = "create"
  /\ st' = [st EXCEPT ![s] = "ACTIVE"]
  /\ active' = s /\ owner' = s /\ last' = s
  /\ inflight' = None /\ attempts' = 0
  /\ ocrDone' = [ocrDone EXCEPT ![s] = FALSE]
  /\ starter' = [starter EXCEPT ![s].pc = "insert"]
  /\ UNCHANGED <<procVars, triggerVars, factVars, row, camVars, fin, wd,
                 search, rfidVars, threads>>

PendingRow == [NoRow EXCEPT !.status = "PENDING"]

AnnouncedReplaces(r) == PendingRow      \* mutant: INSERT OR REPLACE

(* The INSERT of a session_id that has a row raises IntegrityError. *)
Announced(r) == IF r = NoRow THEN PendingRow ELSE r

(* db.insert_pending_session; a failed insert is only logged. Only a       *)
(* trigger that waited in the queue can have missed its capture window.    *)
StartInsert(s) ==
  /\ starter[s].pc = "insert"
  /\ \/ row' = [row EXCEPT ![s] = Announced(@)]
     \/ DbMayFail /\ UNCHANGED row
  /\ \E next \in {"rfid"} \cup (IF starter[s].by = "plc" THEN {} ELSE {"missed"}) :
       starter' = [starter EXCEPT ![s].pc = next]
  /\ UNCHANGED <<procVars, triggerVars, sessionVars, ocrDone, shared, fin, wd,
                 search, rfidVars, threads>>

StartMissed(s) ==
  /\ starter[s].pc = "missed"
  /\ BeginFinalize(s, starter[s].by, "MISSED_CAPTURE_WINDOW", TRUE)
  /\ starter' = [starter EXCEPT ![s].pc = "done"]
  /\ UNCHANGED <<procVars, triggerVars, factVars, ocrDone, row, shared, wd,
                 search, rfidVars, threads>>

(* rfid_service.trigger_read: a busy reader leaves the session without one. *)
StartRfid(s) ==
  /\ starter[s].pc = "rfid"
  /\ IF RfidEnabled /\ busy = None
     THEN /\ busy' = s
          /\ reader' = [reader EXCEPT ![s].pc = "reading"]
     ELSE UNCHANGED rfidVars
  /\ starter' = [starter EXCEPT ![s].pc = "camera"]
  /\ UNCHANGED <<procVars, triggerVars, sessionVars, ocrDone, row, shared, fin,
                 wd, search, threads>>

(* _ensure_camera_stream and start_processing, or a camera that cannot be  *)
(* connected; nothing asks whether the session is still open.              *)
StartCamera(s) ==
  /\ starter[s].pc = "camera"
  /\ starter' = [starter EXCEPT ![s].pc = "watchdog"]
  /\ \/ /\ StartProcessing
        /\ search' = IF CameraSearch THEN [search EXCEPT ![s] = "armed"]
                                     ELSE search
     \/ UNCHANGED <<camVars, attempts, search>>
  /\ UNCHANGED <<procVars, triggerVars, sessionVars, ocrDone, row, ownerVars,
                 inflight, fin, wd, rfidVars, threads>>

StartWatchdogNever(s) ==  \* mutant: no watchdog is started
  /\ starter[s].pc = "watchdog"
  /\ starter' = [starter EXCEPT ![s].pc = "done"]
  /\ UNCHANGED <<procVars, triggerVars, sessionVars, ocrDone, row, shared, fin,
                 wd, search, rfidVars, threads>>

StartWatchdog(s) ==
  /\ starter[s].pc = "watchdog"
  /\ wd' = [wd EXCEPT ![s] = "waiting"]
  /\ starter' = [starter EXCEPT ![s].pc = "done"]
  /\ UNCHANGED <<procVars, triggerVars, sessionVars, ocrDone, row, shared, fin,
                 search, rfidVars, threads>>

-----------------------------------------------------------------------------
(* Time. *)

DeadlinePasses(s) ==
  /\ up /\ st[s] # "NONE" /\ ~late[s]
  /\ late' = [late EXCEPT ![s] = TRUE]
  /\ UNCHANGED <<procVars, triggerVars, st, vin, rfid, plateExit, ocrDone, row,
                 shared, starter, fin, wd, search, rfidVars, threads>>

(* minimum_body_interval_sec (90 s) is longer than the session window       *)
(* (30 s) and every timeout a thread can be held by after it (OCR grace     *)
(* 15 s, OCR task 12 s, SQLite 10 s): when it is over, all threads are idle. *)
Quiescent ==
  /\ infer.pc = "idle" /\ ocr.pc = "idle" /\ jobs = <<>>
  /\ \A s \in Session : /\ ~Starting(s) /\ ~Finishing(s)
                        /\ st[s] \in Terminal \cup {"NONE"}
                        /\ wd[s] \in {"none", "done"}
                        /\ search[s] \in {"none", "done"}
                        /\ reader[s].pc \in {"none", "done"}

IntervalElapses ==
  /\ up /\ early /\ Quiescent /\ early' = FALSE
  /\ UNCHANGED <<procVars, trig, queue, suppressed, dropped, sessionVars,
                 ocrDone, row, shared, starter, fin, wd, search, rfidVars,
                 threads>>

-----------------------------------------------------------------------------
(* The session's watchdog: _session_watch_inner. *)

WatchStep(s, next) ==
  /\ wd' = [wd EXCEPT ![s] = next]
  /\ UNCHANGED <<procVars, triggerVars, factVars, ocrDone, row, shared,
                 starter, search, rfidVars, threads>>

WatchClosedElsewhere(s) ==
  /\ wd[s] = "waiting" /\ (StopSet(s) \/ st[s] \in Terminal)
  /\ WatchStep(s, "done") /\ UNCHANGED <<st, fin>>

(* Under the hard hold an OCR job of this session that is still in flight  *)
(* and has given no VIN gets ocr_inflight_grace_sec more.                  *)
WatchDeadline(s) ==
  /\ wd[s] = "waiting" /\ late[s] /\ st[s] \notin Terminal
  /\ LET inFlight == inflight = s /\ vin[s] = NoVin /\ ~ocrDone[s]
     IN WatchStep(s, IF HardHold /\ inFlight THEN "grace" ELSE "closing")
  /\ UNCHANGED <<st, fin>>

WatchGraceForever(s) ==   \* mutant: event.wait() without a timeout
  /\ wd[s] = "grace" /\ ocrDone[s]
  /\ WatchStep(s, "closing") /\ UNCHANGED <<st, fin>>

WatchGraceOver(s) ==      \* the event was set, or the grace has run out
  /\ wd[s] = "grace"
  /\ WatchStep(s, "closing") /\ UNCHANGED <<st, fin>>

WatchClose(s) ==
  /\ wd[s] = "closing"
  /\ BeginFinalize(s, "watchdog", "none", TRUE)
  /\ WatchStep(s, "done")

-----------------------------------------------------------------------------
(* _finalize_session after its entry section, in the thread fin[s].by. *)

FinUnchanged ==
  UNCHANGED <<procVars, factVars, ocrDone, inflight, attempts, wd, search,
              rfidVars, threads>>

FinStop(s) ==
  /\ fin[s].pc = "stop"
  /\ fin' = [fin EXCEPT ![s].pc = IF fin[s].owns THEN "pause" ELSE "vin"]
  /\ IF fin[s].owns THEN StopProcessing
                    ELSE UNCHANGED <<buf, plateLocked, processing>>
  /\ UNCHANGED <<triggerVars, st, row, ownerVars, paused, starter>>
  /\ FinUnchanged

FinPause(s) ==
  /\ fin[s].pc = "pause"
  /\ fin' = [fin EXCEPT ![s].pc = "vin"]
  /\ paused' = TRUE
  /\ UNCHANGED <<triggerVars, st, row, ownerVars, buf, plateLocked, processing,
                 starter>>
  /\ FinUnchanged

(* vin_val is read without the lock; _save_failure_evidence follows. *)
FinReadVin(s) ==
  /\ fin[s].pc = "vin"
  /\ fin' = [fin EXCEPT ![s] = [@ EXCEPT !.pc = "status", !.vin = vin[s]]]
  /\ UNCHANGED <<triggerVars, st, row, ownerVars, camVars, starter>>
  /\ FinUnchanged

(* rfid_epc and, once more, session.vin are read for the status. *)
FinStatus(s) ==
  /\ fin[s].pc = "status"
  /\ LET success == vin[s] # NoVin /\ (~RfidEnabled \/ rfid[s])
         status  == IF fin[s].status # "none" THEN fin[s].status
                    ELSE IF success THEN "SUCCESS" ELSE "TIMEOUT"
     IN fin' = [fin EXCEPT ![s] = [@ EXCEPT !.pc = "write", !.rfid = rfid[s],
                                            !.status = status]]
  /\ UNCHANGED <<triggerVars, st, row, ownerVars, camVars, starter>>
  /\ FinUnchanged

AfterFailedWriteSilent(f) == [f EXCEPT !.pc = "commit"]   \* mutant
AfterFailedWrite(f) == [f EXCEPT !.pc = "commit", !.status = "FAILED"]

(* db.finalize_session_record: UPDATE by session_id, else INSERT. *)
FinWrite(s) ==
  /\ fin[s].pc = "write"
  /\ \/ /\ row' = [row EXCEPT ![s] = [status |-> fin[s].status,
                                      vin |-> fin[s].vin,
                                      rfid |-> fin[s].rfid]]
        /\ fin' = [fin EXCEPT ![s].pc = "commit"]
     \/ /\ DbMayFail /\ UNCHANGED row
        /\ fin' = [fin EXCEPT ![s] = AfterFailedWrite(@)]
  /\ UNCHANGED <<triggerVars, st, ownerVars, camVars, starter>>
  /\ FinUnchanged

WithoutKeeps(holder, s) == holder       \* mutant: the owner is not cleared
Without(holder, s) == IF holder = s THEN None ELSE holder

(* The closing section: terminal state, owners, the next queued trigger.   *)
(* on_vin_done, called after it, tells the PLC service.                    *)
FinCommit(s) ==
  /\ fin[s].pc = "commit"
  /\ fin' = [fin EXCEPT ![s].pc = "done"]
  /\ st' = [st EXCEPT ![s] = fin[s].status]
  /\ active' = Without(active, s) /\ owner' = Without(owner, s)
  /\ \/ owner' = None /\ PopNext(fin[s].by)
     \/ (owner' # None \/ queue = <<>>) /\ UNCHANGED <<queue, starter>>
  /\ UNCHANGED <<trig, early, suppressed, dropped, last, row, camVars>>
  /\ FinUnchanged

-----------------------------------------------------------------------------
(* _camera_search_watch: the camera is given up when it found no plate.    *)

SearchStep(s, next) ==
  /\ search' = [search EXCEPT ![s] = next]
  /\ UNCHANGED <<procVars, triggerVars, sessionVars, ocrDone, row, ownerVars,
                 inflight, attempts, starter, fin, wd, rfidVars, threads>>

SearchTimeout(s) ==
  /\ search[s] = "armed"
  /\ SearchStep(s, IF ~StopSet(s) /\ active = s /\ st[s] = "ACTIVE"
                   THEN "stop" ELSE "done")
  /\ UNCHANGED camVars

SearchStop(s) ==
  /\ search[s] = "stop"
  /\ StopProcessing /\ UNCHANGED paused
  /\ SearchStep(s, "pause")

SearchPause(s) ==
  /\ search[s] = "pause"
  /\ paused' = TRUE /\ UNCHANGED <<buf, plateLocked, processing>>
  /\ SearchStep(s, "done")

-----------------------------------------------------------------------------
(* Results: ownership check and completion, shared by RFID and OCR. *)

(* _validate_result_session *)
Accepts(s) ==
  \/ st[s] = "WAITING_RESULTS"
  \/ st[s] \in {"ACTIVE", "FINALIZING"} /\ active = s /\ ~late[s]

CompleteNowWithoutVin(s) ==             \* mutant: RFID alone completes
  /\ st[s] \notin Terminal \cup {"NONE"} /\ active = s
  /\ (rfid[s] \/ ~RfidRequired) /\ ~(Hold /\ RfidRequired)

(* _maybe_complete_session closes the session now. *)
CompleteNow(s) ==
  /\ st[s] \notin Terminal \cup {"NONE"}
  /\ active = s
  /\ vin[s] # NoVin /\ (rfid[s] \/ ~RfidRequired)
  /\ ~(Hold /\ RfidRequired)

(* The RFID worker thread of a session: RFIDService._do_read, then         *)
(* _on_rfid_result.  The _busy lock is released before the callback.       *)
ReaderStep(s, next) ==
  /\ reader' = [reader EXCEPT ![s].pc = next]
  /\ UNCHANGED <<procVars, triggerVars, late, vin, plateExit, ocrDone, row,
                 shared, starter, wd, search, busy, threads>>

RfidRead(s) ==
  /\ reader[s].pc = "reading"
  /\ \E tag \in BOOLEAN : reader' = [reader EXCEPT ![s] =
                                      [pc |-> "validate", tag |-> tag]]
  /\ busy' = None
  /\ UNCHANGED <<procVars, triggerVars, sessionVars, ocrDone, row, shared,
                 starter, fin, wd, search, threads>>

RfidValidate(s) ==
  /\ reader[s].pc = "validate"
  /\ ReaderStep(s, IF Accepts(s) THEN "store" ELSE "done")
  /\ UNCHANGED <<st, rfid, fin>>

RfidStore(s) ==
  /\ reader[s].pc = "store"
  /\ rfid' = [rfid EXCEPT ![s] = reader[s].tag]
  /\ ReaderStep(s, "complete") /\ UNCHANGED <<st, fin>>

RfidComplete(s) ==
  /\ reader[s].pc = "complete"
  /\ ReaderStep(s, IF CompleteNow(s) THEN "finalize" ELSE "done")
  /\ UNCHANGED <<st, rfid, fin>>

RfidFinalize(s) ==
  /\ reader[s].pc = "finalize"
  /\ BeginFinalize(s, "rfid", "none", FALSE)
  /\ ReaderStep(s, "done") /\ UNCHANGED rfid

-----------------------------------------------------------------------------
(* The OCR worker thread: OCRWorker._loop and the callbacks it makes. *)

OcrUnchanged ==
  UNCHANGED <<procVars, triggerVars, late, rfid, plateExit, row, ownerVars,
              attempts, buf, processing, paused, starter, wd, search, rfidVars,
              plc, infer>>

OcrTake ==
  /\ up /\ ocr.pc = "idle" /\ jobs # <<>> /\ ThreadFree("ocr")
  /\ ocr' = [IdleOcr EXCEPT !.pc = "read", !.sid = Head(jobs).sid,
                            !.of = Head(jobs).of]
  /\ jobs' = Tail(jobs)
  /\ UNCHANGED <<lastRead, manual, st, vin, ocrDone, fin, inflight,
                 plateLocked>>
  /\ OcrUnchanged

(* A VIN is fused from the job's crops.  The same VIN for the same session *)
(* again is a duplicate, of which nobody is told.                          *)
OcrReadVin ==
  /\ ocr.pc = "read"
  /\ \E b \in ocr.of :
       IF lastRead = <<ocr.sid, b>>
       THEN ocr' = IdleOcr /\ UNCHANGED lastRead
       ELSE ocr' = [ocr EXCEPT !.pc = "validate", !.vin = b]
            /\ lastRead' = <<ocr.sid, b>>
  /\ UNCHANGED <<jobs, manual, st, vin, ocrDone, fin, inflight, plateLocked>>
  /\ OcrUnchanged

(* _on_ocr_result, part 1: _validate_result_session. *)
OcrValidate ==
  /\ ocr.pc = "validate"
  /\ ocr' = [ocr EXCEPT !.pc = "signal",
                        !.ok = ocr.sid # None /\ Accepts(ocr.sid)]
  /\ UNCHANGED <<jobs, lastRead, manual, st, vin, ocrDone, fin, inflight,
                 plateLocked>>
  /\ OcrUnchanged

(* The event of the job's session, or of the last session if it has none. *)
EventOf(s) == IF s # None THEN s ELSE last

SignalDone(s) ==
  /\ inflight' = IF inflight = s THEN None ELSE inflight
  /\ ocrDone' = IF EventOf(s) = None THEN ocrDone
                ELSE [ocrDone EXCEPT ![EventOf(s)] = TRUE]

(* Part 2: the job is no longer in flight, and whoever waits for it is     *)
(* woken; the crop is then written to disk, the VIN is not yet stored.     *)
OcrSignal ==
  /\ ocr.pc = "signal"
  /\ SignalDone(ocr.sid)
  /\ ocr' = IF ocr.ok THEN [ocr EXCEPT !.pc = "store"]
            ELSE IF ocr.sid = None THEN [ocr EXCEPT !.pc = "manual"]
            ELSE IdleOcr
  /\ UNCHANGED <<jobs, lastRead, manual, st, vin, fin, plateLocked>>
  /\ OcrUnchanged

(* Part 3: the first VIN is the session's VIN. *)
OcrStore ==
  /\ ocr.pc = "store"
  /\ IF vin[ocr.sid] = NoVin
     THEN /\ vin' = [vin EXCEPT ![ocr.sid] = ocr.vin]
          /\ ocr' = [ocr EXCEPT !.pc = "complete"]
     ELSE ocr' = IdleOcr /\ UNCHANGED vin
  /\ UNCHANGED <<jobs, lastRead, manual, st, ocrDone, fin, inflight,
                 plateLocked>>
  /\ OcrUnchanged

(* _legacy_write_record: a VIN without a session becomes a record at once. *)
OcrManualRecord ==
  /\ ocr.pc = "manual"
  /\ manual' = TRUE /\ ocr' = IdleOcr
  /\ UNCHANGED <<jobs, lastRead, st, vin, ocrDone, fin, inflight, plateLocked>>
  /\ OcrUnchanged

OcrComplete ==
  /\ ocr.pc = "complete"
  /\ ocr' = IF CompleteNow(ocr.sid) THEN [ocr EXCEPT !.pc = "finalize"]
                                    ELSE IdleOcr
  /\ UNCHANGED <<jobs, lastRead, manual, st, vin, ocrDone, fin, inflight,
                 plateLocked>>
  /\ OcrUnchanged

OcrFinalize ==
  /\ ocr.pc = "finalize"
  /\ BeginFinalize(ocr.sid, "ocr", "none", FALSE)
  /\ ocr' = IdleOcr
  /\ UNCHANGED <<jobs, lastRead, manual, vin, ocrDone, inflight, plateLocked>>
  /\ OcrUnchanged

(* No valid VIN: _on_ocr_fail.  After the plate has left nothing can be    *)
(* retried; before that the plate is unlocked for another attempt.         *)
OcrFail ==
  /\ ocr.pc = "read"
  /\ SignalDone(ocr.sid)
  /\ LET s       == ocr.sid
         ignored == s # None /\ ( \/ active # s \/ st[s] \in Closing
                                  \/ vin[s] # NoVin )
         exited  == s # None /\ plateExit[s]
     IN ocr' = IF ignored THEN IdleOcr
               ELSE IF exited
               THEN IF ~RfidEnabled \/ rfid[s]
                    THEN [ocr EXCEPT !.pc = "finalize"] ELSE IdleOcr
               ELSE IF attempts >= MaxAttempts THEN IdleOcr
               ELSE [ocr EXCEPT !.pc = "unlock"]
  /\ UNCHANGED <<jobs, lastRead, manual, st, vin, fin, plateLocked>>
  /\ OcrUnchanged

OcrUnlock ==
  /\ ocr.pc = "unlock"
  /\ plateLocked' = FALSE /\ ocr' = IdleOcr
  /\ UNCHANGED <<jobs, lastRead, manual, st, vin, ocrDone, fin, inflight>>
  /\ OcrUnchanged

-----------------------------------------------------------------------------
(* The inference thread: _inference_loop, _handle_trigger and              *)
(* _submit_ocr_frames.                                                     *)

InferUnchanged ==
  UNCHANGED <<procVars, trig, early, suppressed, dropped, late, vin, rfid, row,
              active, last, fin, wd, search, rfidVars, plc, ocr, lastRead,
              manual>>

InferQuiet == UNCHANGED <<queue, st, plateExit, owner, starter>>

(* A frame is taken while processing is on, for the session that owns the  *)
(* capture now, whenever the camera sent it; the detector then runs.       *)
InferGrab ==
  /\ up /\ infer.pc = "idle" /\ ThreadFree("infer")
  /\ processing /\ ~paused
  /\ infer' = [IdleInfer EXCEPT !.pc = "frame", !.taken = owner]
  /\ UNCHANGED <<ocrDone, inflight, attempts, camVars, jobs>>
  /\ InferQuiet /\ InferUnchanged

(* Nothing comes of the frame: no plate yet, a low score, or a locked plate. *)
InferSkip ==
  /\ infer.pc = "frame"
  /\ infer' = IdleInfer
  /\ UNCHANGED <<ocrDone, inflight, attempts, camVars, jobs>>
  /\ InferQuiet /\ InferUnchanged

(* A plate: its crop joins the buffer; enough confirmed frames are submitted. *)
InferPlate ==
  /\ infer.pc = "frame" /\ ~plateLocked
  /\ buf' = buf \cup {infer.taken}
  /\ \/ infer' = IdleInfer
     \/ infer' = [infer EXCEPT !.pc = "submit", !.crops = buf']
  /\ UNCHANGED <<ocrDone, inflight, attempts, plateLocked, processing, paused,
                 jobs>>
  /\ InferQuiet /\ InferUnchanged

(* The plate has left: a buffered crop may still be submitted, then the    *)
(* capture is stopped and released.                                        *)
InferAbsent ==
  /\ infer.pc = "frame" /\ (plateLocked \/ buf # {})
  /\ \/ /\ ~plateLocked
        /\ infer' = [infer EXCEPT !.pc = "submit", !.crops = buf, !.exit = TRUE]
     \/ infer' = [infer EXCEPT !.pc = "stop"]
  /\ UNCHANGED <<ocrDone, inflight, attempts, camVars, jobs>>
  /\ InferQuiet /\ InferUnchanged

AfterSubmit == IF infer.exit THEN [infer EXCEPT !.pc = "stop"] ELSE IdleInfer

CropOwner == IF owner # None THEN owner ELSE active

(* _submit_ocr_frames, its lock section: the crops go to whoever owns the  *)
(* capture now, unless that session may not submit (any more).             *)
MaySubmit(s) ==
  s # None => /\ st[s] \in Open /\ ~late[s] /\ ~plateExit[s]
              /\ vin[s] = NoVin /\ attempts < MaxAttempts

InferSubmit ==
  /\ infer.pc = "submit" /\ MaySubmit(CropOwner)
  /\ attempts' = IF attempts >= MaxAttempts /\ CropOwner = None
                 THEN attempts ELSE attempts + 1     \* bound: manual submits
  /\ inflight' = CropOwner
  /\ ocrDone' = IF EventOf(CropOwner) = None THEN ocrDone
                ELSE [ocrDone EXCEPT ![EventOf(CropOwner)] = FALSE]
  /\ infer' = [infer EXCEPT !.pc = "enqueue", !.sid = CropOwner]
  /\ UNCHANGED <<camVars, jobs>>
  /\ InferQuiet /\ InferUnchanged

(* Refused by MaySubmit, the YOLO gate or the retry guard (no new evidence,  *)
(* or less than minimum_budget_sec to the deadline).                         *)
InferRefuse ==
  /\ infer.pc = "submit" /\ CropOwner # None
  /\ infer' = AfterSubmit
  /\ UNCHANGED <<ocrDone, inflight, attempts, camVars, jobs>>
  /\ InferQuiet /\ InferUnchanged

(* OCRWorker.submit_frames: a worker that has been stopped takes nothing. *)
InferEnqueue ==
  /\ infer.pc = "enqueue"
  /\ jobs' = IF processing
             THEN Append(jobs, [sid |-> infer.sid, of |-> infer.crops])
             ELSE jobs
  /\ plateLocked' = TRUE
  /\ infer' = AfterSubmit
  /\ UNCHANGED <<ocrDone, inflight, attempts, buf, processing, paused>>
  /\ InferQuiet /\ InferUnchanged

InferStop ==
  /\ infer.pc = "stop"
  /\ StopProcessing /\ UNCHANGED paused
  /\ infer' = [infer EXCEPT !.pc = "pause"]
  /\ UNCHANGED <<ocrDone, inflight, attempts, jobs>>
  /\ InferQuiet /\ InferUnchanged

InferPause ==
  /\ infer.pc = "pause"
  /\ paused' = TRUE /\ UNCHANGED <<buf, plateLocked, processing>>
  /\ infer' = [infer EXCEPT !.pc = "owner"]
  /\ UNCHANGED <<ocrDone, inflight, attempts, jobs>>
  /\ InferQuiet /\ InferUnchanged

(* owner = self._capture_owner_id, read without the lock. *)
InferOwner ==
  /\ infer.pc = "owner"
  /\ infer' = IF owner = None THEN IdleInfer
              ELSE [infer EXCEPT !.pc = "release", !.sid = owner]
  /\ UNCHANGED <<ocrDone, inflight, attempts, camVars, jobs>>
  /\ InferQuiet /\ InferUnchanged

Released(state) == IF state = "ACTIVE" THEN "WAITING_RESULTS" ELSE state

(* _release_capture(owner, "plate_exit"): the camera is free, the session  *)
(* waits for its results, the next queued trigger starts.                  *)
InferRelease ==
  /\ infer.pc = "release"
  /\ infer' = IdleInfer
  /\ IF owner # infer.sid
     THEN InferQuiet
     ELSE /\ owner' = None
          /\ plateExit' = [plateExit EXCEPT ![infer.sid] = TRUE]
          /\ st' = [st EXCEPT ![infer.sid] = Released(@)]
          /\ \/ PopNext("infer")
             \/ queue = <<>> /\ UNCHANGED <<queue, starter>>
  /\ UNCHANGED <<ocrDone, inflight, attempts, camVars, jobs>>
  /\ InferUnchanged

-----------------------------------------------------------------------------
(* Shutdown, crash and restart. *)

(* prepare_shutdown: queued triggers are dropped, open sessions cancelled. *)
ShutdownBegin ==
  /\ Shutdowns /\ up /\ stopping.pc = "no"
  /\ stopping' = [pc |-> "cancel", open |-> {s \in Session : st[s] \in Open}]
  /\ queue' = <<>>
  /\ dropped' = dropped \cup {queue[i] : i \in DOMAIN queue}
  /\ UNCHANGED <<up, crashes, lost, trig, early, suppressed, sessionVars,
                 ocrDone, row, shared, starter, fin, wd, search, rfidVars,
                 threads>>

ShutdownCancel(s) ==
  /\ stopping.pc = "cancel" /\ s \in stopping.open /\ ThreadFree("shutdown")
  /\ stopping' = [stopping EXCEPT !.open = @ \ {s}]
  /\ BeginFinalize(s, "shutdown", "CANCELLED", TRUE)
  /\ UNCHANGED <<up, crashes, lost, triggerVars, factVars, ocrDone, row,
                 shared, starter, wd, search, rfidVars, threads>>

(* The other threads are daemons: they die where they are. *)
ProcessGone ==
  /\ up' = FALSE
  /\ stopping' = [pc |-> "no", open |-> {}]
  /\ queue' = <<>> /\ early' = FALSE
  /\ suppressed' = {} /\ dropped' = {}
  /\ st' = [s \in Session |-> "NONE"] /\ late' = [s \in Session |-> FALSE]
  /\ vin' = [s \in Session |-> NoVin] /\ rfid' = [s \in Session |-> FALSE]
  /\ ocrDone' = [s \in Session |-> FALSE]
  /\ plateExit' = [s \in Session |-> FALSE]
  /\ active' = None /\ owner' = None /\ last' = None
  /\ inflight' = None /\ attempts' = 0
  /\ plateLocked' = FALSE /\ processing' = FALSE /\ paused' = FALSE /\ buf' = {}
  /\ starter' = [s \in Session |-> NoStarter]
  /\ fin' = [s \in Session |-> NoFin]
  /\ wd' = [s \in Session |-> "none"] /\ search' = [s \in Session |-> "none"]
  /\ reader' = [s \in Session |-> NoReader] /\ busy' = None
  /\ plc' = IdlePlc /\ infer' = IdleInfer
  /\ jobs' = <<>> /\ ocr' = IdleOcr /\ lastRead' = <<None, NoVin>>
  /\ lost' = lost \cup (1 .. trig)
  /\ UNCHANGED <<trig, row, manual>>

(* The lifespan handler goes on with stop_processing and disconnect_camera. *)
ShutdownStop ==
  /\ stopping.pc = "cancel" /\ stopping.open = {} /\ ThreadFree("shutdown")
  /\ stopping' = [stopping EXCEPT !.pc = "exit"]
  /\ StopProcessing
  /\ UNCHANGED <<up, crashes, lost, triggerVars, sessionVars, ocrDone, row,
                 ownerVars, inflight, attempts, paused, starter, fin, wd,
                 search, rfidVars, threads>>

ShutdownExit ==
  /\ stopping.pc = "exit"
  /\ ProcessGone /\ UNCHANGED crashes

(* Bound: before the first trigger a crash has nothing to lose.            *)
Crash ==
  /\ up /\ trig > 0 /\ crashes < MaxCrashes /\ crashes' = crashes + 1
  /\ ProcessGone

RecoveredNever(r) == r                  \* mutant: the rows are left alone

(* init_db: recover_incomplete_sessions fails the PENDING rows; an error of  *)
(* the database there is only logged.                                       *)
Recovered(r) ==
  IF r.status = "PENDING" THEN [r EXCEPT !.status = "FAILED"] ELSE r

Restart ==
  /\ ~up /\ up' = TRUE
  /\ \/ row' = [s \in Session |-> Recovered(row[s])]
     \/ DbMayFail /\ UNCHANGED row
  /\ UNCHANGED <<crashes, stopping, lost, triggerVars, sessionVars, ocrDone,
                 shared, starter, fin, wd, search, rfidVars, threads>>

-----------------------------------------------------------------------------
PlcThread == PlcOn \/ PlcOff \/ PlcOffFinalize \/ PlcOffStop

Start(s) == \/ StartCreate(s) \/ StartInsert(s) \/ StartMissed(s)
            \/ StartRfid(s) \/ StartCamera(s) \/ StartWatchdog(s)

Watch(s) == \/ WatchClosedElsewhere(s) \/ WatchDeadline(s)
            \/ WatchGraceOver(s) \/ WatchClose(s)

Finish(s) == \/ FinStop(s) \/ FinPause(s) \/ FinReadVin(s) \/ FinStatus(s)
             \/ FinWrite(s) \/ FinCommit(s)

Search(s) == SearchTimeout(s) \/ SearchStop(s) \/ SearchPause(s)

Reader(s) == \/ RfidRead(s) \/ RfidValidate(s) \/ RfidStore(s)
             \/ RfidComplete(s) \/ RfidFinalize(s)

OcrThread == \/ OcrTake \/ OcrReadVin \/ OcrValidate \/ OcrSignal \/ OcrStore
             \/ OcrManualRecord \/ OcrComplete \/ OcrFinalize \/ OcrFail
             \/ OcrUnlock

InferThread == \/ InferGrab \/ InferSkip \/ InferPlate \/ InferAbsent
               \/ InferSubmit \/ InferRefuse \/ InferEnqueue \/ InferStop
               \/ InferPause \/ InferOwner \/ InferRelease

Process == \/ ShutdownBegin \/ ShutdownStop \/ ShutdownExit
           \/ Crash \/ Restart

Next ==
  \/ PlcThread \/ OcrThread \/ InferThread \/ Process \/ IntervalElapses
  \/ \E s \in Session : \/ Start(s) \/ Watch(s) \/ Finish(s) \/ Search(s)
                        \/ Reader(s) \/ DeadlinePasses(s) \/ ShutdownCancel(s)

Spec == Init /\ [][Next]_vars

(* The threads run, time passes and database calls return.  Nothing makes  *)
(* the PLC deliver triggers, the process stop or a frame show a plate.     *)
Fairness ==
  \A s \in Session : /\ WF_vars(Start(s)) /\ WF_vars(Watch(s))
                     /\ WF_vars(Finish(s)) /\ WF_vars(DeadlinePasses(s))

FairSpec == Spec /\ Fairness
=============================================================================
