---------------------------- MODULE SessionProofs ----------------------------
(***************************************************************************)
(* Theorems about SessionLifecycle for every number of triggers and every  *)
(* configuration, in four parts:                                           *)
(*   its types, inductive as they stand;                                   *)
(*   the owners of the camera, the queue and the verdicts, by an invariant *)
(*   of the variables in coreVars only (most of what the camera, OCR and   *)
(*   RFID threads do leaves them alone);                                   *)
(*   what is recorded: the finality of verdicts, the recovery at a restart,*)
(*   the account of the triggers, early closes, and BodyCycle;             *)
(*   with one body at a time, that the VIN of a record is from its own     *)
(*   capture and the camera pipeline is off between bodies.                *)
(***************************************************************************)
EXTENDS SessionSafety, FiniteSetTheorems, TLAPS

-----------------------------------------------------------------------------
(* Types. *)

(* How the sets of sessions and VINs lie in each other. *)
LEMMA Sets ==
  /\ SessionOrNone = Session \cup {None} /\ SessionOrNone \subseteq VinType
  /\ None \in VinType /\ NoVin \in VinType
  /\ Session \subseteq Nat /\ None \notin Session
BY ConstantTypes DEF Session, SessionOrNone, None, NoVin, VinType

(* The states of a session. *)
LEMMA States ==
  /\ Open \subseteq StateType /\ Terminal \subseteq StateType
  /\ StateType = Terminal \cup {"NONE", "FINALIZING", "ACTIVE",
                                "WAITING_RESULTS"}
BY DEF StateType, Open, Closing, Terminal

(* Whoever begins a finalize, it leaves a typed state and a typed record of *)
(* the finalizer.                                                           *)
LEMMA BeginFinalizeTypes ==
  ASSUME SessionTypes, FinTypes, NEW s \in Session, NEW t \in Thread,
         NEW forced \in Terminal \cup {"none"}, NEW mayBreakHold \in BOOLEAN,
         BeginFinalize(s, t, forced, mayBreakHold)
  PROVE  st' \in [Session -> StateType] /\ FinTypes'
<1> DEFINE new == [pc |-> "stop", by |-> t, owns |-> owner = s, vin |-> NoVin,
                   rfid |-> FALSE, status |-> forced]
<1>1. new \in FinType
  BY Sets DEF FinType
<1>2. "FINALIZING" \in StateType
  BY States
<1>3. CASE UNCHANGED <<st, fin>>
  BY <1>3 DEF SessionTypes, FinTypes
<1>4. CASE st' = [st EXCEPT ![s] = "FINALIZING"] /\ fin' = [fin EXCEPT ![s] = new]
  BY <1>1, <1>2, <1>4 DEF SessionTypes, FinTypes
<1> QED BY <1>3, <1>4 DEF BeginFinalize

(* A popped trigger leaves a shorter queue and one more starter. *)
LEMMA PopNextTypes ==
  ASSUME TriggerTypes, StarterTypes, NEW t \in Thread, PopNext(t)
  PROVE  /\ Head(queue) \in Session /\ StarterTypes'
         /\ queue' \in Seq(Session) /\ Len(queue') <= MaxPending
<1>1. /\ Head(queue) \in Session
      /\ queue' \in Seq(Session) /\ Len(queue') <= MaxPending
  BY ConstantTypes DEF PopNext, TriggerTypes
<1>2. [pc |-> "create", by |-> t] \in StarterType
  BY DEF StarterType
<1>3. StarterTypes'
  BY <1>1, <1>2 DEF PopNext, StarterTypes
<1> QED BY <1>1, <1>3

(* The steps of the PLC poll thread keep the types. *)
LEMMA TypePlcThread ==
  ASSUME TypeOK, PlcThread PROVE TypeOK'
<1> USE ConstantTypes DEF TypeOK, procVars, triggerVars, factVars, sessionVars,
           ownerVars, camVars, ocrVars, rfidVars, shared, threads
<1>1. CASE PlcOn
  <2>1. TriggerTypes'
    <3>1. trig' \in 0 .. MaxTriggers /\ trig + 1 \in Session
      BY <1>1 DEF PlcOn, TriggerTypes, Session
    <3>2. CASE PlcEnqueue
      BY <3>1, <3>2, <1>1 DEF PlcEnqueue, TriggerTypes
    <3>3. CASE PlcAccept
      BY <3>1, <3>3, <1>1 DEF PlcAccept, TriggerTypes
    <3>4. CASE PlcSuppressDuplicate \/ PlcOverflow \/ PlcSuppressEarly
      BY <3>1, <3>4, <1>1 DEF PlcSuppressDuplicate, PlcOverflow, PlcSuppressEarly,
                            TriggerTypes
    <3> QED BY <3>2, <3>3, <3>4, <1>1 DEF PlcOn
  <2>2. StarterTypes'
    BY <1>1, Sets DEF StarterTypes, StarterType, ProcTypes, TriggerTypes,
              OwnerTypes, PlcTypes, PlcOn, PlcAccept, PlcEnqueue, PlcOverflow,
              PlcSuppressDuplicate, PlcSuppressEarly, PlcThreadFree,
              CaptureBusy, IdlePlc, Thread
  <2>3. ProcTypes' /\ SessionTypes' /\ RowTypes' /\ OwnerTypes' /\
          CameraTypes' /\ FinTypes' /\ WatchTypes' /\ RfidTypes' /\
          PlcTypes' /\ InferTypes' /\ OcrTypes'
    BY <1>1 DEF ProcTypes, SessionTypes, RowTypes, OwnerTypes, CameraTypes,
              FinTypes, WatchTypes, RfidTypes, PlcTypes, InferTypes, OcrTypes,
              PlcOn, PlcAccept, PlcEnqueue, PlcOverflow, PlcSuppressDuplicate,
              PlcSuppressEarly, PlcThreadFree, CaptureBusy, IdlePlc
  <2> QED BY <2>1, <2>2, <2>3 DEF TypeOK
<1>2. CASE PlcOff
  <2>1. PlcTypes'
    <3>1. /\ active # None => [pc |-> "finalize", sid |-> active] \in PlcType
          /\ [pc |-> "stop", sid |-> None] \in PlcType
      BY Sets DEF OwnerTypes, PlcType
    <3>2. \/ active # None /\ plc' = [pc |-> "finalize", sid |-> active]
          \/ plc' = [pc |-> "stop", sid |-> None]
      BY <1>2 DEF PlcOff
    <3> QED BY <3>1, <3>2 DEF PlcTypes
  <2>2. ProcTypes' /\ TriggerTypes' /\ SessionTypes' /\ RowTypes' /\
          OwnerTypes' /\ CameraTypes' /\ StarterTypes' /\ FinTypes' /\
          WatchTypes' /\ RfidTypes' /\ InferTypes' /\ OcrTypes'
    BY <1>2 DEF ProcTypes, TriggerTypes, SessionTypes, RowTypes, OwnerTypes,
              CameraTypes, StarterTypes, FinTypes, WatchTypes, RfidTypes,
              InferTypes, OcrTypes, PlcOff, PlcThreadFree, IdlePlc
  <2> QED BY <2>1, <2>2 DEF TypeOK
<1>3. CASE PlcOffFinalize
  <2>1. SessionTypes'
    <3>1. /\ plc.sid \in Session /\ "plc" \in Thread
          /\ "none" \in Terminal \cup {"none"}
      BY <1>3 DEF PlcOffFinalize, Thread, Terminal, PlcTypes, PlcType
    <3>2. BeginFinalize(plc.sid, "plc", "none", FALSE)
      BY <1>3 DEF PlcOffFinalize
    <3>3. st' \in [Session -> StateType] /\ FinTypes'
      BY <3>1, <3>2, BeginFinalizeTypes
    <3> QED BY <1>3, <3>3 DEF SessionTypes, PlcOffFinalize, factVars
  <2>2. FinTypes'
    <3>1. /\ plc.sid \in Session /\ "plc" \in Thread
          /\ "none" \in Terminal \cup {"none"}
      BY <1>3 DEF PlcOffFinalize, Thread, Terminal, PlcTypes, PlcType
    <3>2. BeginFinalize(plc.sid, "plc", "none", FALSE)
      BY <1>3 DEF PlcOffFinalize
    <3>3. st' \in [Session -> StateType] /\ FinTypes'
      BY <3>1, <3>2, BeginFinalizeTypes
    <3> QED BY <3>3
  <2>3. PlcTypes'
    BY <1>3, Sets DEF PlcTypes, PlcType, SessionTypes, OwnerTypes, FinTypes,
              PlcOffFinalize, BeginFinalize, HardHold
  <2>4. ProcTypes' /\ TriggerTypes' /\ RowTypes' /\ OwnerTypes' /\
          CameraTypes' /\ StarterTypes' /\ WatchTypes' /\ RfidTypes' /\
          InferTypes' /\ OcrTypes'
    BY <1>3 DEF ProcTypes, TriggerTypes, RowTypes, OwnerTypes, CameraTypes,
              StarterTypes, WatchTypes, RfidTypes, InferTypes, OcrTypes,
              PlcOffFinalize, BeginFinalize, HardHold
  <2> QED BY <2>1, <2>2, <2>3, <2>4 DEF TypeOK
<1>4. CASE PlcOffStop
  <2>1. CameraTypes'
    BY <1>4, Sets DEF CameraTypes, PlcTypes, PlcOffStop, IdlePlc,
              StopProcessing
  <2>2. PlcTypes'
    BY <1>4, Sets DEF PlcTypes, PlcType, CameraTypes, PlcOffStop, IdlePlc,
              StopProcessing
  <2>3. ProcTypes' /\ TriggerTypes' /\ SessionTypes' /\ RowTypes' /\
          OwnerTypes' /\ StarterTypes' /\ FinTypes' /\ WatchTypes' /\
          RfidTypes' /\ InferTypes' /\ OcrTypes'
    BY <1>4 DEF ProcTypes, TriggerTypes, SessionTypes, RowTypes, OwnerTypes,
              StarterTypes, FinTypes, WatchTypes, RfidTypes, InferTypes,
              OcrTypes, PlcOffStop, IdlePlc, StopProcessing
  <2> QED BY <2>1, <2>2, <2>3 DEF TypeOK
<1> QED BY <1>1, <1>2, <1>3, <1>4 DEF PlcThread

(* The steps of _start_session keep the types. *)
LEMMA TypeStart ==
  ASSUME TypeOK, NEW s \in Session, Start(s) PROVE TypeOK'
<1> USE ConstantTypes DEF TypeOK, procVars, triggerVars, factVars, sessionVars,
           ownerVars, camVars, ocrVars, rfidVars, shared, threads
<1>1. CASE StartCreate(s)
  <2>1. SessionTypes'
    BY <1>1, Sets DEF SessionTypes, StateType, OwnerTypes, StarterTypes,
              StartCreate, Terminal, Open, Closing
  <2>2. OwnerTypes'
    BY <1>1, Sets DEF OwnerTypes, SessionTypes, StarterTypes, StartCreate
  <2>3. StarterTypes'
    BY <1>1, Sets DEF StarterTypes, StarterType, SessionTypes, OwnerTypes,
              StartCreate, Thread
  <2>4. ProcTypes' /\ TriggerTypes' /\ RowTypes' /\ CameraTypes' /\
          FinTypes' /\ WatchTypes' /\ RfidTypes' /\ PlcTypes' /\
          InferTypes' /\ OcrTypes'
    BY <1>1 DEF ProcTypes, TriggerTypes, RowTypes, CameraTypes, FinTypes,
              WatchTypes, RfidTypes, PlcTypes, InferTypes, OcrTypes,
              StartCreate
  <2> QED BY <2>1, <2>2, <2>3, <2>4 DEF TypeOK
<1>2. CASE StartInsert(s)
  <2>1. RowTypes'
    <3>1. Announced(row[s]) \in RowType
      BY Sets DEF Announced, PendingRow, NoRow, RowTypes, RowType, RowState
    <3>2. row' = [row EXCEPT ![s] = Announced(row[s])] \/ UNCHANGED row
      BY <1>2 DEF StartInsert
    <3> QED BY <3>1, <3>2 DEF RowTypes
  <2>2. StarterTypes'
    BY <1>2, Sets DEF StarterTypes, StarterType, SessionTypes, RowTypes,
              StartInsert, Announced, NoRow, PendingRow, Thread
  <2>3. ProcTypes' /\ TriggerTypes' /\ SessionTypes' /\ OwnerTypes' /\
          CameraTypes' /\ FinTypes' /\ WatchTypes' /\ RfidTypes' /\
          PlcTypes' /\ InferTypes' /\ OcrTypes'
    BY <1>2 DEF ProcTypes, TriggerTypes, SessionTypes, OwnerTypes,
              CameraTypes, FinTypes, WatchTypes, RfidTypes, PlcTypes,
              InferTypes, OcrTypes, StartInsert, Announced, NoRow, PendingRow
  <2> QED BY <2>1, <2>2, <2>3 DEF TypeOK
<1>3. CASE StartMissed(s)
  <2>1. SessionTypes'
    <3>1. /\ s \in Session /\ starter[s].by \in Thread
          /\ "MISSED_CAPTURE_WINDOW" \in Terminal \cup {"none"}
      BY <1>3 DEF StartMissed, Thread, Terminal, StarterTypes, StarterType
    <3>2. BeginFinalize(s, starter[s].by, "MISSED_CAPTURE_WINDOW", TRUE)
      BY <1>3 DEF StartMissed
    <3>3. st' \in [Session -> StateType] /\ FinTypes'
      BY <3>1, <3>2, BeginFinalizeTypes
    <3> QED BY <1>3, <3>3 DEF SessionTypes, StartMissed, factVars
  <2>2. StarterTypes'
    <3>1. [starter[s] EXCEPT !.pc = "done"] \in StarterType
      BY DEF StarterTypes, StarterType
    <3>2. starter' = [starter EXCEPT ![s] = [starter[s] EXCEPT !.pc = "done"]]
      BY <1>3 DEF StartMissed
    <3> QED BY <3>1, <3>2 DEF StarterTypes
  <2>3. FinTypes'
    <3>1. /\ s \in Session /\ starter[s].by \in Thread
          /\ "MISSED_CAPTURE_WINDOW" \in Terminal \cup {"none"}
      BY <1>3 DEF StartMissed, Thread, Terminal, StarterTypes, StarterType
    <3>2. BeginFinalize(s, starter[s].by, "MISSED_CAPTURE_WINDOW", TRUE)
      BY <1>3 DEF StartMissed
    <3>3. st' \in [Session -> StateType] /\ FinTypes'
      BY <3>1, <3>2, BeginFinalizeTypes
    <3> QED BY <3>3
  <2>4. ProcTypes' /\ TriggerTypes' /\ RowTypes' /\ OwnerTypes' /\
          CameraTypes' /\ WatchTypes' /\ RfidTypes' /\ PlcTypes' /\
          InferTypes' /\ OcrTypes'
    BY <1>3 DEF ProcTypes, TriggerTypes, RowTypes, OwnerTypes, CameraTypes,
              WatchTypes, RfidTypes, PlcTypes, InferTypes, OcrTypes,
              StartMissed, BeginFinalize, HardHold
  <2> QED BY <2>1, <2>2, <2>3, <2>4 DEF TypeOK
<1>4. CASE StartRfid(s)
  <2>1. StarterTypes'
    BY <1>4, Sets DEF StarterTypes, StarterType, RfidTypes, StartRfid, Thread
  <2>2. RfidTypes'
    BY <1>4, Sets DEF RfidTypes, ReaderType, StarterTypes, StartRfid
  <2>3. ProcTypes' /\ TriggerTypes' /\ SessionTypes' /\ RowTypes' /\
          OwnerTypes' /\ CameraTypes' /\ FinTypes' /\ WatchTypes' /\
          PlcTypes' /\ InferTypes' /\ OcrTypes'
    BY <1>4 DEF ProcTypes, TriggerTypes, SessionTypes, RowTypes, OwnerTypes,
              CameraTypes, FinTypes, WatchTypes, PlcTypes, InferTypes,
              OcrTypes, StartRfid
  <2> QED BY <2>1, <2>2, <2>3 DEF TypeOK
<1>5. CASE StartCamera(s)
  <2>1. OwnerTypes'
    BY <1>5, Sets DEF OwnerTypes, CameraTypes, StarterTypes, WatchTypes,
              StartCamera, StartProcessing
  <2>2. CameraTypes'
    BY <1>5, Sets DEF CameraTypes, OwnerTypes, StarterTypes, WatchTypes,
              StartCamera, StartProcessing
  <2>3. StarterTypes'
    BY <1>5, Sets DEF StarterTypes, StarterType, OwnerTypes, CameraTypes,
              WatchTypes, StartCamera, StartProcessing, Thread
  <2>4. WatchTypes'
    BY <1>5, Sets DEF WatchTypes, OwnerTypes, CameraTypes, StarterTypes,
              StartCamera, StartProcessing
  <2>5. ProcTypes' /\ TriggerTypes' /\ SessionTypes' /\ RowTypes' /\
          FinTypes' /\ RfidTypes' /\ PlcTypes' /\ InferTypes' /\ OcrTypes'
    BY <1>5 DEF ProcTypes, TriggerTypes, SessionTypes, RowTypes, FinTypes,
              RfidTypes, PlcTypes, InferTypes, OcrTypes, StartCamera,
              StartProcessing
  <2> QED BY <2>1, <2>2, <2>3, <2>4, <2>5 DEF TypeOK
<1>6. CASE StartWatchdog(s)
  <2>1. StarterTypes'
    BY <1>6, Sets DEF StarterTypes, StarterType, WatchTypes, StartWatchdog,
              Thread
  <2>2. WatchTypes'
    BY <1>6, Sets DEF WatchTypes, StarterTypes, StartWatchdog
  <2>3. ProcTypes' /\ TriggerTypes' /\ SessionTypes' /\ RowTypes' /\
          OwnerTypes' /\ CameraTypes' /\ FinTypes' /\ RfidTypes' /\
          PlcTypes' /\ InferTypes' /\ OcrTypes'
    BY <1>6 DEF ProcTypes, TriggerTypes, SessionTypes, RowTypes, OwnerTypes,
              CameraTypes, FinTypes, RfidTypes, PlcTypes, InferTypes,
              OcrTypes, StartWatchdog
  <2> QED BY <2>1, <2>2, <2>3 DEF TypeOK
<1> QED BY <1>1, <1>2, <1>3, <1>4, <1>5, <1>6 DEF Start

(* The steps of a session watchdog keep the types. *)
LEMMA TypeWatch ==
  ASSUME TypeOK, NEW s \in Session, Watch(s) PROVE TypeOK'
<1> USE ConstantTypes DEF TypeOK, procVars, triggerVars, factVars, sessionVars,
           ownerVars, camVars, ocrVars, rfidVars, shared, threads
<1>1. CASE WatchClosedElsewhere(s)
  <2>1. WatchTypes'
    BY <1>1, Sets DEF WatchTypes, SessionTypes, FinTypes,
              WatchClosedElsewhere, StopSet, WatchStep
  <2>2. ProcTypes' /\ TriggerTypes' /\ SessionTypes' /\ RowTypes' /\
          OwnerTypes' /\ CameraTypes' /\ StarterTypes' /\ FinTypes' /\
          RfidTypes' /\ PlcTypes' /\ InferTypes' /\ OcrTypes'
    BY <1>1 DEF ProcTypes, TriggerTypes, SessionTypes, RowTypes, OwnerTypes,
              CameraTypes, StarterTypes, FinTypes, RfidTypes, PlcTypes,
              InferTypes, OcrTypes, WatchClosedElsewhere, StopSet, WatchStep
  <2> QED BY <2>1, <2>2 DEF TypeOK
<1>2. CASE WatchDeadline(s)
  <2>1. WatchTypes'
    BY <1>2, Sets DEF WatchTypes, SessionTypes, OwnerTypes, WatchDeadline,
              HardHold, WatchStep
  <2>2. ProcTypes' /\ TriggerTypes' /\ SessionTypes' /\ RowTypes' /\
          OwnerTypes' /\ CameraTypes' /\ StarterTypes' /\ FinTypes' /\
          RfidTypes' /\ PlcTypes' /\ InferTypes' /\ OcrTypes'
    BY <1>2 DEF ProcTypes, TriggerTypes, SessionTypes, RowTypes, OwnerTypes,
              CameraTypes, StarterTypes, FinTypes, RfidTypes, PlcTypes,
              InferTypes, OcrTypes, WatchDeadline, HardHold, WatchStep
  <2> QED BY <2>1, <2>2 DEF TypeOK
<1>3. CASE WatchGraceOver(s)
  <2>1. WatchTypes'
    BY <1>3, Sets DEF WatchTypes, WatchGraceOver, WatchStep
  <2>2. ProcTypes' /\ TriggerTypes' /\ SessionTypes' /\ RowTypes' /\
          OwnerTypes' /\ CameraTypes' /\ StarterTypes' /\ FinTypes' /\
          RfidTypes' /\ PlcTypes' /\ InferTypes' /\ OcrTypes'
    BY <1>3 DEF ProcTypes, TriggerTypes, SessionTypes, RowTypes, OwnerTypes,
              CameraTypes, StarterTypes, FinTypes, RfidTypes, PlcTypes,
              InferTypes, OcrTypes, WatchGraceOver, WatchStep
  <2> QED BY <2>1, <2>2 DEF TypeOK
<1>4. CASE WatchClose(s)
  <2>1. SessionTypes'
    <3>1. /\ s \in Session /\ "watchdog" \in Thread
          /\ "none" \in Terminal \cup {"none"}
      BY <1>4 DEF WatchClose, Thread, Terminal
    <3>2. BeginFinalize(s, "watchdog", "none", TRUE)
      BY <1>4 DEF WatchClose
    <3>3. st' \in [Session -> StateType] /\ FinTypes'
      BY <3>1, <3>2, BeginFinalizeTypes
    <3> QED BY <1>4, <3>3 DEF SessionTypes, WatchClose, WatchStep, factVars
  <2>2. FinTypes'
    <3>1. /\ s \in Session /\ "watchdog" \in Thread
          /\ "none" \in Terminal \cup {"none"}
      BY <1>4 DEF WatchClose, Thread, Terminal
    <3>2. BeginFinalize(s, "watchdog", "none", TRUE)
      BY <1>4 DEF WatchClose
    <3>3. st' \in [Session -> StateType] /\ FinTypes'
      BY <3>1, <3>2, BeginFinalizeTypes
    <3> QED BY <3>3
  <2>3. WatchTypes'
    BY <1>4, Sets DEF WatchTypes, SessionTypes, OwnerTypes, FinTypes,
              WatchClose, BeginFinalize, WatchStep, HardHold
  <2>4. ProcTypes' /\ TriggerTypes' /\ RowTypes' /\ OwnerTypes' /\
          CameraTypes' /\ StarterTypes' /\ RfidTypes' /\ PlcTypes' /\
          InferTypes' /\ OcrTypes'
    BY <1>4 DEF ProcTypes, TriggerTypes, RowTypes, OwnerTypes, CameraTypes,
              StarterTypes, RfidTypes, PlcTypes, InferTypes, OcrTypes,
              WatchClose, BeginFinalize, WatchStep, HardHold
  <2> QED BY <2>1, <2>2, <2>3, <2>4 DEF TypeOK
<1> QED BY <1>1, <1>2, <1>3, <1>4 DEF Watch

(* The steps of _finalize_session keep the types. *)
LEMMA TypeFinish ==
  ASSUME TypeOK, NEW s \in Session, Finish(s) PROVE TypeOK'
<1> USE ConstantTypes DEF TypeOK, procVars, triggerVars, factVars, sessionVars,
           ownerVars, camVars, ocrVars, rfidVars, shared, threads
<1>1. CASE FinStop(s)
  <2>1. CameraTypes'
    BY <1>1, Sets DEF CameraTypes, FinTypes, FinStop, FinUnchanged,
              StopProcessing
  <2>2. FinTypes'
    BY <1>1, Sets DEF FinTypes, FinType, CameraTypes, FinStop, FinUnchanged,
              StopProcessing, Thread
  <2>3. ProcTypes' /\ TriggerTypes' /\ SessionTypes' /\ RowTypes' /\
          OwnerTypes' /\ StarterTypes' /\ WatchTypes' /\ RfidTypes' /\
          PlcTypes' /\ InferTypes' /\ OcrTypes'
    BY <1>1 DEF ProcTypes, TriggerTypes, SessionTypes, RowTypes, OwnerTypes,
              StarterTypes, WatchTypes, RfidTypes, PlcTypes, InferTypes,
              OcrTypes, FinStop, FinUnchanged, StopProcessing
  <2> QED BY <2>1, <2>2, <2>3 DEF TypeOK
<1>2. CASE FinPause(s)
  <2>1. CameraTypes'
    BY <1>2, Sets DEF CameraTypes, FinTypes, FinPause, FinUnchanged
  <2>2. FinTypes'
    BY <1>2, Sets DEF FinTypes, FinType, CameraTypes, FinPause, FinUnchanged,
              Thread
  <2>3. ProcTypes' /\ TriggerTypes' /\ SessionTypes' /\ RowTypes' /\
          OwnerTypes' /\ StarterTypes' /\ WatchTypes' /\ RfidTypes' /\
          PlcTypes' /\ InferTypes' /\ OcrTypes'
    BY <1>2 DEF ProcTypes, TriggerTypes, SessionTypes, RowTypes, OwnerTypes,
              StarterTypes, WatchTypes, RfidTypes, PlcTypes, InferTypes,
              OcrTypes, FinPause, FinUnchanged
  <2> QED BY <2>1, <2>2, <2>3 DEF TypeOK
<1>3. CASE FinReadVin(s)
  <2>1. FinTypes'
    <3>1. [fin[s] EXCEPT !.pc = "status", !.vin = vin[s]] \in FinType
      BY <1>3, Sets DEF FinTypes, FinType, SessionTypes
    <3>2. fin' = [fin EXCEPT ![s] = [fin[s] EXCEPT !.pc = "status", !.vin = vin[s]]]
      BY <1>3 DEF FinReadVin
    <3> QED BY <3>1, <3>2 DEF FinTypes
  <2>2. ProcTypes' /\ TriggerTypes' /\ SessionTypes' /\ RowTypes' /\
          OwnerTypes' /\ CameraTypes' /\ StarterTypes' /\ WatchTypes' /\
          RfidTypes' /\ PlcTypes' /\ InferTypes' /\ OcrTypes'
    BY <1>3 DEF ProcTypes, TriggerTypes, SessionTypes, RowTypes, OwnerTypes,
              CameraTypes, StarterTypes, WatchTypes, RfidTypes, PlcTypes,
              InferTypes, OcrTypes, FinReadVin, FinUnchanged
  <2> QED BY <2>1, <2>2 DEF TypeOK
<1>4. CASE FinStatus(s)
  <2>1. FinTypes'
    <3> DEFINE new(v) == [fin[s] EXCEPT !.pc = "write", !.rfid = rfid[s],
                                       !.status = v]
    <3>1. \A v \in Terminal : new(v) \in FinType
      <4>1. fin[s] \in FinType /\ rfid[s] \in BOOLEAN
        BY DEF FinTypes, SessionTypes
      <4> QED BY <4>1 DEF FinType
    <3>2. PICK v \in Terminal : fin' = [fin EXCEPT ![s] = new(v)]
      <4>1. fin[s].status # "none" => fin[s].status \in Terminal
        BY DEF FinTypes, FinType
      <4> QED BY <1>4, <4>1 DEF FinStatus, Terminal
    <3> QED BY <3>1, <3>2 DEF FinTypes
  <2>2. ProcTypes' /\ TriggerTypes' /\ SessionTypes' /\ RowTypes' /\
          OwnerTypes' /\ CameraTypes' /\ StarterTypes' /\ WatchTypes' /\
          RfidTypes' /\ PlcTypes' /\ InferTypes' /\ OcrTypes'
    BY <1>4 DEF ProcTypes, TriggerTypes, SessionTypes, RowTypes, OwnerTypes,
              CameraTypes, StarterTypes, WatchTypes, RfidTypes, PlcTypes,
              InferTypes, OcrTypes, FinStatus, FinUnchanged
  <2> QED BY <2>1, <2>2 DEF TypeOK
<1>5. CASE FinWrite(s)
  <2>1. RowTypes'
    <3> DEFINE new == [status |-> fin[s].status, vin |-> fin[s].vin,
                       rfid |-> fin[s].rfid]
    <3>1. new \in RowType
      BY <1>5 DEF FinWrite, FinTypes, FinType, RowType, RowState
    <3>2. row' = [row EXCEPT ![s] = new] \/ UNCHANGED row
      BY <1>5 DEF FinWrite
    <3> QED BY <3>1, <3>2 DEF RowTypes
  <2>2. FinTypes'
    <3>1. /\ [fin[s] EXCEPT !.pc = "commit"] \in FinType
          /\ AfterFailedWrite(fin[s]) \in FinType
      BY <1>5 DEF FinWrite, FinTypes, FinType, AfterFailedWrite, Terminal
    <3>2. \/ fin' = [fin EXCEPT ![s] = [fin[s] EXCEPT !.pc = "commit"]]
          \/ fin' = [fin EXCEPT ![s] = AfterFailedWrite(fin[s])]
      BY <1>5 DEF FinWrite
    <3> QED BY <3>1, <3>2 DEF FinTypes
  <2>3. ProcTypes' /\ TriggerTypes' /\ SessionTypes' /\ OwnerTypes' /\
          CameraTypes' /\ StarterTypes' /\ WatchTypes' /\ RfidTypes' /\
          PlcTypes' /\ InferTypes' /\ OcrTypes'
    BY <1>5 DEF ProcTypes, TriggerTypes, SessionTypes, OwnerTypes,
              CameraTypes, StarterTypes, WatchTypes, RfidTypes, PlcTypes,
              InferTypes, OcrTypes, FinWrite, AfterFailedWrite, FinUnchanged
  <2> QED BY <2>1, <2>2, <2>3 DEF TypeOK
<1>6. CASE FinCommit(s)
  <2>1. TriggerTypes'
    <3>1. fin[s].by \in Thread
      BY DEF FinTypes, FinType, Thread
    <3>2. PopNext(fin[s].by) \/ UNCHANGED <<queue, starter>>
      BY <1>6 DEF FinCommit
    <3>3. /\ queue' \in Seq(Session) /\ Len(queue') <= MaxPending
          /\ StarterTypes'
      BY <3>1, <3>2, PopNextTypes DEF TriggerTypes, StarterTypes
    <3> QED BY <3>3, <1>6 DEF TriggerTypes, FinCommit
  <2>2. SessionTypes'
    <3>1. fin[s].status \in StateType
      BY <1>6, States DEF FinCommit, FinTypes, FinType
    <3>2. st' = [st EXCEPT ![s] = fin[s].status] /\ UNCHANGED <<factVars, ocrDone>>
      BY <1>6 DEF FinCommit, FinUnchanged
    <3> QED BY <3>1, <3>2 DEF SessionTypes, factVars
  <2>3. OwnerTypes'
    BY <1>6, Sets DEF OwnerTypes, TriggerTypes, SessionTypes, StarterTypes,
              FinTypes, FinCommit, FinUnchanged, PopNext, Without
  <2>4. StarterTypes'
    <3>1. fin[s].by \in Thread
      BY DEF FinTypes, FinType, Thread
    <3>2. PopNext(fin[s].by) \/ UNCHANGED <<queue, starter>>
      BY <1>6 DEF FinCommit
    <3>3. /\ queue' \in Seq(Session) /\ Len(queue') <= MaxPending
          /\ StarterTypes'
      BY <3>1, <3>2, PopNextTypes DEF TriggerTypes, StarterTypes
    <3> QED BY <3>3
  <2>5. FinTypes'
    <3>1. [fin[s] EXCEPT !.pc = "done"] \in FinType
      BY <1>6 DEF FinCommit, FinTypes, FinType
    <3>2. fin' = [fin EXCEPT ![s] = [fin[s] EXCEPT !.pc = "done"]]
      BY <1>6 DEF FinCommit
    <3> QED BY <3>1, <3>2 DEF FinTypes
  <2>6. ProcTypes' /\ RowTypes' /\ CameraTypes' /\ WatchTypes' /\
          RfidTypes' /\ PlcTypes' /\ InferTypes' /\ OcrTypes'
    BY <1>6 DEF ProcTypes, RowTypes, CameraTypes, WatchTypes, RfidTypes,
              PlcTypes, InferTypes, OcrTypes, FinCommit, FinUnchanged,
              PopNext, Without
  <2> QED BY <2>1, <2>2, <2>3, <2>4, <2>5, <2>6 DEF TypeOK
<1> QED BY <1>1, <1>2, <1>3, <1>4, <1>5, <1>6 DEF Finish

(* The steps of the camera search watch keep the types. *)
LEMMA TypeSearch ==
  ASSUME TypeOK, NEW s \in Session, Search(s) PROVE TypeOK'
<1> USE ConstantTypes DEF TypeOK, procVars, triggerVars, factVars, sessionVars,
           ownerVars, camVars, ocrVars, rfidVars, shared, threads
<1>1. CASE SearchTimeout(s)
  <2>1. WatchTypes'
    BY <1>1, Sets DEF WatchTypes, SessionTypes, OwnerTypes, FinTypes,
              SearchTimeout, SearchStep, StopSet
  <2>2. ProcTypes' /\ TriggerTypes' /\ SessionTypes' /\ RowTypes' /\
          OwnerTypes' /\ CameraTypes' /\ StarterTypes' /\ FinTypes' /\
          RfidTypes' /\ PlcTypes' /\ InferTypes' /\ OcrTypes'
    BY <1>1 DEF ProcTypes, TriggerTypes, SessionTypes, RowTypes, OwnerTypes,
              CameraTypes, StarterTypes, FinTypes, RfidTypes, PlcTypes,
              InferTypes, OcrTypes, SearchTimeout, SearchStep, StopSet
  <2> QED BY <2>1, <2>2 DEF TypeOK
<1>2. CASE SearchStop(s)
  <2>1. CameraTypes'
    BY <1>2, Sets DEF CameraTypes, WatchTypes, SearchStop, SearchStep,
              StopProcessing
  <2>2. WatchTypes'
    BY <1>2, Sets DEF WatchTypes, CameraTypes, SearchStop, SearchStep,
              StopProcessing
  <2>3. ProcTypes' /\ TriggerTypes' /\ SessionTypes' /\ RowTypes' /\
          OwnerTypes' /\ StarterTypes' /\ FinTypes' /\ RfidTypes' /\
          PlcTypes' /\ InferTypes' /\ OcrTypes'
    BY <1>2 DEF ProcTypes, TriggerTypes, SessionTypes, RowTypes, OwnerTypes,
              StarterTypes, FinTypes, RfidTypes, PlcTypes, InferTypes,
              OcrTypes, SearchStop, SearchStep, StopProcessing
  <2> QED BY <2>1, <2>2, <2>3 DEF TypeOK
<1>3. CASE SearchPause(s)
  <2>1. CameraTypes'
    BY <1>3, Sets DEF CameraTypes, WatchTypes, SearchPause, SearchStep
  <2>2. WatchTypes'
    BY <1>3, Sets DEF WatchTypes, CameraTypes, SearchPause, SearchStep
  <2>3. ProcTypes' /\ TriggerTypes' /\ SessionTypes' /\ RowTypes' /\
          OwnerTypes' /\ StarterTypes' /\ FinTypes' /\ RfidTypes' /\
          PlcTypes' /\ InferTypes' /\ OcrTypes'
    BY <1>3 DEF ProcTypes, TriggerTypes, SessionTypes, RowTypes, OwnerTypes,
              StarterTypes, FinTypes, RfidTypes, PlcTypes, InferTypes,
              OcrTypes, SearchPause, SearchStep
  <2> QED BY <2>1, <2>2, <2>3 DEF TypeOK
<1> QED BY <1>1, <1>2, <1>3 DEF Search

(* The steps of an RFID worker keep the types. *)
LEMMA TypeReader ==
  ASSUME TypeOK, NEW s \in Session, Reader(s) PROVE TypeOK'
<1> USE ConstantTypes DEF TypeOK, procVars, triggerVars, factVars, sessionVars,
           ownerVars, camVars, ocrVars, rfidVars, shared, threads
<1>1. CASE RfidRead(s)
  <2>1. RfidTypes'
    BY <1>1, Sets DEF RfidTypes, ReaderType, RfidRead
  <2>2. ProcTypes' /\ TriggerTypes' /\ SessionTypes' /\ RowTypes' /\
          OwnerTypes' /\ CameraTypes' /\ StarterTypes' /\ FinTypes' /\
          WatchTypes' /\ PlcTypes' /\ InferTypes' /\ OcrTypes'
    BY <1>1 DEF ProcTypes, TriggerTypes, SessionTypes, RowTypes, OwnerTypes,
              CameraTypes, StarterTypes, FinTypes, WatchTypes, PlcTypes,
              InferTypes, OcrTypes, RfidRead
  <2> QED BY <2>1, <2>2 DEF TypeOK
<1>2. CASE RfidValidate(s)
  <2>1. RfidTypes'
    <3>1. \A next \in {"store", "complete", "finalize", "done"} :
            [reader[s] EXCEPT !.pc = next] \in ReaderType
      BY DEF RfidTypes, ReaderType
    <3>2. PICK next \in {"store", "complete", "finalize", "done"} :
            /\ reader' = [reader EXCEPT ![s] = [reader[s] EXCEPT !.pc = next]]
            /\ UNCHANGED busy
      BY <1>2 DEF RfidValidate, ReaderStep
    <3> QED BY <3>1, <3>2 DEF RfidTypes
  <2>2. ProcTypes' /\ TriggerTypes' /\ SessionTypes' /\ RowTypes' /\
          OwnerTypes' /\ CameraTypes' /\ StarterTypes' /\ FinTypes' /\
          WatchTypes' /\ PlcTypes' /\ InferTypes' /\ OcrTypes'
    BY <1>2 DEF ProcTypes, TriggerTypes, SessionTypes, RowTypes, OwnerTypes,
              CameraTypes, StarterTypes, FinTypes, WatchTypes, PlcTypes,
              InferTypes, OcrTypes, RfidValidate, Accepts, ReaderStep
  <2> QED BY <2>1, <2>2 DEF TypeOK
<1>3. CASE RfidStore(s)
  <2>1. SessionTypes'
    <3>1. reader[s].tag \in BOOLEAN
      BY DEF RfidTypes, ReaderType
    <3>2. /\ UNCHANGED <<st, late, vin, plateExit, ocrDone>>
          /\ rfid' = [rfid EXCEPT ![s] = reader[s].tag]
      BY <1>3 DEF RfidStore, ReaderStep
    <3> QED BY <3>1, <3>2 DEF SessionTypes
  <2>2. RfidTypes'
    <3>1. \A next \in {"store", "complete", "finalize", "done"} :
            [reader[s] EXCEPT !.pc = next] \in ReaderType
      BY DEF RfidTypes, ReaderType
    <3>2. PICK next \in {"store", "complete", "finalize", "done"} :
            /\ reader' = [reader EXCEPT ![s] = [reader[s] EXCEPT !.pc = next]]
            /\ UNCHANGED busy
      BY <1>3 DEF RfidStore, ReaderStep
    <3> QED BY <3>1, <3>2 DEF RfidTypes
  <2>3. ProcTypes' /\ TriggerTypes' /\ RowTypes' /\ OwnerTypes' /\
          CameraTypes' /\ StarterTypes' /\ FinTypes' /\ WatchTypes' /\
          PlcTypes' /\ InferTypes' /\ OcrTypes'
    BY <1>3 DEF ProcTypes, TriggerTypes, RowTypes, OwnerTypes, CameraTypes,
              StarterTypes, FinTypes, WatchTypes, PlcTypes, InferTypes,
              OcrTypes, RfidStore, ReaderStep
  <2> QED BY <2>1, <2>2, <2>3 DEF TypeOK
<1>4. CASE RfidComplete(s)
  <2>1. RfidTypes'
    <3>1. \A next \in {"store", "complete", "finalize", "done"} :
            [reader[s] EXCEPT !.pc = next] \in ReaderType
      BY DEF RfidTypes, ReaderType
    <3>2. PICK next \in {"store", "complete", "finalize", "done"} :
            /\ reader' = [reader EXCEPT ![s] = [reader[s] EXCEPT !.pc = next]]
            /\ UNCHANGED busy
      BY <1>4 DEF RfidComplete, ReaderStep
    <3> QED BY <3>1, <3>2 DEF RfidTypes
  <2>2. ProcTypes' /\ TriggerTypes' /\ SessionTypes' /\ RowTypes' /\
          OwnerTypes' /\ CameraTypes' /\ StarterTypes' /\ FinTypes' /\
          WatchTypes' /\ PlcTypes' /\ InferTypes' /\ OcrTypes'
    BY <1>4 DEF ProcTypes, TriggerTypes, SessionTypes, RowTypes, OwnerTypes,
              CameraTypes, StarterTypes, FinTypes, WatchTypes, PlcTypes,
              InferTypes, OcrTypes, RfidComplete, CompleteNow, ReaderStep,
              RfidRequired
  <2> QED BY <2>1, <2>2 DEF TypeOK
<1>5. CASE RfidFinalize(s)
  <2>1. SessionTypes'
    <3>1. /\ s \in Session /\ "rfid" \in Thread
          /\ "none" \in Terminal \cup {"none"}
      BY <1>5 DEF RfidFinalize, Thread, Terminal
    <3>2. BeginFinalize(s, "rfid", "none", FALSE)
      BY <1>5 DEF RfidFinalize
    <3>3. st' \in [Session -> StateType] /\ FinTypes'
      BY <3>1, <3>2, BeginFinalizeTypes
    <3> QED BY <1>5, <3>3 DEF SessionTypes, RfidFinalize, ReaderStep
  <2>2. FinTypes'
    <3>1. /\ s \in Session /\ "rfid" \in Thread
          /\ "none" \in Terminal \cup {"none"}
      BY <1>5 DEF RfidFinalize, Thread, Terminal
    <3>2. BeginFinalize(s, "rfid", "none", FALSE)
      BY <1>5 DEF RfidFinalize
    <3>3. st' \in [Session -> StateType] /\ FinTypes'
      BY <3>1, <3>2, BeginFinalizeTypes
    <3> QED BY <3>3
  <2>3. RfidTypes'
    <3>1. \A next \in {"store", "complete", "finalize", "done"} :
            [reader[s] EXCEPT !.pc = next] \in ReaderType
      BY DEF RfidTypes, ReaderType
    <3>2. PICK next \in {"store", "complete", "finalize", "done"} :
            /\ reader' = [reader EXCEPT ![s] = [reader[s] EXCEPT !.pc = next]]
            /\ UNCHANGED busy
      BY <1>5 DEF RfidFinalize, ReaderStep
    <3> QED BY <3>1, <3>2 DEF RfidTypes
  <2>4. ProcTypes' /\ TriggerTypes' /\ RowTypes' /\ OwnerTypes' /\
          CameraTypes' /\ StarterTypes' /\ WatchTypes' /\ PlcTypes' /\
          InferTypes' /\ OcrTypes'
    BY <1>5 DEF ProcTypes, TriggerTypes, RowTypes, OwnerTypes, CameraTypes,
              StarterTypes, WatchTypes, PlcTypes, InferTypes, OcrTypes,
              RfidFinalize, BeginFinalize, ReaderStep, HardHold
  <2> QED BY <2>1, <2>2, <2>3, <2>4 DEF TypeOK
<1> QED BY <1>1, <1>2, <1>3, <1>4, <1>5 DEF Reader

(* The steps of the OCR worker keep the types. *)
LEMMA TypeOcrThread ==
  ASSUME TypeOK, OcrThread PROVE TypeOK'
<1> USE ConstantTypes DEF TypeOK, procVars, triggerVars, factVars, sessionVars,
           ownerVars, camVars, ocrVars, rfidVars, shared, threads
<1>1. CASE OcrTake
  <2>1. OcrTypes'
    <3>1. Head(jobs) \in JobType /\ Tail(jobs) \in Seq(JobType)
      BY <1>1 DEF OcrTake, OcrTypes
    <3>2. [IdleOcr EXCEPT !.pc = "read", !.sid = Head(jobs).sid,
                          !.of = Head(jobs).of] \in OcrType
      BY <3>1, Sets DEF IdleOcr, OcrType, JobType
    <3> QED BY <1>1, <3>1, <3>2 DEF OcrTake, OcrTypes
  <2>2. ProcTypes' /\ TriggerTypes' /\ SessionTypes' /\ RowTypes' /\
          OwnerTypes' /\ CameraTypes' /\ StarterTypes' /\ FinTypes' /\
          WatchTypes' /\ RfidTypes' /\ PlcTypes' /\ InferTypes'
    BY <1>1 DEF ProcTypes, TriggerTypes, SessionTypes, RowTypes, OwnerTypes,
              CameraTypes, StarterTypes, FinTypes, WatchTypes, RfidTypes,
              PlcTypes, InferTypes, OcrTake, IdleOcr, OcrUnchanged
  <2> QED BY <2>1, <2>2 DEF TypeOK
<1>2. CASE OcrReadVin
  <2>1. OcrTypes'
    <3>1. PICK b \in ocr.of :
            \/ ocr' = IdleOcr /\ UNCHANGED lastRead
            \/ /\ ocr' = [ocr EXCEPT !.pc = "validate", !.vin = b]
               /\ lastRead' = <<ocr.sid, b>>
      BY <1>2 DEF OcrReadVin
    <3>2. b \in SessionOrNone /\ b \in VinType /\ ocr.sid \in SessionOrNone
      BY Sets DEF OcrTypes, OcrType
    <3>3. IdleOcr \in OcrType
      BY Sets DEF IdleOcr, OcrType
    <3>4. [ocr EXCEPT !.pc = "validate", !.vin = b] \in OcrType
      BY <3>2 DEF OcrTypes, OcrType
    <3> QED BY <3>1, <3>2, <3>3, <3>4, <1>2 DEF OcrReadVin, OcrTypes
  <2>2. ProcTypes' /\ TriggerTypes' /\ SessionTypes' /\ RowTypes' /\
          OwnerTypes' /\ CameraTypes' /\ StarterTypes' /\ FinTypes' /\
          WatchTypes' /\ RfidTypes' /\ PlcTypes' /\ InferTypes'
    BY <1>2 DEF ProcTypes, TriggerTypes, SessionTypes, RowTypes, OwnerTypes,
              CameraTypes, StarterTypes, FinTypes, WatchTypes, RfidTypes,
              PlcTypes, InferTypes, OcrReadVin, IdleOcr, OcrUnchanged
  <2> QED BY <2>1, <2>2 DEF TypeOK
<1>3. CASE OcrValidate
  <2>1. OcrTypes'
    <3>1. \A ok \in BOOLEAN : (ok => ocr.sid # None) =>
            [ocr EXCEPT !.pc = "signal", !.ok = ok] \in OcrType
      BY Sets DEF OcrTypes, OcrType
    <3>2. (ocr.sid # None /\ Accepts(ocr.sid)) \in BOOLEAN
      BY DEF Accepts
    <3>3. /\ UNCHANGED <<jobs, lastRead, manual>>
          /\ ocr' = [ocr EXCEPT !.pc = "signal",
                                !.ok = ocr.sid # None /\ Accepts(ocr.sid)]
      BY <1>3 DEF OcrValidate, OcrUnchanged
    <3> QED BY <3>1, <3>2, <3>3 DEF OcrTypes
  <2>2. ProcTypes' /\ TriggerTypes' /\ SessionTypes' /\ RowTypes' /\
          OwnerTypes' /\ CameraTypes' /\ StarterTypes' /\ FinTypes' /\
          WatchTypes' /\ RfidTypes' /\ PlcTypes' /\ InferTypes'
    BY <1>3 DEF ProcTypes, TriggerTypes, SessionTypes, RowTypes, OwnerTypes,
              CameraTypes, StarterTypes, FinTypes, WatchTypes, RfidTypes,
              PlcTypes, InferTypes, OcrValidate, Accepts, OcrUnchanged
  <2> QED BY <2>1, <2>2 DEF TypeOK
<1>4. CASE OcrSignal
  <2>1. SessionTypes'
    BY <1>4, Sets DEF SessionTypes, StateType, OwnerTypes, OcrTypes,
              OcrSignal, IdleOcr, OcrUnchanged, SignalDone, EventOf
  <2>2. OwnerTypes'
    BY <1>4, Sets DEF OwnerTypes, SessionTypes, OcrTypes, OcrSignal, IdleOcr,
              OcrUnchanged, SignalDone, EventOf
  <2>3. OcrTypes'
    BY <1>4, Sets DEF OcrTypes, JobType, OcrType, SessionTypes, OwnerTypes,
              OcrSignal, IdleOcr, OcrUnchanged, SignalDone, EventOf
  <2>4. ProcTypes' /\ TriggerTypes' /\ RowTypes' /\ CameraTypes' /\
          StarterTypes' /\ FinTypes' /\ WatchTypes' /\ RfidTypes' /\
          PlcTypes' /\ InferTypes'
    BY <1>4 DEF ProcTypes, TriggerTypes, RowTypes, CameraTypes, StarterTypes,
              FinTypes, WatchTypes, RfidTypes, PlcTypes, InferTypes,
              OcrSignal, IdleOcr, OcrUnchanged, SignalDone, EventOf
  <2> QED BY <2>1, <2>2, <2>3, <2>4 DEF TypeOK
<1>5. CASE OcrStore
  <2>1. SessionTypes'
    <3>1. ocr.vin \in VinType
      BY DEF OcrTypes, OcrType
    <3>2. /\ UNCHANGED <<st, late, rfid, plateExit, ocrDone>>
          /\ UNCHANGED vin \/ vin' = [vin EXCEPT ![ocr.sid] = ocr.vin]
      BY <1>5 DEF OcrStore, OcrUnchanged
    <3> QED BY <3>1, <3>2 DEF SessionTypes
  <2>2. OcrTypes'
    <3>1. /\ IdleOcr \in OcrType
          /\ ocr.pc = "store" => [ocr EXCEPT !.pc = "complete"] \in OcrType
      BY Sets DEF IdleOcr, OcrTypes, OcrType
    <3> QED BY <1>5, <3>1 DEF OcrStore, OcrTypes
  <2>3. ProcTypes' /\ TriggerTypes' /\ RowTypes' /\ OwnerTypes' /\
          CameraTypes' /\ StarterTypes' /\ FinTypes' /\ WatchTypes' /\
          RfidTypes' /\ PlcTypes' /\ InferTypes'
    BY <1>5 DEF ProcTypes, TriggerTypes, RowTypes, OwnerTypes, CameraTypes,
              StarterTypes, FinTypes, WatchTypes, RfidTypes, PlcTypes,
              InferTypes, OcrStore, IdleOcr, OcrUnchanged
  <2> QED BY <2>1, <2>2, <2>3 DEF TypeOK
<1>6. CASE OcrManualRecord
  <2>1. OcrTypes'
    BY <1>6, Sets DEF OcrTypes, JobType, OcrType, SessionTypes,
              OcrManualRecord, IdleOcr, OcrUnchanged
  <2>2. ProcTypes' /\ TriggerTypes' /\ SessionTypes' /\ RowTypes' /\
          OwnerTypes' /\ CameraTypes' /\ StarterTypes' /\ FinTypes' /\
          WatchTypes' /\ RfidTypes' /\ PlcTypes' /\ InferTypes'
    BY <1>6 DEF ProcTypes, TriggerTypes, SessionTypes, RowTypes, OwnerTypes,
              CameraTypes, StarterTypes, FinTypes, WatchTypes, RfidTypes,
              PlcTypes, InferTypes, OcrManualRecord, IdleOcr, OcrUnchanged
  <2> QED BY <2>1, <2>2 DEF TypeOK
<1>7. CASE OcrComplete
  <2>1. OcrTypes'
    BY <1>7, Sets DEF OcrTypes, JobType, OcrType, ProcTypes, TriggerTypes,
              SessionTypes, RowTypes, OwnerTypes, CameraTypes, StarterTypes,
              FinTypes, WatchTypes, RfidTypes, PlcTypes, InferTypes,
              OcrComplete, CompleteNow, IdleOcr, OcrUnchanged, RfidRequired
  <2>2. ProcTypes' /\ TriggerTypes' /\ SessionTypes' /\ RowTypes' /\
          OwnerTypes' /\ CameraTypes' /\ StarterTypes' /\ FinTypes' /\
          WatchTypes' /\ RfidTypes' /\ PlcTypes' /\ InferTypes'
    BY <1>7 DEF ProcTypes, TriggerTypes, SessionTypes, RowTypes, OwnerTypes,
              CameraTypes, StarterTypes, FinTypes, WatchTypes, RfidTypes,
              PlcTypes, InferTypes, OcrComplete, CompleteNow, IdleOcr,
              OcrUnchanged, RfidRequired
  <2> QED BY <2>1, <2>2 DEF TypeOK
<1>8. CASE OcrFinalize
  <2>1. SessionTypes'
    <3>1. /\ ocr.sid \in Session /\ "ocr" \in Thread
          /\ "none" \in Terminal \cup {"none"}
      BY <1>8 DEF OcrFinalize, Thread, Terminal, OcrTypes, OcrType
    <3>2. BeginFinalize(ocr.sid, "ocr", "none", FALSE)
      BY <1>8 DEF OcrFinalize
    <3>3. st' \in [Session -> StateType] /\ FinTypes'
      BY <3>1, <3>2, BeginFinalizeTypes
    <3> QED BY <1>8, <3>3 DEF SessionTypes, OcrFinalize, OcrUnchanged
  <2>2. FinTypes'
    <3>1. /\ ocr.sid \in Session /\ "ocr" \in Thread
          /\ "none" \in Terminal \cup {"none"}
      BY <1>8 DEF OcrFinalize, Thread, Terminal, OcrTypes, OcrType
    <3>2. BeginFinalize(ocr.sid, "ocr", "none", FALSE)
      BY <1>8 DEF OcrFinalize
    <3>3. st' \in [Session -> StateType] /\ FinTypes'
      BY <3>1, <3>2, BeginFinalizeTypes
    <3> QED BY <3>3
  <2>3. OcrTypes'
    BY <1>8, Sets DEF OcrTypes, JobType, OcrType, SessionTypes, OwnerTypes,
              FinTypes, OcrFinalize, BeginFinalize, IdleOcr, OcrUnchanged,
              HardHold
  <2>4. ProcTypes' /\ TriggerTypes' /\ RowTypes' /\ OwnerTypes' /\
          CameraTypes' /\ StarterTypes' /\ WatchTypes' /\ RfidTypes' /\
          PlcTypes' /\ InferTypes'
    BY <1>8 DEF ProcTypes, TriggerTypes, RowTypes, OwnerTypes, CameraTypes,
              StarterTypes, WatchTypes, RfidTypes, PlcTypes, InferTypes,
              OcrFinalize, BeginFinalize, IdleOcr, OcrUnchanged, HardHold
  <2> QED BY <2>1, <2>2, <2>3, <2>4 DEF TypeOK
<1>9. CASE OcrFail
  <2>1. SessionTypes'
    BY <1>9, Sets DEF SessionTypes, StateType, OwnerTypes, OcrTypes, OcrFail,
              IdleOcr, OcrUnchanged, SignalDone, EventOf, Closing
  <2>2. OwnerTypes'
    BY <1>9, Sets DEF OwnerTypes, SessionTypes, OcrTypes, OcrFail, IdleOcr,
              OcrUnchanged, SignalDone, EventOf
  <2>3. OcrTypes'
    <3>1. IdleOcr \in OcrType /\ [ocr EXCEPT !.pc = "unlock"] \in OcrType
      BY Sets DEF IdleOcr, OcrTypes, OcrType
    <3>2. ocr.sid # None => [ocr EXCEPT !.pc = "finalize"] \in OcrType
      BY Sets DEF OcrTypes, OcrType
    <3>3. /\ UNCHANGED <<jobs, lastRead, manual>>
          /\ \/ ocr' \in {IdleOcr, [ocr EXCEPT !.pc = "unlock"]}
             \/ ocr.sid # None /\ ocr' = [ocr EXCEPT !.pc = "finalize"]
      BY <1>9 DEF OcrFail, OcrUnchanged
    <3> QED BY <3>1, <3>2, <3>3 DEF OcrTypes
  <2>4. ProcTypes' /\ TriggerTypes' /\ RowTypes' /\ CameraTypes' /\
          StarterTypes' /\ FinTypes' /\ WatchTypes' /\ RfidTypes' /\
          PlcTypes' /\ InferTypes'
    BY <1>9 DEF ProcTypes, TriggerTypes, RowTypes, CameraTypes, StarterTypes,
              FinTypes, WatchTypes, RfidTypes, PlcTypes, InferTypes, OcrFail,
              IdleOcr, OcrUnchanged, SignalDone, EventOf
  <2> QED BY <2>1, <2>2, <2>3, <2>4 DEF TypeOK
<1>10. CASE OcrUnlock
  <2>1. CameraTypes'
    BY <1>10, Sets DEF CameraTypes, SessionTypes, OcrTypes, OcrUnlock,
              IdleOcr, OcrUnchanged
  <2>2. OcrTypes'
    BY <1>10, Sets DEF OcrTypes, JobType, OcrType, SessionTypes, CameraTypes,
              OcrUnlock, IdleOcr, OcrUnchanged
  <2>3. ProcTypes' /\ TriggerTypes' /\ SessionTypes' /\ RowTypes' /\
          OwnerTypes' /\ StarterTypes' /\ FinTypes' /\ WatchTypes' /\
          RfidTypes' /\ PlcTypes' /\ InferTypes'
    BY <1>10 DEF ProcTypes, TriggerTypes, SessionTypes, RowTypes, OwnerTypes,
              StarterTypes, FinTypes, WatchTypes, RfidTypes, PlcTypes,
              InferTypes, OcrUnlock, IdleOcr, OcrUnchanged
  <2> QED BY <2>1, <2>2, <2>3 DEF TypeOK
<1> QED BY <1>1, <1>2, <1>3, <1>4, <1>5, <1>6, <1>7, <1>8, <1>9, <1>10 DEF OcrThread

(* The steps of the inference thread keep the types. *)
LEMMA TypeInferThread ==
  ASSUME TypeOK, InferThread PROVE TypeOK'
<1> USE ConstantTypes DEF TypeOK, procVars, triggerVars, factVars, sessionVars,
           ownerVars, camVars, ocrVars, rfidVars, shared, threads
<1>1. CASE InferGrab
  <2>1. InferTypes'
    BY <1>1, Sets DEF InferTypes, InferType, ProcTypes, OwnerTypes,
              CameraTypes, InferGrab, IdleInfer, InferQuiet, InferUnchanged
  <2>2. ProcTypes' /\ TriggerTypes' /\ SessionTypes' /\ RowTypes' /\
          OwnerTypes' /\ CameraTypes' /\ StarterTypes' /\ FinTypes' /\
          WatchTypes' /\ RfidTypes' /\ PlcTypes' /\ OcrTypes'
    BY <1>1 DEF ProcTypes, TriggerTypes, SessionTypes, RowTypes, OwnerTypes,
              CameraTypes, StarterTypes, FinTypes, WatchTypes, RfidTypes,
              PlcTypes, OcrTypes, InferGrab, IdleInfer, InferQuiet,
              InferUnchanged
  <2> QED BY <2>1, <2>2 DEF TypeOK
<1>2. CASE InferSkip
  <2>1. InferTypes'
    BY <1>2, Sets DEF InferTypes, InferType, InferSkip, IdleInfer, InferQuiet,
              InferUnchanged
  <2>2. ProcTypes' /\ TriggerTypes' /\ SessionTypes' /\ RowTypes' /\
          OwnerTypes' /\ CameraTypes' /\ StarterTypes' /\ FinTypes' /\
          WatchTypes' /\ RfidTypes' /\ PlcTypes' /\ OcrTypes'
    BY <1>2 DEF ProcTypes, TriggerTypes, SessionTypes, RowTypes, OwnerTypes,
              CameraTypes, StarterTypes, FinTypes, WatchTypes, RfidTypes,
              PlcTypes, OcrTypes, InferSkip, IdleInfer, InferQuiet,
              InferUnchanged
  <2> QED BY <2>1, <2>2 DEF TypeOK
<1>3. CASE InferPlate
  <2>1. CameraTypes'
    <3>1. infer.taken \in SessionOrNone
      BY DEF InferTypes, InferType
    <3> QED BY <1>3, <3>1 DEF InferPlate, CameraTypes
  <2>2. InferTypes'
    <3>1. buf' \subseteq SessionOrNone
      BY <1>3 DEF InferPlate, CameraTypes, InferTypes, InferType
    <3>2. IdleInfer \in InferType
      BY Sets DEF IdleInfer, InferType
    <3>3. [infer EXCEPT !.pc = "submit", !.crops = buf'] \in InferType
      BY <3>1 DEF InferTypes, InferType
    <3> QED BY <1>3, <3>2, <3>3 DEF InferPlate, InferTypes
  <2>3. ProcTypes' /\ TriggerTypes' /\ SessionTypes' /\ RowTypes' /\
          OwnerTypes' /\ StarterTypes' /\ FinTypes' /\ WatchTypes' /\
          RfidTypes' /\ PlcTypes' /\ OcrTypes'
    BY <1>3 DEF ProcTypes, TriggerTypes, SessionTypes, RowTypes, OwnerTypes,
              StarterTypes, FinTypes, WatchTypes, RfidTypes, PlcTypes,
              OcrTypes, InferPlate, IdleInfer, InferQuiet, InferUnchanged
  <2> QED BY <2>1, <2>2, <2>3 DEF TypeOK
<1>4. CASE InferAbsent
  <2>1. InferTypes'
    <3>1. infer \in InferType /\ buf \in SUBSET SessionOrNone
      BY DEF InferTypes, CameraTypes
    <3>2. \/ infer' = [infer EXCEPT !.pc = "submit", !.crops = buf, !.exit = TRUE]
          \/ infer' = [infer EXCEPT !.pc = "stop"]
      BY <1>4 DEF InferAbsent
    <3>3. [infer EXCEPT !.pc = "submit", !.crops = buf, !.exit = TRUE] \in InferType
      BY <3>1 DEF InferType
    <3>4. [infer EXCEPT !.pc = "stop"] \in InferType
      BY <3>1 DEF InferType
    <3> QED BY <3>2, <3>3, <3>4 DEF InferTypes
  <2>2. ProcTypes' /\ TriggerTypes' /\ SessionTypes' /\ RowTypes' /\
          OwnerTypes' /\ CameraTypes' /\ StarterTypes' /\ FinTypes' /\
          WatchTypes' /\ RfidTypes' /\ PlcTypes' /\ OcrTypes'
    BY <1>4 DEF ProcTypes, TriggerTypes, SessionTypes, RowTypes, OwnerTypes,
              CameraTypes, StarterTypes, FinTypes, WatchTypes, RfidTypes,
              PlcTypes, OcrTypes, InferAbsent, InferQuiet, InferUnchanged
  <2> QED BY <2>1, <2>2 DEF TypeOK
<1>5. CASE InferSubmit
  <2>1. SessionTypes'
    BY <1>5, Sets DEF SessionTypes, StateType, OwnerTypes, InferTypes,
              InferSubmit, CropOwner, EventOf, InferQuiet, InferUnchanged,
              MaySubmit, Open
  <2>2. OwnerTypes'
    BY <1>5, Sets DEF OwnerTypes, SessionTypes, InferTypes, InferSubmit,
              CropOwner, EventOf, InferQuiet, InferUnchanged, MaySubmit
  <2>3. InferTypes'
    BY <1>5, Sets DEF InferTypes, InferType, SessionTypes, OwnerTypes,
              InferSubmit, CropOwner, EventOf, InferQuiet, InferUnchanged,
              MaySubmit
  <2>4. ProcTypes' /\ TriggerTypes' /\ RowTypes' /\ CameraTypes' /\
          StarterTypes' /\ FinTypes' /\ WatchTypes' /\ RfidTypes' /\
          PlcTypes' /\ OcrTypes'
    BY <1>5 DEF ProcTypes, TriggerTypes, RowTypes, CameraTypes, StarterTypes,
              FinTypes, WatchTypes, RfidTypes, PlcTypes, OcrTypes,
              InferSubmit, CropOwner, EventOf, InferQuiet, InferUnchanged,
              MaySubmit
  <2> QED BY <2>1, <2>2, <2>3, <2>4 DEF TypeOK
<1>6. CASE InferRefuse
  <2>1. InferTypes'
    BY <1>6, Sets DEF InferTypes, InferType, OwnerTypes, InferRefuse,
              AfterSubmit, CropOwner, InferQuiet, InferUnchanged, IdleInfer
  <2>2. ProcTypes' /\ TriggerTypes' /\ SessionTypes' /\ RowTypes' /\
          OwnerTypes' /\ CameraTypes' /\ StarterTypes' /\ FinTypes' /\
          WatchTypes' /\ RfidTypes' /\ PlcTypes' /\ OcrTypes'
    BY <1>6 DEF ProcTypes, TriggerTypes, SessionTypes, RowTypes, OwnerTypes,
              CameraTypes, StarterTypes, FinTypes, WatchTypes, RfidTypes,
              PlcTypes, OcrTypes, InferRefuse, AfterSubmit, CropOwner,
              InferQuiet, InferUnchanged, IdleInfer
  <2> QED BY <2>1, <2>2 DEF TypeOK
<1>7. CASE InferEnqueue
  <2>1. CameraTypes'
    BY <1>7, Sets DEF CameraTypes, InferTypes, OcrTypes, InferEnqueue,
              AfterSubmit, InferQuiet, InferUnchanged, IdleInfer
  <2>2. InferTypes'
    BY <1>7, Sets DEF InferTypes, InferType, CameraTypes, OcrTypes,
              InferEnqueue, AfterSubmit, InferQuiet, InferUnchanged, IdleInfer
  <2>3. OcrTypes'
    <3>1. [sid |-> infer.sid, of |-> infer.crops] \in JobType
      BY DEF InferTypes, InferType, JobType
    <3>2. /\ UNCHANGED <<ocr, lastRead, manual>>
          /\ \/ UNCHANGED jobs
             \/ jobs' = Append(jobs, [sid |-> infer.sid, of |-> infer.crops])
      BY <1>7 DEF InferEnqueue, InferUnchanged
    <3> QED BY <3>1, <3>2 DEF OcrTypes
  <2>4. ProcTypes' /\ TriggerTypes' /\ SessionTypes' /\ RowTypes' /\
          OwnerTypes' /\ StarterTypes' /\ FinTypes' /\ WatchTypes' /\
          RfidTypes' /\ PlcTypes'
    BY <1>7 DEF ProcTypes, TriggerTypes, SessionTypes, RowTypes, OwnerTypes,
              StarterTypes, FinTypes, WatchTypes, RfidTypes, PlcTypes,
              InferEnqueue, AfterSubmit, InferQuiet, InferUnchanged, IdleInfer
  <2> QED BY <2>1, <2>2, <2>3, <2>4 DEF TypeOK
<1>8. CASE InferStop
  <2>1. CameraTypes'
    BY <1>8, Sets DEF CameraTypes, InferTypes, InferStop, InferQuiet,
              InferUnchanged, StopProcessing
  <2>2. InferTypes'
    BY <1>8, Sets DEF InferTypes, InferType, CameraTypes, InferStop,
              InferQuiet, InferUnchanged, StopProcessing
  <2>3. ProcTypes' /\ TriggerTypes' /\ SessionTypes' /\ RowTypes' /\
          OwnerTypes' /\ StarterTypes' /\ FinTypes' /\ WatchTypes' /\
          RfidTypes' /\ PlcTypes' /\ OcrTypes'
    BY <1>8 DEF ProcTypes, TriggerTypes, SessionTypes, RowTypes, OwnerTypes,
              StarterTypes, FinTypes, WatchTypes, RfidTypes, PlcTypes,
              OcrTypes, InferStop, InferQuiet, InferUnchanged, StopProcessing
  <2> QED BY <2>1, <2>2, <2>3 DEF TypeOK
<1>9. CASE InferPause
  <2>1. CameraTypes'
    BY <1>9, Sets DEF CameraTypes, InferTypes, InferPause, InferQuiet,
              InferUnchanged
  <2>2. InferTypes'
    BY <1>9, Sets DEF InferTypes, InferType, CameraTypes, InferPause,
              InferQuiet, InferUnchanged
  <2>3. ProcTypes' /\ TriggerTypes' /\ SessionTypes' /\ RowTypes' /\
          OwnerTypes' /\ StarterTypes' /\ FinTypes' /\ WatchTypes' /\
          RfidTypes' /\ PlcTypes' /\ OcrTypes'
    BY <1>9 DEF ProcTypes, TriggerTypes, SessionTypes, RowTypes, OwnerTypes,
              StarterTypes, FinTypes, WatchTypes, RfidTypes, PlcTypes,
              OcrTypes, InferPause, InferQuiet, InferUnchanged
  <2> QED BY <2>1, <2>2, <2>3 DEF TypeOK
<1>10. CASE InferOwner
  <2>1. InferTypes'
    <3>1. IdleInfer \in InferType
      BY Sets DEF IdleInfer, InferType
    <3>2. owner # None => [infer EXCEPT !.pc = "release", !.sid = owner] \in InferType
      BY Sets DEF InferTypes, InferType, OwnerTypes
    <3> QED BY <1>10, <3>1, <3>2 DEF InferOwner, InferTypes
  <2>2. ProcTypes' /\ TriggerTypes' /\ SessionTypes' /\ RowTypes' /\
          OwnerTypes' /\ CameraTypes' /\ StarterTypes' /\ FinTypes' /\
          WatchTypes' /\ RfidTypes' /\ PlcTypes' /\ OcrTypes'
    BY <1>10 DEF ProcTypes, TriggerTypes, SessionTypes, RowTypes, OwnerTypes,
              CameraTypes, StarterTypes, FinTypes, WatchTypes, RfidTypes,
              PlcTypes, OcrTypes, InferOwner, IdleInfer, InferQuiet,
              InferUnchanged
  <2> QED BY <2>1, <2>2 DEF TypeOK
<1>11. CASE InferRelease
  <2>1. TriggerTypes'
    <3>1. "infer" \in Thread
      BY DEF FinTypes, FinType, Thread
    <3>2. PopNext("infer") \/ UNCHANGED <<queue, starter>>
      BY <1>11 DEF InferRelease, InferQuiet
    <3>3. /\ queue' \in Seq(Session) /\ Len(queue') <= MaxPending
          /\ StarterTypes'
      BY <3>1, <3>2, PopNextTypes DEF TriggerTypes, StarterTypes
    <3> QED BY <3>3, <1>11 DEF TriggerTypes, InferRelease, InferUnchanged
  <2>2. SessionTypes'
    <3>1. \A state \in StateType : Released(state) \in StateType
      BY States DEF Released
    <3>2. infer.sid \in Session
      BY <1>11 DEF InferRelease, InferTypes, InferType
    <3>3. CASE owner # infer.sid
      BY <1>11, <3>3 DEF InferRelease, InferQuiet, InferUnchanged, SessionTypes
    <3>4. CASE owner = infer.sid
      <4>1. /\ st' = [st EXCEPT ![infer.sid] = Released(st[infer.sid])]
            /\ plateExit' = [plateExit EXCEPT ![infer.sid] = TRUE]
            /\ UNCHANGED <<late, vin, rfid, ocrDone>>
        BY <1>11, <3>4 DEF InferRelease, InferUnchanged
      <4> QED BY <3>1, <3>2, <4>1 DEF SessionTypes
    <3> QED BY <3>3, <3>4
  <2>3. OwnerTypes'
    BY <1>11, Sets DEF OwnerTypes, TriggerTypes, SessionTypes, StarterTypes,
              InferTypes, InferRelease, IdleInfer, InferQuiet, InferUnchanged,
              PopNext, Released
  <2>4. StarterTypes'
    <3>1. "infer" \in Thread
      BY DEF FinTypes, FinType, Thread
    <3>2. PopNext("infer") \/ UNCHANGED <<queue, starter>>
      BY <1>11 DEF InferRelease, InferQuiet
    <3>3. /\ queue' \in Seq(Session) /\ Len(queue') <= MaxPending
          /\ StarterTypes'
      BY <3>1, <3>2, PopNextTypes DEF TriggerTypes, StarterTypes
    <3> QED BY <3>3
  <2>5. InferTypes'
    BY <1>11, Sets DEF InferTypes, InferType, TriggerTypes, SessionTypes,
              OwnerTypes, StarterTypes, InferRelease, IdleInfer, InferQuiet,
              InferUnchanged, PopNext, Released
  <2>6. ProcTypes' /\ RowTypes' /\ CameraTypes' /\ FinTypes' /\ WatchTypes' /\
          RfidTypes' /\ PlcTypes' /\ OcrTypes'
    BY <1>11 DEF ProcTypes, RowTypes, CameraTypes, FinTypes, WatchTypes,
              RfidTypes, PlcTypes, OcrTypes, InferRelease, IdleInfer,
              InferQuiet, InferUnchanged, PopNext, Released
  <2> QED BY <2>1, <2>2, <2>3, <2>4, <2>5, <2>6 DEF TypeOK
<1> QED BY <1>1, <1>2, <1>3, <1>4, <1>5, <1>6, <1>7, <1>8, <1>9, <1>10, <1>11 DEF InferThread

(* Time keeps the types. *)
LEMMA TypeDeadlinePasses ==
  ASSUME TypeOK, NEW s \in Session, DeadlinePasses(s) PROVE TypeOK'
<1> USE ConstantTypes DEF TypeOK, procVars, triggerVars, factVars, sessionVars,
           ownerVars, camVars, ocrVars, rfidVars, shared, threads
<1>1. CASE DeadlinePasses(s)
  <2>1. SessionTypes'
    BY <1>1, Sets DEF SessionTypes, StateType, ProcTypes, DeadlinePasses
  <2>2. ProcTypes' /\ TriggerTypes' /\ RowTypes' /\ OwnerTypes' /\
          CameraTypes' /\ StarterTypes' /\ FinTypes' /\ WatchTypes' /\
          RfidTypes' /\ PlcTypes' /\ InferTypes' /\ OcrTypes'
    BY <1>1 DEF ProcTypes, TriggerTypes, RowTypes, OwnerTypes, CameraTypes,
              StarterTypes, FinTypes, WatchTypes, RfidTypes, PlcTypes,
              InferTypes, OcrTypes, DeadlinePasses
  <2> QED BY <2>1, <2>2 DEF TypeOK
<1> QED BY <1>1

(* The end of the minimum body interval keeps the types. *)
LEMMA TypeIntervalElapses ==
  ASSUME TypeOK, IntervalElapses PROVE TypeOK'
<1> USE ConstantTypes DEF TypeOK, procVars, triggerVars, factVars, sessionVars,
           ownerVars, camVars, ocrVars, rfidVars, shared, threads
<1>1. CASE IntervalElapses
  <2>1. TriggerTypes'
    BY <1>1, Sets DEF TriggerTypes, ProcTypes, SessionTypes, WatchTypes,
              RfidTypes, InferTypes, OcrTypes, IntervalElapses, Quiescent
  <2>2. ProcTypes' /\ SessionTypes' /\ RowTypes' /\ OwnerTypes' /\
          CameraTypes' /\ StarterTypes' /\ FinTypes' /\ WatchTypes' /\
          RfidTypes' /\ PlcTypes' /\ InferTypes' /\ OcrTypes'
    BY <1>1 DEF ProcTypes, SessionTypes, RowTypes, OwnerTypes, CameraTypes,
              StarterTypes, FinTypes, WatchTypes, RfidTypes, PlcTypes,
              InferTypes, OcrTypes, IntervalElapses, Quiescent
  <2> QED BY <2>1, <2>2 DEF TypeOK
<1> QED BY <1>1

(* A cancellation by prepare_shutdown keeps the types. *)
LEMMA TypeShutdownCancel ==
  ASSUME TypeOK, NEW s \in Session, ShutdownCancel(s) PROVE TypeOK'
<1> USE ConstantTypes DEF TypeOK, procVars, triggerVars, factVars, sessionVars,
           ownerVars, camVars, ocrVars, rfidVars, shared, threads
<1>1. CASE ShutdownCancel(s)
  <2>1. ProcTypes'
    BY <1>1, Sets DEF ProcTypes, SessionTypes, OwnerTypes, FinTypes,
              ShutdownCancel, BeginFinalize, HardHold
  <2>2. SessionTypes'
    <3>1. /\ s \in Session /\ "shutdown" \in Thread
          /\ "CANCELLED" \in Terminal \cup {"none"}
      BY <1>1 DEF ShutdownCancel, Thread, Terminal
    <3>2. BeginFinalize(s, "shutdown", "CANCELLED", TRUE)
      BY <1>1 DEF ShutdownCancel
    <3>3. st' \in [Session -> StateType] /\ FinTypes'
      BY <3>1, <3>2, BeginFinalizeTypes
    <3> QED BY <1>1, <3>3 DEF SessionTypes, ShutdownCancel, factVars
  <2>3. FinTypes'
    <3>1. /\ s \in Session /\ "shutdown" \in Thread
          /\ "CANCELLED" \in Terminal \cup {"none"}
      BY <1>1 DEF ShutdownCancel, Thread, Terminal
    <3>2. BeginFinalize(s, "shutdown", "CANCELLED", TRUE)
      BY <1>1 DEF ShutdownCancel
    <3>3. st' \in [Session -> StateType] /\ FinTypes'
      BY <3>1, <3>2, BeginFinalizeTypes
    <3> QED BY <3>3
  <2>4. TriggerTypes' /\ RowTypes' /\ OwnerTypes' /\ CameraTypes' /\
          StarterTypes' /\ WatchTypes' /\ RfidTypes' /\ PlcTypes' /\
          InferTypes' /\ OcrTypes'
    BY <1>1 DEF TriggerTypes, RowTypes, OwnerTypes, CameraTypes, StarterTypes,
              WatchTypes, RfidTypes, PlcTypes, InferTypes, OcrTypes,
              ShutdownCancel, BeginFinalize, HardHold
  <2> QED BY <2>1, <2>2, <2>3, <2>4 DEF TypeOK
<1> QED BY <1>1

(* The empty queue, and the progress of a thread that has not begun. *)
LEMMA EmptyQueue ==
  <<>> \in Seq(Session) /\ Len(<<>>) <= MaxPending /\ <<>> \in Seq(JobType)
  BY ConstantTypes

(* No thread has begun: the progress records of Boot are typed. *)
LEMMA NothingTyped ==
  NoStarter \in StarterType /\ NoFin \in FinType /\ NoReader \in ReaderType
BY Sets DEF StarterType, NoStarter, FinType, NoFin, ReaderType, NoReader,
            Thread

(* A process that ends, by a shutdown or a crash, leaves typed variables. *)
LEMMA TypeProcessGone ==
  ASSUME TypeOK, ProcessGone, crashes' \in Nat PROVE TypeOK'
<1> USE ConstantTypes DEF TypeOK
<1>1. ProcTypes' /\ TriggerTypes'
  <2>1. /\ up' = FALSE /\ stopping' = [pc |-> "no", open |-> {}]
        /\ lost' = lost \cup (1 .. trig)
    BY DEF ProcessGone
  <2>2. /\ queue' = <<>> /\ early' = FALSE /\ suppressed' = {} /\ dropped' = {}
        /\ trig' = trig
    BY DEF ProcessGone
  <2>3. 1 .. trig \subseteq Session
    BY DEF TriggerTypes, Session
  <2>4. ProcTypes'
    BY <2>1, <2>3 DEF ProcTypes
  <2>5. TriggerTypes'
    BY <2>2, EmptyQueue DEF TriggerTypes
  <2> QED BY <2>4, <2>5
<1>2. SessionTypes'
  <2>1. "NONE" \in StateType /\ NoVin \in VinType
    BY Sets, States
  <2>2. /\ st' = [t \in Session |-> "NONE"] /\ late' = [t \in Session |-> FALSE]
        /\ vin' = [t \in Session |-> NoVin] /\ rfid' = [t \in Session |-> FALSE]
        /\ ocrDone' = [t \in Session |-> FALSE]
        /\ plateExit' = [t \in Session |-> FALSE]
    BY DEF ProcessGone
  <2> QED BY <2>1, <2>2 DEF SessionTypes
<1>3. RowTypes' /\ OwnerTypes' /\ CameraTypes' /\ WatchTypes'
  <2>1. /\ row' = row /\ active' = None /\ owner' = None /\ last' = None
        /\ inflight' = None /\ attempts' = 0
    BY DEF ProcessGone
  <2>2. RowTypes' /\ OwnerTypes'
    BY <2>1, Sets DEF RowTypes, OwnerTypes
  <2>3. CameraTypes' /\ WatchTypes'
    BY DEF ProcessGone, CameraTypes, WatchTypes
  <2> QED BY <2>2, <2>3
<1>4. StarterTypes' /\ FinTypes' /\ RfidTypes'
  <2>1. /\ starter' = [s \in Session |-> NoStarter]
        /\ fin' = [s \in Session |-> NoFin]
        /\ reader' = [s \in Session |-> NoReader] /\ busy' = None
    BY DEF ProcessGone
  <2>2. StarterTypes' /\ FinTypes'
    BY <2>1, NothingTyped DEF StarterTypes, FinTypes
  <2>3. RfidTypes'
    BY <2>1, NothingTyped, Sets DEF RfidTypes
  <2> QED BY <2>2, <2>3
<1>5. PlcTypes' /\ InferTypes'
  BY Sets DEF ProcessGone, PlcTypes, PlcType, IdlePlc, InferTypes, InferType,
              IdleInfer
<1>6. OcrTypes'
  BY Sets DEF ProcessGone, OcrTypes, OcrType, IdleOcr
<1> QED BY <1>1, <1>2, <1>3, <1>4, <1>5, <1>6

(* Shutdown, crash and restart keep the types. *)
LEMMA TypeProcess ==
  ASSUME TypeOK, Process PROVE TypeOK'
<1> USE ConstantTypes DEF TypeOK, procVars, triggerVars, factVars, sessionVars,
           ownerVars, camVars, ocrVars, rfidVars, shared, threads
<1>1. CASE ShutdownBegin
  <2>1. ProcTypes'
    <3>1. /\ stopping' = [pc |-> "cancel",
                          open |-> {t \in Session : st[t] \in Open}]
          /\ UNCHANGED <<up, crashes, lost>>
      BY <1>1 DEF ShutdownBegin
    <3> QED BY <3>1 DEF ProcTypes
  <2>2. TriggerTypes'
    <3>1. /\ queue' = <<>> /\ UNCHANGED <<trig, early, suppressed>>
          /\ dropped' = dropped \cup {queue[i] : i \in DOMAIN queue}
      BY <1>1 DEF ShutdownBegin
    <3>2. {queue[i] : i \in DOMAIN queue} \subseteq Session
      BY DEF TriggerTypes
    <3> QED BY <3>1, <3>2, EmptyQueue DEF TriggerTypes
  <2>3. SessionTypes' /\ RowTypes' /\ OwnerTypes' /\ CameraTypes' /\
          StarterTypes' /\ FinTypes' /\ WatchTypes' /\ RfidTypes' /\
          PlcTypes' /\ InferTypes' /\ OcrTypes'
    BY <1>1 DEF SessionTypes, RowTypes, OwnerTypes, CameraTypes, StarterTypes,
              FinTypes, WatchTypes, RfidTypes, PlcTypes, InferTypes, OcrTypes,
              ShutdownBegin
  <2> QED BY <2>1, <2>2, <2>3 DEF TypeOK
<1>2. CASE ShutdownStop
  <2>1. ProcTypes'
    BY <1>2, Sets DEF ProcTypes, CameraTypes, ShutdownStop, StopProcessing
  <2>2. CameraTypes'
    BY <1>2, Sets DEF CameraTypes, ProcTypes, ShutdownStop, StopProcessing
  <2>3. TriggerTypes' /\ SessionTypes' /\ RowTypes' /\ OwnerTypes' /\
          StarterTypes' /\ FinTypes' /\ WatchTypes' /\ RfidTypes' /\
          PlcTypes' /\ InferTypes' /\ OcrTypes'
    BY <1>2 DEF TriggerTypes, SessionTypes, RowTypes, OwnerTypes,
              StarterTypes, FinTypes, WatchTypes, RfidTypes, PlcTypes,
              InferTypes, OcrTypes, ShutdownStop, StopProcessing
  <2> QED BY <2>1, <2>2, <2>3 DEF TypeOK
<1>3. CASE Restart
  <2>1. ProcTypes'
    <3>1. up' = TRUE /\ UNCHANGED <<crashes, stopping, lost>>
      BY <1>3 DEF Restart
    <3> QED BY <3>1 DEF ProcTypes
  <2>2. RowTypes'
    <3>1. \A r \in RowType : Recovered(r) \in RowType
      BY DEF Recovered, RowType, RowState, Terminal
    <3>2. row' = [t \in Session |-> Recovered(row[t])] \/ UNCHANGED row
      BY <1>3 DEF Restart
    <3> QED BY <3>1, <3>2 DEF RowTypes
  <2>3. TriggerTypes' /\ SessionTypes' /\ OwnerTypes' /\ CameraTypes' /\
          StarterTypes' /\ FinTypes' /\ WatchTypes' /\ RfidTypes' /\
          PlcTypes' /\ InferTypes' /\ OcrTypes'
    BY <1>3 DEF TriggerTypes, SessionTypes, OwnerTypes, CameraTypes,
              StarterTypes, FinTypes, WatchTypes, RfidTypes, PlcTypes,
              InferTypes, OcrTypes, Restart, Recovered
  <2> QED BY <2>1, <2>2, <2>3 DEF TypeOK
<1>4. CASE ShutdownExit
  BY <1>4, TypeProcessGone DEF ShutdownExit, ProcTypes
<1>5. CASE Crash
  BY <1>5, TypeProcessGone DEF Crash, ProcTypes
<1> QED BY <1>1, <1>2, <1>3, <1>4, <1>5 DEF Process

(* The initial state is typed. *)
LEMMA TypeInit == Init => TypeOK
<1> SUFFICES ASSUME Init PROVE TypeOK
  OBVIOUS
<1> USE ConstantTypes
<1>1. ProcTypes /\ TriggerTypes
  <2>1. ProcTypes
    BY DEF Init, Boot, ProcTypes
  <2>2. /\ trig = 0 /\ queue = <<>> /\ early = FALSE
        /\ suppressed = {} /\ dropped = {}
    BY DEF Init, Boot
  <2>3. TriggerTypes
    <3>1. trig \in 0 .. MaxTriggers
      BY <2>2
    <3> HIDE ConstantTypes
    <3> QED BY <3>1, <2>2, EmptyQueue DEF TriggerTypes
  <2> QED BY <2>1, <2>3
<1>2. SessionTypes
  <2>1. "NONE" \in StateType /\ NoVin \in VinType
    BY Sets, States
  <2>2. /\ st = [s \in Session |-> "NONE"] /\ late = [s \in Session |-> FALSE]
        /\ vin = [s \in Session |-> NoVin] /\ rfid = [s \in Session |-> FALSE]
        /\ ocrDone = [s \in Session |-> FALSE]
        /\ plateExit = [s \in Session |-> FALSE]
    BY DEF Init, Boot
  <2> QED BY <2>1, <2>2 DEF SessionTypes
<1>3. RowTypes /\ OwnerTypes /\ CameraTypes /\ WatchTypes
  <2>1. NoRow \in RowType
    BY Sets DEF NoRow, RowType, RowState
  <2>2. RowTypes /\ OwnerTypes
    BY <2>1, Sets DEF Init, Boot, RowTypes, OwnerTypes
  <2>3. CameraTypes /\ WatchTypes
    BY DEF Init, Boot, CameraTypes, WatchTypes
  <2> QED BY <2>2, <2>3
<1>4. StarterTypes /\ FinTypes /\ RfidTypes
  <2>1. /\ starter = [s \in Session |-> NoStarter]
        /\ fin = [s \in Session |-> NoFin]
        /\ reader = [s \in Session |-> NoReader] /\ busy = None
    BY DEF Init, Boot
  <2>2. StarterTypes /\ FinTypes
    BY <2>1, NothingTyped DEF StarterTypes, FinTypes
  <2>3. RfidTypes
    BY <2>1, NothingTyped, Sets DEF RfidTypes
  <2> QED BY <2>2, <2>3
<1>5. PlcTypes /\ InferTypes
  BY Sets DEF Init, Boot, PlcTypes, PlcType, IdlePlc, InferTypes, InferType,
              IdleInfer
<1>6. OcrTypes
  <2>1. IdleOcr \in OcrType
    BY Sets DEF OcrType, IdleOcr
  <2>2. /\ jobs = <<>> /\ ocr = IdleOcr /\ lastRead = <<None, NoVin>>
        /\ manual = FALSE
    BY DEF Init, Boot
  <2> QED BY <2>1, <2>2, EmptyQueue, Sets DEF OcrTypes
<1> QED BY <1>1, <1>2, <1>3, <1>4, <1>5, <1>6 DEF TypeOK

(* A step of nobody keeps the types. *)
LEMMA TypeStutter == ASSUME TypeOK, UNCHANGED vars PROVE TypeOK'
<1> USE DEF TypeOK, vars, procVars, triggerVars, factVars, sessionVars,
            ownerVars, camVars, ocrVars, rfidVars
<1>1. ProcTypes' /\ TriggerTypes' /\ SessionTypes' /\ RowTypes'
  BY DEF ProcTypes, TriggerTypes, SessionTypes, RowTypes
<1>2. OwnerTypes' /\ CameraTypes' /\ StarterTypes' /\ FinTypes'
  BY DEF OwnerTypes, CameraTypes, StarterTypes, FinTypes
<1>3. WatchTypes' /\ RfidTypes' /\ PlcTypes' /\ InferTypes' /\ OcrTypes'
  BY DEF WatchTypes, RfidTypes, PlcTypes, InferTypes, OcrTypes
<1> QED BY <1>1, <1>2, <1>3

(* Every step keeps the types. *)
LEMMA TypeStep == ASSUME TypeOK, [Next]_vars PROVE TypeOK'
<1>1. CASE UNCHANGED vars
  BY <1>1, TypeStutter
<1>2. CASE PlcThread
  BY <1>2, TypePlcThread
<1>3. CASE OcrThread
  BY <1>3, TypeOcrThread
<1>4. CASE InferThread
  BY <1>4, TypeInferThread
<1>5. CASE Process
  BY <1>5, TypeProcess
<1>6. CASE IntervalElapses
  BY <1>6, TypeIntervalElapses
<1>7. ASSUME NEW s \in Session,
             \/ Start(s) \/ Watch(s) \/ Finish(s) \/ Search(s) \/ Reader(s)
             \/ DeadlinePasses(s) \/ ShutdownCancel(s)
      PROVE  TypeOK'
  BY <1>7, TypeStart, TypeWatch, TypeFinish, TypeSearch, TypeReader,
     TypeDeadlinePasses, TypeShutdownCancel
<1> QED BY <1>1, <1>2, <1>3, <1>4, <1>5, <1>6, <1>7 DEF Next

(* TypeOK is an invariant: types, the bound of the trigger queue and the   *)
(* bound of the OCR attempts, in every state of every configuration.       *)
THEOREM TypeCorrect == Spec => []TypeOK
<1>1. Init => TypeOK
  BY TypeInit
<1>2. TypeOK /\ [Next]_vars => TypeOK'
  BY TypeStep
<1> QED BY <1>1, <1>2, PTL DEF Spec

-----------------------------------------------------------------------------
(* The core variables. *)

coreVars == <<up, trig, queue, lost, st, late, row, active, owner, starter,
              fin, wd>>

-----------------------------------------------------------------------------
(* The inductive invariant. *)

(* The progress of _finalize_session and of _start_session agrees with the  *)
(* session's state.                                                         *)
Progress ==
  \A s \in Session :
    /\ fin[s].pc = "none" <=> st[s] \in Open \cup {"NONE"}
    /\ fin[s].pc = "done" <=> st[s] \in Terminal
    /\ fin[s].pc = "done" => st[s] = fin[s].status
    /\ starter[s].pc \in {"none", "create"} <=> st[s] = "NONE"

(* A number the PLC has not used yet has no session and no row, and one of  *)
(* an earlier process has no session any more.                              *)
Numbers ==
  /\ \A s \in lost : s <= trig
  /\ \A s \in Session :
       /\ s > trig => starter[s].pc = "none" /\ row[s] = NoRow
       /\ s \in lost => starter[s].pc = "none"
       /\ row[s] # NoRow => st[s] # "NONE" \/ s \in lost

(* A waiting trigger is an old number of this process, it is in the queue   *)
(* once and nobody has started it.                                          *)
Waiting ==
  \A i \in DOMAIN queue :
    /\ queue[i] <= trig /\ queue[i] \notin lost
    /\ starter[queue[i]].pc = "none"
    /\ \A j \in DOMAIN queue : queue[i] = queue[j] => i = j

(* The verdict a finalizer holds, and what it has written of it. *)
VerdictOf ==
  \A s \in Session :
    /\ fin[s].pc \in {"stop", "pause", "vin", "status"} =>
         fin[s].status \in {"none", "CANCELLED", "MISSED_CAPTURE_WINDOW"}
    /\ fin[s].pc = "write" => fin[s].status \notin {"none", "FAILED"}
    /\ fin[s].pc \in {"commit", "done"} =>
         /\ fin[s].status # "none"
         /\ \/ row[s].status = fin[s].status
            \/ /\ DbMayFail /\ fin[s].status = "FAILED"
               /\ row[s].status \in {"absent", "PENDING"}
    /\ row[s].status \in Terminal =>
         fin[s].pc \in {"commit", "done"} \/ s \in lost

(* Under the hard hold only a forced verdict is begun before the deadline. *)
Held ==
  \A s \in Session :
    /\ wd[s] \in {"grace", "closing"} => late[s]
    /\ HardHold /\ fin[s].pc # "none" =>
         late[s] \/ fin[s].status \in {"CANCELLED", "MISSED_CAPTURE_WINDOW",
                                       "FAILED"}

(* Without the queue the PLC thread starts one session at a time. *)
OneStart ==
  ~QueueEnabled =>
    /\ queue = <<>>
    /\ \A s \in Session :
         /\ Starting(s) => starter[s].by = "plc"
         /\ starter[s].pc = "create" => owner = None
         /\ \A t \in Session : Starting(s) /\ Starting(t) => s = t

(* A process that is down has nobody in _start_session. *)
Down == up \/ \A s \in Session : starter[s].pc = "none"

IInv == /\ TypeOK /\ Progress /\ Numbers /\ Waiting /\ VerdictOf /\ Held
        /\ OneStart /\ Down /\ OwnersAreOpen /\ ActiveOwnsCapture
        /\ QueueIsServed

-----------------------------------------------------------------------------
(* Steps by the kind of change they make. *)

(* The types of the core variables. *)
LEMMA CoreTypes ==
  ASSUME TypeOK
  PROVE  /\ st \in [Session -> StateType] /\ late \in [Session -> BOOLEAN]
         /\ row \in [Session -> RowType]
         /\ active \in SessionOrNone /\ owner \in SessionOrNone
         /\ starter \in [Session -> StarterType] /\ fin \in [Session -> FinType]
         /\ trig \in Nat /\ queue \in Seq(Session) /\ lost \subseteq Session
BY ConstantTypes DEF TypeOK, ProcTypes, TriggerTypes, SessionTypes, RowTypes,
   OwnerTypes, StarterTypes, FinTypes

(* A step that leaves the core variables alone keeps the invariant. *)
LEMMA Untouched == ASSUME IInv, TypeOK', UNCHANGED coreVars PROVE IInv'
<1> USE DEF IInv, coreVars
<1>1. Progress' /\ Numbers'
  BY DEF Progress, Numbers
<1>2. Waiting' /\ VerdictOf'
  BY DEF Waiting, VerdictOf
<1>3. Held' /\ OneStart' /\ Down'
  BY DEF Held, OneStart, Down, Starting
<1>4. OwnersAreOpen' /\ ActiveOwnsCapture' /\ QueueIsServed'
  BY DEF OwnersAreOpen, ActiveOwnsCapture, QueueIsServed
<1> QED BY <1>1, <1>2, <1>3, <1>4

(* A watchdog that moves on. *)
LEMMA WatchMoves ==
  ASSUME IInv, TypeOK', NEW s \in Session, NEW next \in {"waiting", "grace",
                                                         "closing", "done"},
         wd' = [wd EXCEPT ![s] = next], next \in {"grace", "closing"} => late[s],
         UNCHANGED <<up, trig, queue, lost, st, late, row, active, owner, starter,
                     fin>>
  PROVE  IInv'
<1> USE DEF IInv
<1>1. Progress' /\ Numbers'
  BY DEF Progress, Numbers
<1>2. Waiting' /\ VerdictOf'
  BY DEF Waiting, VerdictOf
<1>3. Held'
  BY DEF Held, TypeOK, WatchTypes
<1>4. OneStart' /\ Down'
  BY DEF OneStart, Down, Starting
<1>5. OwnersAreOpen' /\ ActiveOwnsCapture' /\ QueueIsServed'
  BY DEF OwnersAreOpen, ActiveOwnsCapture, QueueIsServed
<1> QED BY <1>1, <1>2, <1>3, <1>4, <1>5

(* A starter that is past the creation of its session moves on; it may     *)
(* start the watchdog.                                                     *)
LEMMA StarterMoves ==
  ASSUME IInv, TypeOK', NEW s \in Session,
         NEW next \in {"missed", "rfid", "camera", "watchdog", "done"},
         starter[s].pc \notin {"none", "create", "done"},
         starter' = [starter EXCEPT ![s].pc = next],
         wd' = wd \/ wd' = [wd EXCEPT ![s] = "waiting"],
         UNCHANGED <<up, trig, queue, lost, st, late, row, active, owner, fin>>
  PROVE  IInv'
<1> USE DEF IInv
<1>1. /\ \A t \in Session \ {s} : starter'[t] = starter[t]
      /\ starter'[s].pc = next /\ starter'[s].by = starter[s].by
  BY CoreTypes DEF StarterType
<1>2. Progress'
  BY <1>1 DEF Progress
<1>3. Numbers'
  BY <1>1 DEF Numbers
<1>4. Waiting'
  BY <1>1, CoreTypes DEF Waiting
<1>5. VerdictOf'
  BY DEF VerdictOf
<1>6. Held'
  BY DEF Held, TypeOK, WatchTypes
<1>7. OneStart'
  BY <1>1 DEF OneStart, Starting
<1>8. Down'
  BY <1>1 DEF Down
<1>9. OwnersAreOpen' /\ ActiveOwnsCapture'
  BY DEF OwnersAreOpen, ActiveOwnsCapture
<1>10. QueueIsServed'
  BY <1>1 DEF QueueIsServed
<1> QED BY <1>2, <1>3, <1>4, <1>5, <1>6, <1>7, <1>8, <1>9, <1>10

(* The entry section of _finalize_session: what it leaves of the state and *)
(* of the finalizer, whoever calls it.                                     *)
LEMMA BeginFinalizeEffect ==
  ASSUME TypeOK, Progress, NEW s \in Session, NEW t, NEW forced, NEW may \in BOOLEAN,
         BeginFinalize(s, t, forced, may), ~UNCHANGED <<st, fin>>
  PROVE  /\ st[s] \in Open /\ fin[s].pc = "none"
         /\ ~HardHold \/ late[s] \/ may
         /\ st'[s] = "FINALIZING" /\ fin'[s].pc = "stop"
         /\ fin'[s].status = forced
         /\ \A r \in Session \ {s} : st'[r] = st[r] /\ fin'[r] = fin[r]
<1>1. st[s] \notin Closing /\ (~HardHold \/ late[s] \/ may)
  BY CoreTypes DEF BeginFinalize, TypeOK, SessionTypes
<1>2. st[s] \in Open
  BY <1>1, CoreTypes DEF StateType
<1>3. fin[s].pc = "none"
  BY <1>2 DEF Progress
<1>4. /\ st' = [st EXCEPT ![s] = "FINALIZING"]
      /\ fin' = [fin EXCEPT ![s] =
                   [pc |-> "stop", by |-> t, owns |-> owner = s, vin |-> NoVin,
                    rfid |-> FALSE, status |-> forced]]
  BY DEF BeginFinalize
<1> QED BY <1>1, <1>2, <1>3, <1>4, CoreTypes

(* It keeps the invariant: the verdict is forced, or the deadline over.    *)
LEMMA BeginFinalizeKeeps ==
  ASSUME IInv, TypeOK', NEW s \in Session, NEW t,
         NEW forced \in {"none", "CANCELLED", "MISSED_CAPTURE_WINDOW"},
         NEW may \in BOOLEAN, BeginFinalize(s, t, forced, may),
         may => late[s] \/ forced # "none",
         wd' = wd \/ wd' = [wd EXCEPT ![s] = "done"],
         \/ starter' = starter
         \/ /\ starter[s].pc = "missed"
            /\ starter' = [starter EXCEPT ![s].pc = "done"],
         UNCHANGED <<up, trig, queue, lost, late, row, active, owner>>
  PROVE  IInv'
<1> USE DEF IInv
<1>1. CASE UNCHANGED <<st, fin>> /\ starter' = starter
  <2>1. CASE wd' = wd
    BY <1>1, <2>1, Untouched DEF coreVars
  <2>2. CASE wd' = [wd EXCEPT ![s] = "done"]
    BY <1>1, <2>2, WatchMoves
  <2> QED BY <2>1, <2>2
<1>2. \A r \in Session : /\ (starter'[r].pc = "none") = (starter[r].pc = "none")
                         /\ (starter'[r].pc = "create") = (starter[r].pc = "create")
                         /\ starter'[r].by = starter[r].by
                         /\ starter'[r].pc \in {starter[r].pc, "done"}
  BY CoreTypes DEF StarterType
<1>3. /\ \A r \in Session : /\ st'[r] # st[r] => st'[r] = "FINALIZING"
                            /\ (st'[r] = "NONE") = (st[r] = "NONE")
      /\ \A r \in Session : (st'[r] \in Terminal) = (st[r] \in Terminal)
  <2>1. CASE UNCHANGED <<st, fin>>
    BY <2>1
  <2>2. CASE ~UNCHANGED <<st, fin>>
    BY <2>2, BeginFinalizeEffect DEF Open, Terminal
  <2> QED BY <2>1, <2>2
<1>4. Progress'
  <2>1. CASE UNCHANGED <<st, fin>>
    BY <1>2, <2>1 DEF Progress
  <2>2. CASE ~UNCHANGED <<st, fin>>
    BY <1>2, <2>2, BeginFinalizeEffect DEF Progress, Open, Terminal
  <2> QED BY <2>1, <2>2
<1>5. Numbers'
  BY <1>2, <1>3 DEF Numbers
<1>6. Waiting'
  BY <1>2, CoreTypes DEF Waiting
<1>7. VerdictOf'
  <2>1. CASE UNCHANGED <<st, fin>>
    BY <2>1 DEF VerdictOf
  <2>2. CASE ~UNCHANGED <<st, fin>>
    BY <2>2, BeginFinalizeEffect DEF VerdictOf
  <2> QED BY <2>1, <2>2
<1>8. Held'
  <2>1. \A r \in Session : wd'[r] \in {wd[r], "done"}
    BY DEF TypeOK, WatchTypes
  <2>2. CASE UNCHANGED <<st, fin>>
    BY <2>1, <2>2 DEF Held
  <2>3. CASE ~UNCHANGED <<st, fin>>
    <3>1. HardHold => late[s] \/ forced # "none"
      BY <2>3, BeginFinalizeEffect
    <3> QED BY <2>1, <2>3, <3>1, BeginFinalizeEffect DEF Held
  <2> QED BY <2>2, <2>3
<1>9. OneStart'
  BY <1>2 DEF OneStart, Starting
<1>10. Down'
  BY <1>2 DEF Down
<1>11. OwnersAreOpen'
  BY <1>3, CoreTypes, Sets DEF OwnersAreOpen
<1>12. ActiveOwnsCapture'
  BY <1>3 DEF ActiveOwnsCapture
<1>13. QueueIsServed'
  BY <1>2 DEF QueueIsServed
<1> QED BY <1>4, <1>5, <1>6, <1>7, <1>8, <1>9, <1>10, <1>11, <1>12, <1>13

(* A finalizer that goes on towards its write. *)
LEMMA FinMoves ==
  ASSUME IInv, TypeOK', NEW s \in Session,
         fin[s].pc \in {"stop", "pause", "vin", "status"},
         fin'[s].pc \in {"stop", "pause", "vin", "status", "write"},
         \A r \in Session \ {s} : fin'[r] = fin[r],
         fin'[s].pc = "write" => fin'[s].status \notin {"none", "FAILED"},
         fin'[s].pc # "write" => fin'[s].status = fin[s].status,
         HardHold /\ ~late[s] => fin'[s].status = fin[s].status,
         UNCHANGED <<up, trig, queue, lost, st, late, row, active, owner, starter,
                     wd>>
  PROVE  IInv'
<1> USE DEF IInv
<1>1. Progress' /\ Numbers'
  BY DEF Progress, Numbers
<1>2. Waiting'
  BY DEF Waiting
<1>3. VerdictOf'
  BY DEF VerdictOf
<1>4. Held'
  BY DEF Held
<1>5. OneStart' /\ Down'
  BY DEF OneStart, Down, Starting
<1>6. OwnersAreOpen' /\ ActiveOwnsCapture' /\ QueueIsServed'
  BY DEF OwnersAreOpen, ActiveOwnsCapture, QueueIsServed
<1> QED BY <1>1, <1>2, <1>3, <1>4, <1>5, <1>6

(* The trigger that waited longest is popped: it is an old number that     *)
(* nobody had started, and now somebody has.                               *)
LEMMA PopNextEffect ==
  ASSUME TypeOK, Progress, Numbers, Waiting, NEW t \in Thread, PopNext(t),
         UNCHANGED <<trig, lost>>
  PROVE  /\ Head(queue) \in Session /\ Head(queue) <= trig /\ Head(queue) \notin lost
         /\ starter[Head(queue)].pc = "none" /\ st[Head(queue)] = "NONE"
         /\ starter'[Head(queue)].pc = "create"
         /\ \A r \in Session \ {Head(queue)} : starter'[r] = starter[r]
         /\ Waiting'
<1>1. Head(queue) \in Session /\ Head(queue) = queue[1] /\ 1 \in DOMAIN queue
  BY CoreTypes DEF PopNext
<1>2. /\ Head(queue) <= trig /\ Head(queue) \notin lost
      /\ starter[Head(queue)].pc = "none"
  BY <1>1 DEF Waiting
<1>3. st[Head(queue)] = "NONE"
  BY <1>1, <1>2 DEF Progress
<1>4. starter' = [starter EXCEPT ![Head(queue)] = [pc |-> "create", by |-> t]]
  BY DEF PopNext
<1>5. /\ starter'[Head(queue)].pc = "create"
      /\ \A r \in Session \ {Head(queue)} : starter'[r] = starter[r]
  BY <1>1, <1>4, CoreTypes
<1>6. Waiting'
  <2>1. \A i \in DOMAIN queue' : /\ i + 1 \in DOMAIN queue /\ i \in Nat \ {0}
                                 /\ queue'[i] = queue[i + 1]
    BY CoreTypes DEF PopNext
  <2>2. \A i \in DOMAIN queue' : queue'[i] # Head(queue) /\ queue'[i] \in Session
    BY <1>1, <2>1, CoreTypes DEF Waiting
  <2>3. \A i \in DOMAIN queue' : /\ queue'[i] <= trig /\ queue'[i] \notin lost
                                 /\ starter'[queue'[i]].pc = "none"
    BY <2>1, <2>2, <1>5 DEF Waiting
  <2>4. \A i, j \in DOMAIN queue' : queue'[i] = queue'[j] => i = j
    BY <2>1 DEF Waiting
  <2> QED BY <2>3, <2>4 DEF Waiting
<1> QED BY <1>1, <1>2, <1>3, <1>5, <1>6

-----------------------------------------------------------------------------
(* The steps of the threads. *)

(* The camera search watch, and what the other threads do between their    *)
(* sections that open, close or release a session.                         *)
LEMMA Bystanders ==
  ASSUME NEW s \in Session,
         \/ Search(s) \/ IntervalElapses \/ ShutdownStop
         \/ PlcOff \/ PlcOffStop
         \/ Reader(s) /\ ~RfidFinalize(s)
         \/ OcrThread /\ ~OcrFinalize
         \/ InferThread /\ ~InferRelease
         \/ UNCHANGED vars
  PROVE  UNCHANGED coreVars
<1> USE DEF coreVars, procVars, triggerVars, factVars, sessionVars, ownerVars,
            camVars, ocrVars, rfidVars, shared, threads
<1>1. CASE Search(s)
  BY <1>1 DEF Search, SearchTimeout, SearchStop, SearchPause, SearchStep
<1>2. CASE IntervalElapses \/ ShutdownStop \/ PlcOff \/ PlcOffStop
  BY <1>2 DEF IntervalElapses, ShutdownStop, PlcOff, PlcOffStop
<1>3. CASE Reader(s) /\ ~RfidFinalize(s)
  BY <1>3 DEF Reader, RfidRead, RfidValidate, RfidStore, RfidComplete, ReaderStep
<1>4. CASE OcrThread /\ ~OcrFinalize
  BY <1>4 DEF OcrThread, OcrTake, OcrReadVin, OcrValidate, OcrSignal, OcrStore,
              OcrManualRecord, OcrComplete, OcrFail, OcrUnlock, OcrUnchanged
<1>5. CASE InferThread /\ ~InferRelease
  BY <1>5 DEF InferThread, InferGrab, InferSkip, InferPlate, InferAbsent,
              InferSubmit, InferRefuse, InferEnqueue, InferStop, InferPause,
              InferOwner, InferUnchanged, InferQuiet
<1>6. CASE UNCHANGED vars
  BY <1>6 DEF vars
<1> QED BY <1>1, <1>2, <1>3, <1>4, <1>5, <1>6

(* plc_on counts, queues or starts the trigger that arrived. *)
LEMMA PlcOnKeeps == ASSUME IInv, TypeOK', PlcOn PROVE IInv'
<1> USE DEF IInv
<1>1. /\ UNCHANGED <<up, lost, st, late, row, active, owner, fin, wd>>
      /\ up /\ trig' = trig + 1 /\ trig + 1 \in Session
      /\ \A s \in Session : Starting(s) => starter[s].by # "plc"
  <2>1. /\ UNCHANGED <<up, lost, st, late, row, active, owner, fin, wd>>
        /\ up /\ trig' = trig + 1 /\ trig < MaxTriggers /\ ThreadFree("plc")
    BY DEF PlcOn, PlcThreadFree, procVars, sessionVars, factVars, shared, ownerVars
  <2>2. trig + 1 \in Session
    BY <2>1, CoreTypes, ConstantTypes DEF Session
  <2> QED BY <2>1, <2>2 DEF ThreadFree
<1>2. starter[trig + 1].pc = "none" /\ row[trig + 1] = NoRow /\ st[trig + 1] = "NONE"
      /\ trig + 1 \notin lost
  BY <1>1, CoreTypes DEF Numbers, Progress
<1>3. /\ VerdictOf' /\ Held' /\ OwnersAreOpen' /\ ActiveOwnsCapture'
  BY <1>1 DEF VerdictOf, Held, OwnersAreOpen, ActiveOwnsCapture
<1>4. \A i \in DOMAIN queue : /\ queue[i] \in Session /\ queue[i] # trig + 1
                              /\ queue[i] <= trig + 1
  <2>1. \A i \in DOMAIN queue : queue[i] \in Nat /\ queue[i] \in Session
    BY CoreTypes, Sets
  <2> QED BY <2>1, CoreTypes DEF Waiting
<1>5. CASE PlcAccept
  <2>1. /\ starter'[trig + 1].pc = "create" /\ starter'[trig + 1].by = "plc"
        /\ \A r \in Session \ {trig + 1} : starter'[r] = starter[r]
        /\ queue' = queue /\ owner = None
    BY <1>1, <1>5, CoreTypes DEF PlcAccept, CaptureBusy, OwnersAreOpen
  <2>2. Progress'
    BY <1>1, <1>2, <2>1 DEF Progress
  <2>3. Numbers'
    BY <1>1, <1>2, <2>1, CoreTypes DEF Numbers, Session
  <2>4. Waiting'
    BY <1>1, <1>4, <2>1 DEF Waiting
  <2>5. OneStart'
    BY <1>1, <1>2, <2>1 DEF OneStart, Starting
  <2>6. Down' /\ QueueIsServed'
    BY <1>1, <2>1 DEF Down, QueueIsServed
  <2> QED BY <1>3, <2>2, <2>3, <2>4, <2>5, <2>6
<1>6. CASE PlcEnqueue
  <2>1. /\ starter' = starter /\ owner # None /\ QueueEnabled
        /\ queue' = Append(queue, trig + 1)
    BY <1>6 DEF PlcEnqueue, CaptureBusy
  <2>2. /\ DOMAIN queue' = DOMAIN queue \cup {Len(queue) + 1}
        /\ \A i \in DOMAIN queue : queue'[i] = queue[i] /\ queue[i] \in Session
        /\ queue'[Len(queue) + 1] = trig + 1
    BY <2>1, <1>1, CoreTypes
  <2>3. Progress' /\ OneStart' /\ Down' /\ QueueIsServed'
    BY <1>1, <2>1 DEF Progress, OneStart, Starting, Down, QueueIsServed
  <2>4. Numbers'
    BY <1>1, <2>1, CoreTypes DEF Numbers, Session
  <2>5. Waiting'
    <3>1. Len(queue) + 1 \notin DOMAIN queue /\ trig + 1 <= trig'
      BY <1>1, CoreTypes
    <3> QED BY <1>1, <1>2, <1>4, <2>1, <2>2, <3>1 DEF Waiting
  <2> QED BY <1>3, <2>3, <2>4, <2>5
<1>7. CASE PlcSuppressDuplicate \/ PlcOverflow \/ PlcSuppressEarly
  <2>1. UNCHANGED <<queue, starter>>
    BY <1>7 DEF PlcSuppressDuplicate, PlcOverflow, PlcSuppressEarly
  <2>2. Progress' /\ OneStart' /\ Down' /\ QueueIsServed'
    BY <1>1, <2>1 DEF Progress, OneStart, Starting, Down, QueueIsServed
  <2>3. Numbers'
    BY <1>1, <2>1, CoreTypes DEF Numbers, Session
  <2>4. Waiting'
    BY <1>1, <1>4, <2>1 DEF Waiting
  <2> QED BY <1>3, <2>2, <2>3, <2>4
<1> QED BY <1>5, <1>6, <1>7 DEF PlcOn

(* _start_session opens the session and makes it the owner of the camera.  *)
LEMMA StartCreateKeeps ==
  ASSUME IInv, TypeOK', NEW s \in Session, StartCreate(s) PROVE IInv'
<1> USE DEF IInv
<1>1. /\ starter[s].pc = "create" /\ active' = s /\ owner' = s
      /\ st'[s] = "ACTIVE" /\ starter'[s].pc = "insert"
      /\ starter'[s].by = starter[s].by
      /\ \A r \in Session \ {s} : st'[r] = st[r] /\ starter'[r] = starter[r]
      /\ UNCHANGED <<up, trig, queue, lost, late, row, fin, wd>>
  BY CoreTypes DEF StartCreate, StarterType, procVars, triggerVars, factVars
<1>2. s # None
  BY Sets
<1>3. st[s] = "NONE" /\ fin[s].pc = "none"
  BY <1>1 DEF Progress
<1>4. Progress'
  BY <1>1, <1>3 DEF Progress, Open, Terminal
<1>5. Numbers'
  BY <1>1 DEF Numbers
<1>6. Waiting'
  BY <1>1, CoreTypes DEF Waiting
<1>7. VerdictOf' /\ Held'
  BY <1>1 DEF VerdictOf, Held
<1>8. OneStart'
  BY <1>1 DEF OneStart, Starting
<1>9. Down'
  BY <1>1 DEF Down
<1>10. OwnersAreOpen' /\ QueueIsServed'
  BY <1>1, <1>2 DEF OwnersAreOpen, QueueIsServed, Terminal
<1>11. ActiveOwnsCapture'
  BY <1>1, Sets DEF ActiveOwnsCapture, OneStart
<1> QED BY <1>4, <1>5, <1>6, <1>7, <1>8, <1>9, <1>10, <1>11

(* insert_pending_session writes the placeholder where no row is. *)
LEMMA StartInsertKeeps ==
  ASSUME IInv, TypeOK', NEW s \in Session, StartInsert(s) PROVE IInv'
<1> USE DEF IInv
<1>1. PICK next \in {"rfid", "missed"} : starter' = [starter EXCEPT ![s].pc = next]
  BY DEF StartInsert
<1>2. /\ starter[s].pc = "insert"
      /\ UNCHANGED <<up, trig, queue, lost, st, late, active, owner, fin, wd>>
      /\ row' = row \/ row' = [row EXCEPT ![s] = Announced(row[s])]
  BY DEF StartInsert, procVars, triggerVars, sessionVars, factVars, shared,
         ownerVars
<1>3. /\ \A r \in Session \ {s} : starter'[r] = starter[r] /\ row'[r] = row[r]
      /\ starter'[s].pc = next /\ starter'[s].by = starter[s].by
      /\ row'[s] = row[s] \/ (row[s] = NoRow /\ row'[s] = PendingRow)
  <2>1. /\ \A r \in Session \ {s} : starter'[r] = starter[r]
        /\ starter'[s].pc = next /\ starter'[s].by = starter[s].by
    BY <1>1, CoreTypes DEF StarterType
  <2>2. /\ \A r \in Session \ {s} : row'[r] = row[r]
        /\ row'[s] = row[s] \/ row'[s] = Announced(row[s])
    BY <1>2, CoreTypes
  <2>3. row'[s] = row[s] \/ (row[s] = NoRow /\ row'[s] = PendingRow)
    BY <2>2 DEF Announced
  <2> QED BY <2>1, <2>2, <2>3
<1>4. NoRow.status = "absent" /\ PendingRow.status = "PENDING"
  BY DEF NoRow, PendingRow
<1>5. st[s] # "NONE"
  BY <1>2 DEF Progress
<1>6. Progress'
  BY <1>2, <1>3 DEF Progress
<1>7. Numbers'
  BY <1>2, <1>3, <1>5 DEF Numbers
<1>8. Waiting'
  BY <1>2, <1>3, CoreTypes DEF Waiting
<1>9. VerdictOf'
  <2>1. fin[s].pc \in {"commit", "done"} => fin[s].status \in Terminal
    BY CoreTypes DEF FinType
  <2> QED BY <1>2, <1>3, <1>4, <2>1 DEF VerdictOf, Terminal
<1>10. Held' /\ Down'
  BY <1>2, <1>3 DEF Held, Down
<1>11. OneStart'
  BY <1>2, <1>3 DEF OneStart, Starting
<1>12. OwnersAreOpen' /\ ActiveOwnsCapture' /\ QueueIsServed'
  BY <1>2, <1>3 DEF OwnersAreOpen, ActiveOwnsCapture, QueueIsServed
<1> QED BY <1>6, <1>7, <1>8, <1>9, <1>10, <1>11, <1>12

(* The other steps of _start_session. *)
LEMMA StartKeeps ==
  ASSUME IInv, TypeOK', NEW s \in Session, Start(s) PROVE IInv'
<1> USE DEF procVars, triggerVars, sessionVars, factVars, shared, ownerVars
<1>1. CASE StartMissed(s)
  <2>1. /\ starter[s].pc = "missed"
        /\ BeginFinalize(s, starter[s].by, "MISSED_CAPTURE_WINDOW", TRUE)
        /\ starter' = [starter EXCEPT ![s].pc = "done"] /\ wd' = wd
        /\ UNCHANGED <<up, trig, queue, lost, late, row, active, owner>>
    BY <1>1 DEF StartMissed
  <2> QED BY <2>1, BeginFinalizeKeeps
<1>2. CASE StartRfid(s)
  <2>1. /\ starter[s].pc = "rfid" /\ wd' = wd
        /\ starter' = [starter EXCEPT ![s].pc = "camera"]
        /\ UNCHANGED <<up, trig, queue, lost, st, late, row, active, owner, fin>>
    BY <1>2 DEF StartRfid
  <2> QED BY <2>1, StarterMoves
<1>3. CASE StartCamera(s)
  <2>1. /\ starter[s].pc = "camera" /\ wd' = wd
        /\ starter' = [starter EXCEPT ![s].pc = "watchdog"]
        /\ UNCHANGED <<up, trig, queue, lost, st, late, row, active, owner, fin>>
    BY <1>3 DEF StartCamera
  <2> QED BY <2>1, StarterMoves
<1>4. CASE StartWatchdog(s)
  <2>1. /\ starter[s].pc = "watchdog" /\ wd' = [wd EXCEPT ![s] = "waiting"]
        /\ starter' = [starter EXCEPT ![s].pc = "done"]
        /\ UNCHANGED <<up, trig, queue, lost, st, late, row, active, owner, fin>>
    BY <1>4 DEF StartWatchdog
  <2> QED BY <2>1, StarterMoves
<1> QED BY <1>1, <1>2, <1>3, <1>4, StartCreateKeeps, StartInsertKeeps DEF Start

(* The deadline passes. *)
LEMMA DeadlineKeeps ==
  ASSUME IInv, TypeOK', NEW s \in Session, DeadlinePasses(s) PROVE IInv'
<1> USE DEF IInv
<1>1. /\ \A r \in Session : late[r] => late'[r]
      /\ UNCHANGED <<up, trig, queue, lost, st, row, active, owner, starter, fin,
                     wd>>
  BY CoreTypes DEF DeadlinePasses, procVars, triggerVars, shared, ownerVars
<1>2. Progress' /\ Numbers' /\ Waiting' /\ VerdictOf'
  BY <1>1 DEF Progress, Numbers, Waiting, VerdictOf
<1>3. Held'
  BY <1>1 DEF Held
<1>4. OneStart' /\ Down' /\ OwnersAreOpen' /\ ActiveOwnsCapture' /\ QueueIsServed'
  BY <1>1 DEF OneStart, Starting, Down, OwnersAreOpen, ActiveOwnsCapture,
     QueueIsServed
<1> QED BY <1>2, <1>3, <1>4

(* The steps of a watchdog. *)
LEMMA WatchKeeps ==
  ASSUME IInv, TypeOK', NEW s \in Session, Watch(s) PROVE IInv'
<1> USE DEF WatchStep, procVars, triggerVars, sessionVars, factVars, shared,
            ownerVars
<1>1. CASE WatchClosedElsewhere(s)
  <2>1. /\ wd' = [wd EXCEPT ![s] = "done"]
        /\ UNCHANGED <<up, trig, queue, lost, st, late, row, active, owner,
                       starter, fin>>
    BY <1>1 DEF WatchClosedElsewhere
  <2> QED BY <2>1, WatchMoves
<1>2. CASE WatchDeadline(s)
  <2>1. late[s]
    BY <1>2 DEF WatchDeadline
  <2>2. PICK next \in {"grace", "closing"} : wd' = [wd EXCEPT ![s] = next]
    BY <1>2 DEF WatchDeadline
  <2>3. UNCHANGED <<up, trig, queue, lost, st, late, row, active, owner, starter,
                    fin>>
    BY <1>2 DEF WatchDeadline
  <2> QED BY <2>1, <2>2, <2>3, WatchMoves
<1>3. CASE WatchGraceOver(s)
  <2>1. /\ wd[s] = "grace" /\ wd' = [wd EXCEPT ![s] = "closing"]
        /\ UNCHANGED <<up, trig, queue, lost, st, late, row, active, owner,
                       starter, fin>>
    BY <1>3 DEF WatchGraceOver
  <2>2. late[s]
    BY <2>1 DEF IInv, Held
  <2> QED BY <2>1, <2>2, WatchMoves
<1>4. CASE WatchClose(s)
  <2>1. /\ wd[s] = "closing" /\ wd' = [wd EXCEPT ![s] = "done"]
        /\ BeginFinalize(s, "watchdog", "none", TRUE)
        /\ UNCHANGED <<up, trig, queue, lost, late, row, active, owner>>
        /\ starter' = starter
    BY <1>4 DEF WatchClose
  <2>2. late[s]
    BY <2>1 DEF IInv, Held
  <2> QED BY <2>1, <2>2, BeginFinalizeKeeps
<1> QED BY <1>1, <1>2, <1>3, <1>4 DEF Watch

(* The steps of a finalizer before its write. *)
LEMMA FinBeforeWrite ==
  ASSUME IInv, TypeOK', NEW s \in Session,
         FinStop(s) \/ FinPause(s) \/ FinReadVin(s) \/ FinStatus(s)
  PROVE  IInv'
<1> USE DEF FinUnchanged, procVars, triggerVars, factVars, ownerVars
<1>1. UNCHANGED <<up, trig, queue, lost, st, late, row, active, owner, starter,
                  wd>>
  BY DEF FinStop, FinPause, FinReadVin, FinStatus
<1>2. fin[s].status \in Terminal \cup {"none"}
  BY CoreTypes DEF IInv, FinType
<1>3. /\ fin[s].pc \in {"stop", "pause", "vin", "status"}
      /\ \A r \in Session \ {s} : fin'[r] = fin[r]
      /\ \/ /\ fin'[s].pc \in {"pause", "vin", "status"}
            /\ fin'[s].status = fin[s].status
         \/ /\ fin'[s].pc = "write"
            /\ \/ fin[s].status # "none" /\ fin'[s].status = fin[s].status
               \/ fin[s].status = "none" /\ fin'[s].status \in {"SUCCESS", "TIMEOUT"}
  <2>1. CASE FinStop(s)
    BY <2>1, CoreTypes DEF FinStop, IInv, FinType
  <2>2. CASE FinPause(s)
    BY <2>2, CoreTypes DEF FinPause, IInv, FinType
  <2>3. CASE FinReadVin(s)
    BY <2>3, CoreTypes DEF FinReadVin, IInv, FinType
  <2>4. CASE FinStatus(s)
    <3>1. PICK status \in {fin[s].status, "SUCCESS", "TIMEOUT"} :
            /\ fin[s].status # "none" => status = fin[s].status
            /\ fin[s].status = "none" => status \in {"SUCCESS", "TIMEOUT"}
            /\ fin' = [fin EXCEPT ![s] =
                         [fin[s] EXCEPT !.pc = "write", !.rfid = rfid[s],
                                        !.status = status]]
      BY <2>4 DEF FinStatus
    <3> QED BY <2>4, <3>1, CoreTypes DEF FinStatus, IInv, FinType
  <2> QED BY <2>1, <2>2, <2>3, <2>4
<1>4. fin[s].status \in {"none", "CANCELLED", "MISSED_CAPTURE_WINDOW"}
  BY <1>3 DEF IInv, VerdictOf
<1>5. HardHold /\ ~late[s] => fin[s].status # "none"
  BY <1>3 DEF IInv, Held
<1> QED BY <1>1, <1>3, <1>4, <1>5, FinMoves

(* A session with a finalizer is known to this process, and its row has no *)
(* verdict before the finalizer has written it.                            *)
LEMMA NotYetWritten ==
  ASSUME IInv, NEW s \in Session, fin[s].pc \notin {"none", "commit", "done"}
  PROVE  /\ st[s] \notin Open \cup Terminal \cup {"NONE"} /\ s \notin lost
         /\ row[s].status \in {"absent", "PENDING"} /\ starter[s].pc # "none"
<1>1. st[s] \notin Open \cup Terminal \cup {"NONE"}
  BY DEF IInv, Progress
<1>2. s \notin lost /\ starter[s].pc # "none"
  BY <1>1 DEF IInv, Numbers, Progress
<1>3. row[s].status \in RowState /\ row[s].status \notin Terminal
  BY <1>2, CoreTypes DEF IInv, VerdictOf, RowType
<1> QED BY <1>1, <1>2, <1>3 DEF RowState

(* The one write of the verdict, or its failure. *)
LEMMA FinWriteKeeps ==
  ASSUME IInv, TypeOK', NEW s \in Session, FinWrite(s) PROVE IInv'
<1> USE DEF IInv
<1>1. /\ fin[s].pc = "write" /\ fin[s].status \in Terminal \ {"FAILED"}
      /\ UNCHANGED <<up, trig, queue, lost, st, late, active, owner, starter, wd>>
  BY CoreTypes DEF FinWrite, FinUnchanged, procVars, triggerVars, factVars,
     ownerVars, VerdictOf, FinType
<1>2. /\ \A r \in Session \ {s} : fin'[r] = fin[r] /\ row'[r] = row[r]
      /\ fin'[s].pc = "commit"
      /\ \/ fin'[s].status = fin[s].status /\ row'[s].status = fin[s].status
         \/ DbMayFail /\ fin'[s].status = "FAILED" /\ row'[s] = row[s]
  <2>1. CASE /\ row' = [row EXCEPT ![s] = [status |-> fin[s].status,
                                           vin |-> fin[s].vin,
                                           rfid |-> fin[s].rfid]]
             /\ fin' = [fin EXCEPT ![s].pc = "commit"]
    BY <2>1, CoreTypes DEF FinType
  <2>2. CASE /\ DbMayFail /\ UNCHANGED row
             /\ fin' = [fin EXCEPT ![s] = AfterFailedWrite(fin[s])]
    BY <2>2, CoreTypes DEF FinType, AfterFailedWrite
  <2> QED BY <2>1, <2>2 DEF FinWrite
<1>3. /\ st[s] \notin Open \cup Terminal \cup {"NONE"} /\ s \notin lost
      /\ row[s].status \in {"absent", "PENDING"} /\ starter[s].pc # "none"
  BY <1>1, NotYetWritten
<1>4. Progress'
  BY <1>1, <1>2, <1>3 DEF Progress
<1>5. Numbers'
  BY <1>1, <1>2, <1>3 DEF Numbers
<1>6. Waiting'
  BY <1>1 DEF Waiting
<1>7. VerdictOf'
  BY <1>1, <1>2, <1>3 DEF VerdictOf, Terminal
<1>8. Held'
  BY <1>1, <1>2 DEF Held
<1>9. OneStart' /\ Down'
  BY <1>1 DEF OneStart, Starting, Down
<1>10. OwnersAreOpen' /\ ActiveOwnsCapture' /\ QueueIsServed'
  BY <1>1 DEF OwnersAreOpen, ActiveOwnsCapture, QueueIsServed
<1> QED BY <1>4, <1>5, <1>6, <1>7, <1>8, <1>9, <1>10

(* The closing section gives the session its terminal state, the camera    *)
(* back and the next trigger to this thread.                               *)
LEMMA FinCommitKeeps ==
  ASSUME IInv, TypeOK', NEW s \in Session, FinCommit(s) PROVE IInv'
<1> USE DEF IInv
<1>1. /\ fin[s].pc = "commit" /\ fin[s].status \in Terminal
      /\ fin'[s].pc = "done" /\ fin'[s].status = fin[s].status
      /\ st'[s] = fin[s].status
      /\ \A r \in Session \ {s} : fin'[r] = fin[r] /\ st'[r] = st[r]
      /\ UNCHANGED <<up, trig, lost, late, row, wd>>
      /\ fin[s].by \in Thread
  BY CoreTypes DEF FinCommit, FinUnchanged, procVars, factVars, FinType
<1>2. /\ active' = IF active = s THEN None ELSE active
      /\ owner' = IF owner = s THEN None ELSE owner
  BY DEF FinCommit, Without
<1>3. st[s] \notin Open \cup Terminal \cup {"NONE"} /\ starter[s].pc # "none"
  BY <1>1 DEF Progress
<1>4. st'[s] \notin Open \cup {"NONE"}
  BY <1>1 DEF Open, Terminal
<1>5. VerdictOf' /\ Held'
  BY <1>1 DEF VerdictOf, Held
<1>6. OwnersAreOpen'
  BY <1>1, <1>2, CoreTypes, Sets DEF OwnersAreOpen
<1>7. ActiveOwnsCapture'
  BY <1>1, <1>2, <1>4 DEF ActiveOwnsCapture, Open
<1>8. CASE PopNext(fin[s].by) /\ owner' = None
  <2>1. /\ Head(queue) \in Session /\ Head(queue) <= trig
        /\ Head(queue) \notin lost
        /\ starter[Head(queue)].pc = "none" /\ st[Head(queue)] = "NONE"
        /\ starter'[Head(queue)].pc = "create"
        /\ \A r \in Session \ {Head(queue)} : starter'[r] = starter[r]
        /\ Waiting'
    BY <1>1, <1>8, PopNextEffect
  <2>2. Progress'
    BY <1>1, <1>3, <1>4, <2>1 DEF Progress
  <2>3. Numbers'
    BY <1>1, <1>3, <1>4, <2>1, CoreTypes, Sets DEF Numbers
  <2>4. QueueEnabled
    BY <1>8 DEF OneStart, PopNext
  <2>5. OneStart' /\ QueueIsServed'
    BY <2>1, <2>4 DEF OneStart, QueueIsServed
  <2>6. Down'
    BY <1>1, <1>3 DEF Down
  <2> QED BY <1>5, <1>6, <1>7, <2>1, <2>2, <2>3, <2>5, <2>6
<1>9. CASE (owner' # None \/ queue = <<>>) /\ UNCHANGED <<queue, starter>>
  <2>1. Progress' /\ Numbers'
    BY <1>1, <1>3, <1>4, <1>9 DEF Progress, Numbers
  <2>2. Waiting' /\ QueueIsServed' /\ Down'
    BY <1>1, <1>9 DEF Waiting, QueueIsServed, Down
  <2>3. OneStart'
    BY <1>2, <1>9 DEF OneStart, Starting
  <2> QED BY <1>5, <1>6, <1>7, <2>1, <2>2, <2>3
<1> QED BY <1>8, <1>9 DEF FinCommit

(* _release_capture: the camera is free, the session waits for its results,*)
(* the next queued trigger starts in the inference thread.                 *)
LEMMA InferReleaseKeeps ==
  ASSUME IInv, TypeOK', InferRelease PROVE IInv'
<1> USE DEF IInv
<1>1. UNCHANGED <<up, trig, lost, late, row, active, fin, wd>>
  BY DEF InferRelease, InferUnchanged, procVars
<1>2. CASE owner # infer.sid
  BY <1>1, <1>2, Untouched DEF InferRelease, InferQuiet, coreVars
<1>3. CASE owner = infer.sid
  <2> DEFINE s == infer.sid
  <2>1. /\ s \in Session /\ s # None /\ owner' = None
        /\ st' = [st EXCEPT ![s] = Released(st[s])]
        /\ PopNext("infer") \/ (queue = <<>> /\ UNCHANGED <<queue, starter>>)
    BY <1>3, Sets DEF InferRelease, TypeOK, InferTypes, InferType
  <2>2. /\ \A r \in Session \ {s} : st'[r] = st[r]
        /\ \/ st'[s] = st[s] /\ st[s] # "ACTIVE"
           \/ st[s] = "ACTIVE" /\ st'[s] = "WAITING_RESULTS"
    BY <2>1, CoreTypes DEF Released
  <2>3. /\ \A r \in Session : (st'[r] \in Open) = (st[r] \in Open)
        /\ \A r \in Session : (st'[r] = "NONE") = (st[r] = "NONE")
        /\ \A r \in Session : (st'[r] \in Terminal) = (st[r] \in Terminal)
        /\ \A r \in Session : st[r] \in Terminal => st'[r] = st[r]
    BY <2>2 DEF Open, Terminal
  <2>4. st[s] # "NONE" /\ starter[s].pc # "none"
    BY <1>3, <2>1 DEF OwnersAreOpen, Progress
  <2>5. VerdictOf' /\ Held'
    BY <1>1 DEF VerdictOf, Held
  <2>6. OwnersAreOpen'
    BY <1>1, <2>1, <2>3, CoreTypes, Sets DEF OwnersAreOpen
  <2>7. ActiveOwnsCapture'
    BY <1>3, <2>1, <2>2 DEF ActiveOwnsCapture
  <2>8. CASE PopNext("infer")
    <3>1. /\ Head(queue) \in Session /\ Head(queue) <= trig
          /\ Head(queue) \notin lost
          /\ starter[Head(queue)].pc = "none" /\ st[Head(queue)] = "NONE"
          /\ starter'[Head(queue)].pc = "create"
          /\ \A r \in Session \ {Head(queue)} : starter'[r] = starter[r]
          /\ Waiting'
      BY <1>1, <2>8, PopNextEffect DEF Thread
    <3>2. Progress'
      BY <1>1, <2>3, <3>1 DEF Progress
    <3>3. Numbers'
      <4>1. \A r \in Session : starter'[r].pc = "none" => starter[r].pc = "none"
        BY <3>1
      <4>2. \A r \in Session : r > trig => starter'[r].pc = "none"
        <5>1. \A r \in Session : r > trig => r # Head(queue)
          BY <3>1, CoreTypes, Sets
        <5>2. \A r \in Session : r > trig => starter[r].pc = "none"
          BY DEF Numbers
        <5> QED BY <3>1, <5>1, <5>2
      <4> QED BY <1>1, <2>3, <3>1, <4>1, <4>2 DEF Numbers
    <3>4. QueueEnabled
      BY <2>8 DEF OneStart, PopNext
    <3>5. OneStart' /\ QueueIsServed'
      BY <3>1, <3>4 DEF OneStart, QueueIsServed
    <3>6. Down'
      BY <1>1, <2>1, <2>4 DEF Down
    <3> QED BY <2>5, <2>6, <2>7, <3>1, <3>2, <3>3, <3>5, <3>6
  <2>9. CASE queue = <<>> /\ UNCHANGED <<queue, starter>>
    <3>1. Progress' /\ Numbers'
      BY <1>1, <2>3, <2>9 DEF Progress, Numbers
    <3>2. Waiting' /\ QueueIsServed' /\ Down'
      BY <1>1, <2>9 DEF Waiting, QueueIsServed, Down
    <3>3. OneStart'
      BY <2>1, <2>9 DEF OneStart, Starting
    <3> QED BY <2>5, <2>6, <2>7, <3>1, <3>2, <3>3
  <2> QED BY <2>1, <2>8, <2>9
<1> QED BY <1>2, <1>3

(* prepare_shutdown empties the queue, then cancels what is open. *)
LEMMA ShutdownKeeps ==
  ASSUME IInv, TypeOK', NEW s \in Session, ShutdownBegin \/ ShutdownCancel(s)
  PROVE  IInv'
<1> USE DEF procVars, triggerVars, sessionVars, factVars, shared, ownerVars
<1>1. CASE ShutdownBegin
  <2>1. /\ queue' = <<>>
        /\ UNCHANGED <<up, trig, lost, st, late, row, active, owner, starter, fin,
                       wd>>
    BY <1>1 DEF ShutdownBegin
  <2>2. Progress' /\ Numbers' /\ VerdictOf' /\ Held' /\ Down'
    BY <2>1 DEF IInv, Progress, Numbers, VerdictOf, Held, Down
  <2>3. Waiting' /\ OneStart'
    BY <2>1 DEF IInv, Waiting, OneStart, Starting
  <2>4. OwnersAreOpen' /\ ActiveOwnsCapture' /\ QueueIsServed'
    BY <2>1 DEF IInv, OwnersAreOpen, ActiveOwnsCapture, QueueIsServed
  <2> QED BY <2>2, <2>3, <2>4 DEF IInv
<1>2. CASE ShutdownCancel(s)
  <2>1. /\ BeginFinalize(s, "shutdown", "CANCELLED", TRUE)
        /\ wd' = wd /\ starter' = starter
        /\ UNCHANGED <<up, trig, queue, lost, late, row, active, owner>>
    BY <1>2 DEF ShutdownCancel
  <2> QED BY <2>1, BeginFinalizeKeeps
<1> QED BY <1>1, <1>2

(* A process that ends leaves the rows, and no thread that could write one. *)
LEMMA ProcessGoneKeeps == ASSUME IInv, TypeOK', ProcessGone PROVE IInv'
<1>1. /\ queue' = <<>> /\ active' = None /\ owner' = None
      /\ st' = [s \in Session |-> "NONE"] /\ late' = [s \in Session |-> FALSE]
      /\ starter' = [s \in Session |-> NoStarter]
      /\ fin' = [s \in Session |-> NoFin] /\ wd' = [s \in Session |-> "none"]
      /\ lost' = lost \cup (1 .. trig) /\ UNCHANGED <<trig, row>>
  BY DEF ProcessGone
<1>2. NoStarter.pc = "none" /\ NoFin.pc = "none"
  BY DEF NoStarter, NoFin
<1>3. \A s \in Session : /\ st'[s] = "NONE" /\ wd'[s] = "none"
                         /\ starter'[s].pc = "none" /\ fin'[s].pc = "none"
  BY <1>1, <1>2
<1>4. Progress' /\ Down'
  BY <1>3 DEF Progress, Down, Open, Terminal
<1>5. Numbers'
  <2>1. \A s \in lost' : s <= trig
    BY <1>1, CoreTypes DEF IInv, Numbers
  <2>2. \A s \in Session : s <= trig => s \in lost'
    BY <1>1, CoreTypes DEF IInv, Session
  <2>3. \A s \in Session : ~(s <= trig) => row[s] = NoRow
    BY CoreTypes, Sets DEF IInv, Numbers
  <2>4. \A s \in Session : row[s] # NoRow => s \in lost'
    BY <2>2, <2>3
  <2>5. \A s \in Session : s > trig => row[s] = NoRow
    BY DEF IInv, Numbers
  <2> QED BY <1>1, <1>3, <2>1, <2>4, <2>5 DEF Numbers
<1>6. VerdictOf'
  <2>1. \A s \in Session : row[s].status \in Terminal => s \in lost'
    <3>1. NoRow.status \notin Terminal
      BY DEF NoRow, Terminal
    <3> QED BY <1>1, <1>3, <1>5, <3>1 DEF Numbers
  <2> QED BY <1>1, <1>3, <2>1 DEF VerdictOf
<1>7. Held' /\ Waiting' /\ OneStart'
  BY <1>1, <1>3 DEF Held, Waiting, OneStart, Starting
<1>8. OwnersAreOpen' /\ ActiveOwnsCapture' /\ QueueIsServed'
  BY <1>1, <1>3 DEF OwnersAreOpen, ActiveOwnsCapture, QueueIsServed
<1> QED BY <1>4, <1>5, <1>6, <1>7, <1>8 DEF IInv

(* init_db fails the rows that stayed PENDING: all of an earlier process.  *)
LEMMA RestartKeeps == ASSUME IInv, TypeOK', Restart PROVE IInv'
<1>1. /\ ~up /\ up'
      /\ UNCHANGED <<trig, queue, lost, st, late, active, owner, starter, fin, wd>>
      /\ \A s \in Session : row'[s] = row[s] \/ row'[s] = Recovered(row[s])
  BY CoreTypes DEF Restart, IInv, triggerVars, sessionVars, factVars, shared,
     ownerVars
<1>2. \A s \in Session :
        \/ row'[s] = row[s]
        \/ row[s].status = "PENDING" /\ row'[s].status = "FAILED"
  <2>1. ASSUME NEW s \in Session PROVE Recovered(row[s]) = row[s] \/
          (row[s].status = "PENDING" /\ Recovered(row[s]).status = "FAILED")
    BY CoreTypes DEF Recovered, IInv, RowType
  <2> QED BY <1>1, <2>1
<1>3. \A s \in Session : starter[s].pc = "none" /\ st[s] = "NONE"
  BY <1>1 DEF IInv, Down, Progress
<1>4. Progress' /\ Waiting' /\ Held' /\ Down'
  BY <1>1 DEF IInv, Progress, Waiting, Held, Down
<1>5. Numbers'
  <2>1. NoRow.status # "PENDING"
    BY DEF NoRow
  <2> QED BY <1>1, <1>2, <1>3, <2>1 DEF IInv, Numbers
<1>6. VerdictOf'
  <2>1. \A s \in Session : row[s].status = "PENDING" => s \in lost
    <3>1. NoRow.status # "PENDING"
      BY DEF NoRow
    <3> QED BY <1>3, <3>1 DEF IInv, Numbers
  <2>2. \A s \in Session : fin[s].pc = "none"
    BY <1>3 DEF IInv, Progress
  <2> QED BY <1>1, <1>2, <2>1, <2>2 DEF IInv, VerdictOf
<1>7. OneStart' /\ OwnersAreOpen' /\ ActiveOwnsCapture' /\ QueueIsServed'
  BY <1>1 DEF IInv, OneStart, Starting, OwnersAreOpen, ActiveOwnsCapture,
              QueueIsServed
<1> QED BY <1>4, <1>5, <1>6, <1>7 DEF IInv

(* The other callers of _finalize_session: plc_off, the RFID worker and    *)
(* the OCR worker, none of which may break the hold.                       *)
LEMMA CallersKeep ==
  ASSUME IInv, TypeOK', NEW s \in Session,
         PlcOffFinalize \/ RfidFinalize(s) \/ OcrFinalize
  PROVE  IInv'
<1> USE DEF procVars, triggerVars, sessionVars, factVars, shared, ownerVars
<1>1. PICK r \in Session, t \in {"plc", "rfid", "ocr"} :
        BeginFinalize(r, t, "none", FALSE)
  <2>1. CASE PlcOffFinalize
    BY <2>1 DEF PlcOffFinalize, IInv, TypeOK, PlcTypes, PlcType
  <2>2. CASE RfidFinalize(s)
    BY <2>2 DEF RfidFinalize
  <2>3. CASE OcrFinalize
    BY <2>3 DEF OcrFinalize, IInv, TypeOK, OcrTypes, OcrType
  <2> QED BY <2>1, <2>2, <2>3
<1>2. /\ wd' = wd /\ starter' = starter
      /\ UNCHANGED <<up, trig, queue, lost, late, row, active, owner>>
  BY DEF PlcOffFinalize, RfidFinalize, ReaderStep, OcrFinalize, OcrUnchanged
<1> QED BY <1>1, <1>2, BeginFinalizeKeeps

-----------------------------------------------------------------------------
(* The theorems. *)

(* Every initial state satisfies the invariant. *)
LEMMA InvInit == Init => IInv
<1> SUFFICES ASSUME Init PROVE IInv
  OBVIOUS
<1>1. TypeOK
  BY TypeInit
<1>2. /\ trig = 0 /\ lost = {} /\ queue = <<>> /\ active = None /\ owner = None
      /\ up = TRUE /\ \A s \in Session : /\ st[s] = "NONE" /\ wd[s] = "none"
                                         /\ starter[s] = NoStarter
                                         /\ fin[s] = NoFin /\ row[s] = NoRow
  BY DEF Init, Boot
<1>3. NoStarter.pc = "none" /\ NoFin.pc = "none" /\ NoRow.status \notin Terminal
  BY DEF NoStarter, NoFin, NoRow, Terminal
<1>4. Progress /\ Numbers /\ Waiting
  BY <1>2, <1>3 DEF Progress, Numbers, Waiting, Open, Terminal
<1>5. VerdictOf /\ Held /\ Down
  BY <1>2, <1>3 DEF VerdictOf, Held, Down
<1>6. OneStart /\ OwnersAreOpen /\ ActiveOwnsCapture /\ QueueIsServed
  BY <1>2, <1>3 DEF OneStart, Starting, OwnersAreOpen, ActiveOwnsCapture,
     QueueIsServed
<1> QED BY <1>1, <1>4, <1>5, <1>6 DEF IInv

(* Every step keeps it. *)
LEMMA InvStep == IInv /\ [Next]_vars => IInv'
<1> SUFFICES ASSUME IInv, [Next]_vars PROVE IInv'
  OBVIOUS
<1>1. TypeOK'
  BY TypeStep DEF IInv
<1>2. PICK s \in Session : TRUE
  BY ConstantTypes DEF Session
<1>3. CASE UNCHANGED vars \/ IntervalElapses
  BY <1>1, <1>2, <1>3, Bystanders, Untouched
<1>4. CASE PlcThread
  BY <1>1, <1>2, <1>4, PlcOnKeeps, CallersKeep, Bystanders, Untouched DEF PlcThread
<1>5. CASE OcrThread
  BY <1>1, <1>2, <1>5, CallersKeep, Bystanders, Untouched
<1>6. CASE InferThread
  BY <1>1, <1>2, <1>6, InferReleaseKeeps, Bystanders, Untouched
<1>7. CASE Process
  BY <1>1, <1>2, <1>7, ShutdownKeeps, Bystanders, Untouched, ProcessGoneKeeps,
     RestartKeeps DEF Process, ShutdownExit, Crash
<1>8. ASSUME NEW r \in Session,
             \/ Start(r) \/ Watch(r) \/ Finish(r) \/ Search(r) \/ Reader(r)
             \/ DeadlinePasses(r) \/ ShutdownCancel(r)
      PROVE  IInv'
  <2>1. CASE Start(r) \/ Watch(r) \/ DeadlinePasses(r) \/ ShutdownCancel(r)
    BY <1>1, <2>1, StartKeeps, WatchKeeps, DeadlineKeeps, ShutdownKeeps
  <2>2. CASE Finish(r)
    BY <1>1, <2>2, FinBeforeWrite, FinWriteKeeps, FinCommitKeeps DEF Finish
  <2>3. CASE Search(r) \/ Reader(r)
    BY <1>1, <2>3, CallersKeep, Bystanders, Untouched
  <2> QED BY <1>8, <2>1, <2>2, <2>3
<1> QED BY <1>3, <1>4, <1>5, <1>6, <1>7, <1>8 DEF Next

(* IInv is an invariant of every configuration. *)
THEOREM Invariance == Spec => []IInv
BY InvInit, InvStep, PTL DEF Spec

(* A session that is closed has given the camera back, in every            *)
(* configuration: no later trigger is suppressed because of it.            *)
THEOREM OwnersOpen == Spec => []OwnersAreOpen
<1>1. IInv => OwnersAreOpen
  BY DEF IInv
<1> QED BY <1>1, Invariance, PTL

(* Without the queue no second session is ACTIVE beside the owner. *)
THEOREM OneActive == Spec => []ActiveOwnsCapture
<1>1. IInv => ActiveOwnsCapture
  BY DEF IInv
<1> QED BY <1>1, Invariance, PTL

(* No wake-up of the trigger queue is lost. *)
THEOREM QueueServed == Spec => []QueueIsServed
<1>1. IInv => QueueIsServed
  BY DEF IInv
<1> QED BY <1>1, Invariance, PTL

(* The service and SQLite agree about every closed session, save for the   *)
(* write that failed, and that one says FAILED.                            *)
THEOREM TerminalRecorded == Spec => []TerminalIsRecorded
<1>1. IInv => TerminalIsRecorded
  <2> SUFFICES ASSUME IInv, NEW s \in Session, st[s] \in Terminal
               PROVE  \/ row[s].status = st[s]
                      \/ /\ DbMayFail /\ st[s] = "FAILED"
                         /\ row[s].status \in {"absent", "PENDING"}
    BY DEF TerminalIsRecorded
  <2>1. fin[s].pc = "done" /\ st[s] = fin[s].status
    BY DEF IInv, Progress
  <2> QED BY <2>1 DEF IInv, VerdictOf
<1> QED BY <1>1, Invariance, PTL

(* Under the hard hold no thread closes a session before its deadline with *)
(* an ordinary verdict.                                                    *)
THEOREM HeldUntilDeadline == Spec => []HoldUntilDeadline
<1>1. IInv => HoldUntilDeadline
  <2> SUFFICES ASSUME IInv, HardHold, NEW s \in Session,
                      st[s] \in {"SUCCESS", "TIMEOUT"}
               PROVE  late[s]
    BY DEF HoldUntilDeadline
  <2>1. fin[s].pc = "done" /\ st[s] = fin[s].status
    BY DEF IInv, Progress, Terminal
  <2> QED BY <2>1 DEF IInv, Held
<1> QED BY <1>1, Invariance, PTL

-----------------------------------------------------------------------------
(* Verdicts and restarts. *)

(* Which steps write a row, and of which session. *)
LEMMA RowWriters ==
  ASSUME [Next]_vars, row' # row
  PROVE  (\E s \in Session : StartInsert(s) \/ FinWrite(s)) \/ Restart
<1> USE DEF procVars, triggerVars, factVars, sessionVars, ownerVars, camVars,
            ocrVars, rfidVars, shared, threads
<1>1. ~UNCHANGED vars /\ ~PlcThread
  BY DEF vars, PlcThread, PlcOn, PlcOff, PlcOffFinalize, PlcOffStop
<1>2. ~OcrThread
  BY DEF OcrThread, OcrTake, OcrReadVin, OcrValidate, OcrSignal, OcrStore,
         OcrManualRecord, OcrComplete, OcrFinalize, OcrFail, OcrUnlock,
         OcrUnchanged
<1>3. ~InferThread
  BY DEF InferThread, InferGrab, InferSkip, InferPlate, InferAbsent, InferSubmit,
         InferRefuse, InferEnqueue, InferStop, InferPause, InferOwner,
         InferRelease, InferUnchanged
<1>4. ~IntervalElapses /\ (Process => Restart)
  BY DEF IntervalElapses, Process, ShutdownBegin, ShutdownStop, ShutdownExit,
         Crash, ProcessGone
<1>5. ASSUME NEW s \in Session
      PROVE  /\ Start(s) => StartInsert(s)
             /\ ~Watch(s)
             /\ Finish(s) => FinWrite(s)
             /\ ~Search(s) /\ ~Reader(s) /\ ~DeadlinePasses(s)
             /\ ~ShutdownCancel(s)
  <2>1. Start(s) => StartInsert(s)
    BY DEF Start, StartCreate, StartMissed, StartRfid, StartCamera, StartWatchdog
  <2>2. ~Watch(s)
    BY DEF Watch, WatchClosedElsewhere, WatchDeadline, WatchGraceOver, WatchClose,
           WatchStep
  <2>3. Finish(s) => FinWrite(s)
    BY DEF Finish, FinStop, FinPause, FinReadVin, FinStatus, FinCommit
  <2>4. ~Search(s) /\ ~DeadlinePasses(s) /\ ~ShutdownCancel(s)
    BY DEF Search, SearchTimeout, SearchStop, SearchPause, SearchStep,
           DeadlinePasses, ShutdownCancel
  <2>5. ~Reader(s)
    BY DEF Reader, RfidRead, RfidValidate, RfidStore, RfidComplete, RfidFinalize,
           ReaderStep
  <2> QED BY <2>1, <2>2, <2>3, <2>4, <2>5
<1> QED BY <1>1, <1>2, <1>3, <1>4, <1>5 DEF Next

(* No step changes a row that holds a verdict. *)
LEMMA RecordStep ==
  ASSUME IInv, [Next]_vars, NEW s \in Session, row[s].status \in Terminal
  PROVE  row'[s] = row[s]
<1> SUFFICES ASSUME row' # row PROVE row'[s] = row[s]
  OBVIOUS
<1>1. ASSUME NEW r \in Session, StartInsert(r) PROVE row'[s] = row[s]
  <2>1. NoRow.status \notin Terminal
    BY DEF NoRow, Terminal
  <2>2. Announced(row[s]) = row[s]
    BY <2>1 DEF Announced
  <2>3. row' = row \/ row' = [row EXCEPT ![r] = Announced(row[r])]
    BY <1>1 DEF StartInsert
  <2> QED BY <2>2, <2>3, CoreTypes DEF IInv
<1>2. ASSUME NEW r \in Session, FinWrite(r) PROVE row'[s] = row[s]
  <2>1. fin[r].pc = "write"
    BY <1>2 DEF FinWrite
  <2>2. row[r].status \in {"absent", "PENDING"}
    BY <2>1, NotYetWritten
  <2>3. r # s
    BY <2>2 DEF Terminal
  <2>4. \A t \in Session \ {r} : row'[t] = row[t]
    BY <1>2, CoreTypes DEF FinWrite, IInv
  <2> QED BY <2>3, <2>4
<1>3. CASE Restart
  <2>1. row'[s] = row[s] \/ row'[s] = Recovered(row[s])
    BY <1>3 DEF Restart
  <2> QED BY <2>1 DEF Recovered, Terminal
<1> QED BY <1>1, <1>2, <1>3, RowWriters

(* One session, one record: whatever threads finalize it, however often,   *)
(* with or without crashes and failed writes, a verdict once in SQLite is  *)
(* never changed.                                                          *)
THEOREM RecordsFinal == Spec => RecordsFinalOnce
<1>1. IInv /\ [Next]_vars =>
        [\A s \in Session : row[s].status \in Terminal => row'[s] = row[s]]_vars
  BY RecordStep
<1> QED BY <1>1, Invariance, PTL DEF Spec, RecordsFinalOnce

-----------------------------------------------------------------------------
(* Which steps touch the triggers. *)

(* What becomes of the triggers: the steps that take, queue, drop or start *)
(* one.  Only the end of the process and its restart touch up and lost.    *)
LEMMA TriggerSteps ==
  ASSUME [Next]_vars, ~ProcessGone, ~Restart
  PROVE  /\ UNCHANGED <<up, lost>>
         /\ \/ PlcOn \/ ShutdownBegin \/ InferRelease
            \/ \E s \in Session : Start(s) \/ FinCommit(s)
            \/ UNCHANGED <<trig, queue, suppressed, dropped, starter>>
<1> USE DEF procVars, triggerVars, factVars, sessionVars, ownerVars, camVars,
            ocrVars, rfidVars, shared, threads
<1> DEFINE Kept == UNCHANGED <<trig, queue, suppressed, dropped, starter>>
<1>1. CASE PlcThread
  BY <1>1 DEF PlcThread, PlcOn, PlcOff, PlcOffFinalize, PlcOffStop
<1>2. CASE OcrThread
  <2>1. UNCHANGED <<up, lost>> /\ Kept
    BY <1>2 DEF OcrThread, OcrTake, OcrReadVin, OcrValidate, OcrSignal, OcrStore,
       OcrManualRecord, OcrComplete, OcrFinalize, OcrFail, OcrUnlock, OcrUnchanged
  <2> QED BY <2>1
<1>3. CASE InferThread
  BY <1>3 DEF InferThread, InferGrab, InferSkip, InferPlate, InferAbsent,
     InferSubmit, InferRefuse, InferEnqueue, InferStop, InferPause, InferOwner,
     InferRelease, InferUnchanged, InferQuiet
<1>4. CASE Process
  BY <1>4 DEF Process, ShutdownBegin, ShutdownStop, ShutdownExit, Crash
<1>5. CASE IntervalElapses \/ UNCHANGED vars
  BY <1>5 DEF IntervalElapses, vars
<1>6. ASSUME NEW s \in Session, Start(s) PROVE UNCHANGED <<up, lost>>
  BY <1>6 DEF Start, StartCreate, StartInsert, StartMissed, StartRfid, StartCamera,
     StartWatchdog
<1>7. ASSUME NEW s \in Session, Watch(s) PROVE UNCHANGED <<up, lost>> /\ Kept
  BY <1>7 DEF Watch, WatchClosedElsewhere, WatchDeadline, WatchGraceOver,
     WatchClose, WatchStep
<1>8. ASSUME NEW s \in Session, Finish(s)
      PROVE  UNCHANGED <<up, lost>> /\ (FinCommit(s) \/ Kept)
  BY <1>8 DEF Finish, FinStop, FinPause, FinReadVin, FinStatus, FinWrite,
     FinCommit, FinUnchanged
<1>9. ASSUME NEW s \in Session,
             Search(s) \/ DeadlinePasses(s) \/ ShutdownCancel(s)
      PROVE  UNCHANGED <<up, lost>> /\ Kept
  BY <1>9 DEF Search, SearchTimeout, SearchStop, SearchPause, SearchStep,
     DeadlinePasses, ShutdownCancel
<1>10. ASSUME NEW s \in Session, Reader(s) PROVE UNCHANGED <<up, lost>> /\ Kept
  BY <1>10 DEF Reader, RfidRead, RfidValidate, RfidStore, RfidComplete,
     RfidFinalize, ReaderStep
<1> HIDE DEF Kept
<1>11. ASSUME NEW s \in Session,
              \/ Start(s) \/ Watch(s) \/ Finish(s) \/ Search(s) \/ Reader(s)
              \/ DeadlinePasses(s) \/ ShutdownCancel(s)
       PROVE  UNCHANGED <<up, lost>> /\ (Start(s) \/ FinCommit(s) \/ Kept)
  BY <1>6, <1>7, <1>8, <1>9, <1>10, <1>11
<1> USE DEF Kept
<1> QED BY <1>1, <1>2, <1>3, <1>4, <1>5, <1>11 DEF Next

-----------------------------------------------------------------------------
(* Restart. *)

(* No row of an earlier process is written by this one, so that what the   *)
(* recovery of its start left without PENDING stays so.                    *)
LEMMA LostRowStep ==
  ASSUME IInv, RestartLeavesNoPending, [Next]_vars
  PROVE  RestartLeavesNoPending'
<1> USE DEF procVars
<1>1. CASE ProcessGone
  BY <1>1 DEF ProcessGone, RestartLeavesNoPending
<1>2. CASE Restart
  <2>1. \A s \in Session : Recovered(row[s]).status # "PENDING"
    BY CoreTypes DEF Recovered, IInv, RowType
  <2>2. DbMayFail \/ row' = [s \in Session |-> Recovered(row[s])]
    BY <1>2 DEF Restart
  <2>3. lost' = lost /\ lost \subseteq Session
    BY <1>2, CoreTypes DEF Restart, IInv
  <2> QED BY <2>1, <2>2, <2>3 DEF RestartLeavesNoPending
<1>3. CASE ~ProcessGone /\ ~Restart
  <2>1. UNCHANGED <<up, lost>>
    BY <1>3, TriggerSteps
  <2>2. ASSUME NEW s \in lost PROVE row'[s] = row[s]
    <3>1. s \in Session /\ starter[s].pc = "none" /\ fin[s].pc # "write"
      BY CoreTypes, NotYetWritten DEF IInv, Numbers
    <3>2. ASSUME NEW r \in Session, StartInsert(r) PROVE row'[s] = row[s]
      <4>1. r # s /\ (row' = row \/ row' = [row EXCEPT ![r] = Announced(row[r])])
        BY <3>1, <3>2 DEF StartInsert
      <4> QED BY <3>1, <4>1, CoreTypes DEF IInv
    <3>3. ASSUME NEW r \in Session, FinWrite(r) PROVE row'[s] = row[s]
      BY <3>1, <3>3, CoreTypes DEF FinWrite, IInv
    <3> QED BY <1>3, <3>2, <3>3, RowWriters
  <2> QED BY <2>1, <2>2 DEF RestartLeavesNoPending
<1> QED BY <1>1, <1>2, <1>3

(* After a restart with a working database no row of an earlier process    *)
(* says PENDING, and none says so again: init_db recovers every row, and   *)
(* the new process writes rows of its own sessions only.                   *)
THEOREM RestartRecovers == Spec => []RestartLeavesNoPending
<1>1. Init => RestartLeavesNoPending
  BY DEF Init, RestartLeavesNoPending
<1>2. IInv /\ RestartLeavesNoPending /\ [Next]_vars => RestartLeavesNoPending'
  BY LostRowStep
<1> QED BY <1>1, <1>2, Invariance, PTL DEF Spec

-----------------------------------------------------------------------------
(* Every trigger is accounted for. *)

Waiters == {queue[i] : i \in DOMAIN queue}
Started == {s \in Session : starter[s].pc # "none"}

(* Each number the PLC has used was refused in one of two ways, or waits,  *)
(* was started, or belonged to an earlier process.                         *)
Accounts ==
  /\ suppressed \cup dropped \cup Waiters \cup Started \cup lost = 1 .. trig
  /\ suppressed \cap dropped = {}
  /\ (suppressed \cup dropped) \cap (Waiters \cup Started \cup lost) = {}

(* To pop the next trigger is to move it from the waiting to the started.  *)
LEMMA PopNextAccounts ==
  ASSUME IInv, Accounts, NEW t \in Thread, PopNext(t),
         UNCHANGED <<trig, lost, suppressed, dropped>>
  PROVE  Accounts'
<1>1. /\ Head(queue) \in Session /\ starter'[Head(queue)].pc = "create"
      /\ \A r \in Session \ {Head(queue)} : starter'[r] = starter[r]
      /\ starter[Head(queue)].pc = "none"
  BY PopNextEffect DEF IInv
<1>2. Started' = Started \cup {Head(queue)}
  BY <1>1 DEF Started
<1>3. Waiters = Waiters' \cup {Head(queue)}
  <2>1. queue \in Seq(Session) /\ queue # <<>> /\ queue' = Tail(queue)
    BY CoreTypes DEF PopNext, IInv
  <2>2. \A i \in DOMAIN queue' : i + 1 \in DOMAIN queue /\ queue'[i] = queue[i + 1]
    BY <2>1
  <2>3. \A i \in DOMAIN queue :
          \/ queue[i] = Head(queue)
          \/ i - 1 \in DOMAIN queue' /\ queue'[i - 1] = queue[i]
    BY <2>1
  <2>4. Head(queue) \in Waiters
    BY <2>1 DEF Waiters
  <2>5. Waiters' \subseteq Waiters
    BY <2>2 DEF Waiters
  <2>6. Waiters \subseteq Waiters' \cup {Head(queue)}
    BY <2>3 DEF Waiters
  <2> QED BY <2>4, <2>5, <2>6
<1>4. Waiters \cup Started = Waiters' \cup Started'
  BY <1>2, <1>3
<1> QED BY <1>4 DEF Accounts

(* A trigger that arrives is refused, queued or started, one of the three. *)
LEMMA PlcOnAccounts ==
  ASSUME IInv, Accounts, PlcOn
  PROVE  Accounts'
<1> DEFINE n == trig + 1
<1> USE DEF procVars
<1>1. /\ trig \in Nat /\ n \in Session /\ lost' = lost /\ trig' = n
      /\ 1 .. trig' = (1 .. trig) \cup {n} /\ n \notin 1 .. trig
  BY CoreTypes, ConstantTypes DEF PlcOn, IInv, Session
<1>2. ASSUME Waiters' = Waiters, Started' = Started,
             \/ suppressed' = suppressed \cup {n} /\ dropped' = dropped
             \/ dropped' = dropped \cup {n} /\ suppressed' = suppressed
      PROVE  Accounts'
  BY <1>1, <1>2 DEF Accounts
<1>3. ASSUME Waiters' \cup Started' = Waiters \cup Started \cup {n},
             UNCHANGED <<suppressed, dropped>>
      PROVE  Accounts'
  BY <1>1, <1>3 DEF Accounts
<1>4. CASE PlcSuppressDuplicate \/ PlcSuppressEarly \/ PlcOverflow
  <2>1. Waiters' = Waiters /\ Started' = Started
    BY <1>4 DEF PlcSuppressDuplicate, PlcSuppressEarly, PlcOverflow, Waiters, Started
  <2> QED BY <1>2, <1>4, <2>1 DEF PlcSuppressDuplicate, PlcSuppressEarly, PlcOverflow
<1>5. CASE PlcEnqueue
  <2>1. /\ queue \in Seq(Session) /\ queue' = Append(queue, n)
        /\ UNCHANGED <<suppressed, dropped, starter>>
    BY <1>5, CoreTypes DEF PlcEnqueue, IInv
  <2>2. /\ DOMAIN queue' = (DOMAIN queue) \cup {Len(queue) + 1}
        /\ queue'[Len(queue) + 1] = n
        /\ \A i \in DOMAIN queue : queue'[i] = queue[i]
    BY <1>1, <2>1
  <2>3. Waiters' = Waiters \cup {n}
    BY <2>2 DEF Waiters
  <2>4. Started' = Started
    BY <2>1 DEF Started
  <2> QED BY <1>3, <2>1, <2>3, <2>4
<1>6. CASE PlcAccept
  <2>1. /\ UNCHANGED <<queue, suppressed, dropped>>
        /\ starter' = [starter EXCEPT ![n] = [pc |-> "create", by |-> "plc"]]
    BY <1>6 DEF PlcAccept
  <2>2. Started' = Started \cup {n}
    BY <1>1, <2>1, CoreTypes DEF Started, IInv
  <2>3. Waiters' = Waiters
    BY <2>1 DEF Waiters
  <2> QED BY <1>3, <2>1, <2>2, <2>3
<1> QED BY <1>4, <1>5, <1>6 DEF PlcOn

(* Every step keeps the accounts. *)
LEMMA AccountsStep == ASSUME IInv, Accounts, [Next]_vars PROVE Accounts'
<1> USE DEF procVars, triggerVars
<1>1. ASSUME UNCHANGED <<trig, queue, suppressed, dropped, lost>>, Started' = Started
      PROVE  Accounts'
  BY <1>1 DEF Accounts, Waiters
<1>2. CASE ProcessGone
  <2>1. /\ queue' = <<>> /\ suppressed' = {} /\ dropped' = {} /\ trig' = trig
        /\ lost' = lost \cup (1 .. trig) /\ starter' = [s \in Session |-> NoStarter]
    BY <1>2 DEF ProcessGone
  <2>2. Waiters' = {} /\ Started' = {}
    BY <2>1 DEF Waiters, Started, NoStarter
  <2>3. lost \subseteq 1 .. trig
    BY DEF Accounts
  <2> QED BY <2>1, <2>2, <2>3 DEF Accounts
<1>3. CASE Restart
  BY <1>1, <1>3 DEF Restart, Started
<1>4. CASE PlcOn
  BY <1>4, PlcOnAccounts
<1>5. CASE ShutdownBegin
  <2>1. /\ queue' = <<>> /\ dropped' = dropped \cup Waiters
        /\ UNCHANGED <<trig, suppressed, starter, lost>>
    BY <1>5 DEF ShutdownBegin, Waiters
  <2>2. Waiters' = {} /\ Started' = Started
    BY <2>1 DEF Waiters, Started
  <2>3. Waiters \cap (Started \cup lost) = {}
    BY DEF Waiters, Started, IInv, Waiting
  <2> QED BY <2>1, <2>2, <2>3 DEF Accounts
<1>6. CASE InferRelease
  <2>1. UNCHANGED <<trig, suppressed, dropped, lost>>
    BY <1>6 DEF InferRelease, InferUnchanged
  <2>2. PopNext("infer") \/ UNCHANGED <<queue, starter>>
    BY <1>6 DEF InferRelease, InferQuiet
  <2> QED BY <1>1, <2>1, <2>2, PopNextAccounts DEF Thread, Started
<1>7. ASSUME NEW s \in Session, FinCommit(s) PROVE Accounts'
  <2>1. UNCHANGED <<trig, suppressed, dropped, lost>>
    BY <1>7 DEF FinCommit, FinUnchanged
  <2>2. PopNext(fin[s].by) \/ UNCHANGED <<queue, starter>>
    BY <1>7 DEF FinCommit
  <2>3. fin[s].by \in Thread
    BY CoreTypes DEF IInv, FinType
  <2> QED BY <1>1, <2>1, <2>2, <2>3, PopNextAccounts DEF Started
<1>8. ASSUME NEW s \in Session, Start(s) PROVE Accounts'
  <2>1. UNCHANGED <<trig, queue, suppressed, dropped, lost>>
    BY <1>8 DEF Start, StartCreate, StartInsert, StartMissed, StartRfid,
       StartCamera, StartWatchdog
  <2>2. /\ starter[s].pc # "none"
        /\ \E next \in {"insert", "missed", "rfid", "camera", "watchdog", "done"} :
             starter' = [starter EXCEPT ![s].pc = next]
    BY <1>8 DEF Start, StartCreate, StartInsert, StartMissed, StartRfid,
       StartCamera, StartWatchdog
  <2>3. starter'[s].pc # "none" /\ \A r \in Session \ {s} : starter'[r] = starter[r]
    BY <2>2, CoreTypes DEF IInv, StarterType
  <2>4. Started' = Started
    BY <2>2, <2>3 DEF Started
  <2> QED BY <1>1, <2>1, <2>4
<1>9. CASE UNCHANGED <<up, lost, trig, queue, suppressed, dropped, starter>>
  BY <1>1, <1>9 DEF Started
<1> QED BY <1>2, <1>3, <1>4, <1>5, <1>6, <1>7, <1>8, <1>9, TriggerSteps

(* A queue in which no number waits twice has as many members as places.   *)
LEMMA WaitersCounted ==
  ASSUME IInv
  PROVE  IsFiniteSet(Waiters) /\ Cardinality(Waiters) = Len(queue)
<1> DEFINE place == [i \in 1 .. Len(queue) |-> queue[i]]
<1>1. queue \in Seq(Session) /\ Len(queue) \in Nat /\ DOMAIN queue = 1 .. Len(queue)
  BY CoreTypes DEF IInv
<1>2. place \in [1 .. Len(queue) -> Waiters]
  BY <1>1 DEF Waiters
<1>3. \A i, j \in 1 .. Len(queue) : place[i] = place[j] => i = j
  BY <1>1 DEF IInv, Waiting
<1>4. \A w \in Waiters : \E i \in 1 .. Len(queue) : place[i] = w
  BY <1>1 DEF Waiters
<1>5. place \in Bijection(1 .. Len(queue), Waiters)
  BY <1>2, <1>3, <1>4 DEF Bijection, Injection, Surjection, IsInjective
<1>6. ExistsBijection(1 .. Len(queue), Waiters)
  BY <1>5 DEF ExistsBijection
<1>7. IsFiniteSet(1 .. Len(queue)) /\ Cardinality(1 .. Len(queue)) = Len(queue)
  BY <1>1, FS_Interval
<1> QED BY <1>6, <1>7, FS_Bijection

(* Two sets without a common member have as many members as both.          *)
LEMMA DisjointCount ==
  ASSUME NEW S, NEW T, IsFiniteSet(S), IsFiniteSet(T), S \cap T = {}
  PROVE  /\ IsFiniteSet(S \cup T)
         /\ Cardinality(S) \in Nat /\ Cardinality(T) \in Nat
         /\ Cardinality(S \cup T) = Cardinality(S) + Cardinality(T)
<1>1. Cardinality(S) \in Nat /\ Cardinality(T) \in Nat
  BY FS_CardinalityType
<1>2. Cardinality(S \cap T) = 0
  BY FS_EmptySet
<1>3. /\ IsFiniteSet(S \cup T)
      /\ Cardinality(S \cup T)
           = Cardinality(S) + Cardinality(T) - Cardinality(S \cap T)
  BY FS_Union
<1> QED BY <1>1, <1>2, <1>3

(* As the sets of the accounts have no common member, their sizes add up.  *)
LEMMA AccountsBalance == ASSUME IInv, Accounts PROVE EveryTriggerAccounted
<1> DEFINE Refused == suppressed \cup dropped
           Taken   == Waiters \cup Started
<1>1. trig \in Nat /\ IsFiniteSet(1 .. trig) /\ Cardinality(1 .. trig) = trig
  BY CoreTypes, FS_Interval DEF IInv
<1>2. /\ IsFiniteSet(suppressed) /\ IsFiniteSet(dropped) /\ IsFiniteSet(Waiters)
      /\ IsFiniteSet(Started) /\ IsFiniteSet(lost)
  BY <1>1, FS_Subset DEF Accounts
<1>3. /\ Waiters \cap Started = {} /\ Taken \cap lost = {}
      /\ suppressed \cap dropped = {} /\ Refused \cap (Taken \cup lost) = {}
  BY DEF Waiters, Started, Accounts, IInv, Waiting, Numbers
<1>4. /\ IsFiniteSet(Refused)
      /\ Cardinality(suppressed) \in Nat /\ Cardinality(dropped) \in Nat
      /\ Cardinality(Refused) = Cardinality(suppressed) + Cardinality(dropped)
  BY <1>2, <1>3, DisjointCount
<1>5. /\ IsFiniteSet(Taken)
      /\ Cardinality(Started) \in Nat
      /\ Cardinality(Taken) = Len(queue) + Cardinality(Started)
  <2>1. /\ IsFiniteSet(Taken) /\ Cardinality(Started) \in Nat
        /\ Cardinality(Taken) = Cardinality(Waiters) + Cardinality(Started)
    BY <1>2, <1>3, DisjointCount
  <2> QED BY <2>1, WaitersCounted
<1> HIDE DEF Refused, Taken
<1>6. /\ IsFiniteSet(Taken \cup lost)
      /\ Cardinality(Taken) \in Nat /\ Cardinality(lost) \in Nat
      /\ Cardinality(Taken \cup lost) = Cardinality(Taken) + Cardinality(lost)
  BY <1>2, <1>3, <1>5, DisjointCount
<1>7. /\ Cardinality(Refused) \in Nat /\ Cardinality(Taken \cup lost) \in Nat
      /\ Cardinality(Refused \cup (Taken \cup lost))
           = Cardinality(Refused) + Cardinality(Taken \cup lost)
  BY <1>3, <1>4, <1>6, DisjointCount
<1>8. Refused \cup (Taken \cup lost) = 1 .. trig
  BY DEF Accounts, Refused, Taken
<1>9. Len(queue) \in Nat
  BY CoreTypes DEF IInv
<1>10. Cardinality(Refused) + Cardinality(Taken \cup lost) = trig
  BY <1>1, <1>7, <1>8
<1>11. \A a, b, c, d, e \in Nat : (a + b) + ((c + d) + e) = a + b + c + d + e
  OBVIOUS
<1>12. (Cardinality(suppressed) + Cardinality(dropped))
         + ((Len(queue) + Cardinality(Started)) + Cardinality(lost)) = trig
  BY <1>4, <1>5, <1>6, <1>10
<1>13. Cardinality(suppressed) + Cardinality(dropped) + Len(queue)
         + Cardinality(Started) + Cardinality(lost) = trig
  BY <1>4, <1>5, <1>6, <1>9, <1>11, <1>12
<1> QED BY <1>13 DEF EveryTriggerAccounted, Accounts, Waiters, Started

(* Every number the PLC delivered is counted once: as suppressed, as       *)
(* dropped, in the queue, as started, or as lost with an earlier process.  *)
THEOREM TriggersAccounted == Spec => []EveryTriggerAccounted
<1>1. Init => Accounts
  BY DEF Init, Boot, Accounts, Waiters, Started, NoStarter
<1>2. IInv /\ Accounts /\ [Next]_vars => Accounts'
  BY AccountsStep
<1>3. IInv /\ Accounts => EveryTriggerAccounted
  BY AccountsBalance
<1> QED BY <1>1, <1>2, <1>3, Invariance, PTL DEF Spec

-----------------------------------------------------------------------------
(* A session its reader closed early. *)

BeforeReader == {"none", "create", "insert", "missed", "rfid"}

Complete(s) == vin[s] # NoVin /\ rfid[s]

(* A reader's thread closes the session it read for, and may miss that of  *)
(* the trigger it popped; after a write that failed the finalizer does not *)
(* show which of the two it was.                                           *)
ClosedEarly(s) ==
  fin[s].by = "rfid" /\ fin[s].status \notin {"MISSED_CAPTURE_WINDOW", "FAILED"}

(* The reader that closes its session found it complete, and what makes it *)
(* complete is never taken back: the finalizer reads it again for the VIN, *)
(* the tag and the verdict.                                                *)
ByReader ==
  \A s \in Session :
    /\ starter[s].pc \in BeforeReader => reader[s].pc = "none"
    /\ reader[s].pc = "none" \/ RfidEnabled
    /\ reader[s].pc = "finalize" => Complete(s)
    /\ ClosedEarly(s) =>
         /\ reader[s].pc = "done" /\ Complete(s)
         /\ fin[s].pc \in {"stop", "pause", "vin", "status"} => fin[s].status = "none"
         /\ fin[s].pc \notin {"stop", "pause", "vin"} => fin[s].vin # NoVin
         /\ fin[s].pc \in {"write", "commit", "done"} =>
              fin[s].rfid /\ fin[s].status = "SUCCESS"
    /\ fin[s].pc \in {"commit", "done"} /\ row[s].status \in Terminal =>
         row[s].vin = fin[s].vin /\ row[s].rfid = fin[s].rfid

(* A step in which nothing is finalized or written. *)
LEMMA ReaderKept ==
  ASSUME ByReader, UNCHANGED <<fin, row>>,
         \A s \in Session :
           /\ starter'[s].pc \in BeforeReader => starter[s].pc \in BeforeReader
           /\ Complete(s) /\ reader[s].pc \in {"finalize", "done"} => Complete(s)'
           /\ \/ reader'[s].pc = reader[s].pc
              \/ /\ starter'[s].pc \notin BeforeReader /\ RfidEnabled
                 /\ reader[s].pc # "done" /\ reader'[s].pc # "none"
                 /\ reader'[s].pc = "finalize" => Complete(s)'
  PROVE  ByReader'
BY DEF ByReader, ClosedEarly

(* The entry section of _finalize_session, in whatever thread. *)
LEMMA ReaderBegun ==
  ASSUME IInv, ByReader, NEW s \in Session, NEW t, NEW forced,
         NEW may \in BOOLEAN, BeginFinalize(s, t, forced, may),
         UNCHANGED <<vin, rfid, row>>,
         \A r \in Session :
           /\ starter'[r].pc \in BeforeReader => starter[r].pc \in BeforeReader
           /\ \/ reader'[r] = reader[r]
              \/ reader[r].pc = "finalize" /\ reader'[r].pc = "done",
         \/ t # "rfid" \/ forced = "MISSED_CAPTURE_WINDOW"
         \/ /\ forced = "none"
            /\ reader[s].pc = "finalize" /\ reader'[s].pc = "done"
  PROVE  ByReader'
<1>1. /\ \A r \in Session \ {s} : fin'[r] = fin[r]
      /\ \/ fin'[s] = fin[s]
         \/ /\ fin'[s].pc = "stop" /\ fin'[s].by = t /\ fin'[s].status = forced
  <2>1. CASE UNCHANGED <<st, fin>>
    BY <2>1
  <2>2. CASE ~UNCHANGED <<st, fin>>
    <3>1. /\ fin'[s].pc = "stop" /\ fin'[s].status = forced
          /\ \A r \in Session \ {s} : fin'[r] = fin[r]
      BY <2>2, BeginFinalizeEffect DEF IInv
    <3>2. fin' = [fin EXCEPT ![s] =
                    [pc |-> "stop", by |-> t, owns |-> owner = s, vin |-> NoVin,
                     rfid |-> FALSE, status |-> forced]]
      BY <2>2 DEF BeginFinalize
    <3> QED BY <3>1, <3>2, CoreTypes DEF IInv
  <2> QED BY <2>1, <2>2
<1>2. \A r \in Session : (Complete(r)' = Complete(r))
  BY DEF Complete
<1>3. ASSUME NEW r \in Session
      PROVE  /\ starter'[r].pc \in BeforeReader => reader'[r].pc = "none"
             /\ reader'[r].pc = "none" \/ RfidEnabled
             /\ reader'[r].pc = "finalize" => Complete(r)'
  <2>1. starter[r].pc \in BeforeReader => reader[r].pc = "none"
    BY DEF ByReader
  <2>2. reader[r].pc = "none" \/ RfidEnabled
    BY DEF ByReader
  <2>3. reader[r].pc = "finalize" => Complete(r)
    BY DEF ByReader
  <2> QED BY <1>2, <2>1, <2>2, <2>3
<1>4. ASSUME NEW r \in Session, fin'[r] = fin[r]
      PROVE  /\ ClosedEarly(r)' =>
                  /\ reader'[r].pc = "done" /\ Complete(r)'
                  /\ fin'[r].pc \in {"stop", "pause", "vin", "status"} =>
                       fin'[r].status = "none"
                  /\ fin'[r].pc \notin {"stop", "pause", "vin"} => fin'[r].vin # NoVin
                  /\ fin'[r].pc \in {"write", "commit", "done"} =>
                       fin'[r].rfid /\ fin'[r].status = "SUCCESS"
             /\ fin'[r].pc \in {"commit", "done"} /\ row'[r].status \in Terminal =>
                  row'[r].vin = fin'[r].vin /\ row'[r].rfid = fin'[r].rfid
  BY <1>2, <1>4 DEF ByReader, ClosedEarly
<1>5. CASE fin'[s] = fin[s]
  BY <1>1, <1>3, <1>4, <1>5 DEF ByReader
<1>6. CASE fin'[s].pc = "stop" /\ fin'[s].by = t /\ fin'[s].status = forced
  <2>1. ClosedEarly(s)' =>
          reader'[s].pc = "done" /\ Complete(s)' /\ fin'[s].status = "none"
    BY <1>2, <1>6 DEF ClosedEarly, ByReader
  <2> QED BY <1>1, <1>3, <1>4, <1>6, <2>1 DEF ByReader
<1> QED BY <1>1, <1>5, <1>6

(* A finalizer that goes on: it reads the VIN, the tag and the verdict of a *)
(* session that is complete, and writes what it has read.                  *)
LEMMA ReaderFinish ==
  ASSUME IInv, ByReader, NEW s \in Session, Finish(s)
  PROVE  ByReader'
<1> USE DEF FinUnchanged, procVars, factVars, rfidVars, threads, ownerVars, camVars,
            triggerVars
<1>1. UNCHANGED <<vin, rfid, reader>>
  BY DEF Finish, FinStop, FinPause, FinReadVin, FinStatus, FinWrite, FinCommit
<1>2. \A r \in Session : Complete(r)' = Complete(r)
  BY <1>1 DEF Complete
<1>3. ASSUME starter' = starter,
             \A r \in Session \ {s} : fin'[r] = fin[r] /\ row'[r] = row[r],
             fin'[s].by = fin[s].by,
             ClosedEarly(s)' => ClosedEarly(s),
             ClosedEarly(s)' =>
               /\ fin'[s].pc \in {"stop", "pause", "vin", "status"} =>
                    fin'[s].status = "none"
               /\ fin'[s].pc \notin {"stop", "pause", "vin"} => fin'[s].vin # NoVin
               /\ fin'[s].pc \in {"write", "commit", "done"} =>
                    fin'[s].rfid /\ fin'[s].status = "SUCCESS",
             fin'[s].pc \in {"commit", "done"} /\ row'[s].status \in Terminal =>
               row'[s].vin = fin'[s].vin /\ row'[s].rfid = fin'[s].rfid
      PROVE  ByReader'
  BY <1>1, <1>2, <1>3 DEF ByReader, ClosedEarly
<1>4. CASE FinStop(s) \/ FinPause(s)
  <2>1. /\ fin[s].pc \in {"stop", "pause"} /\ row' = row /\ starter' = starter
        /\ \E next \in {"pause", "vin"} : fin' = [fin EXCEPT ![s].pc = next]
    BY <1>4 DEF FinStop, FinPause
  <2>2. /\ fin'[s].pc \in {"pause", "vin"} /\ fin'[s].by = fin[s].by
        /\ fin'[s].status = fin[s].status
        /\ \A r \in Session \ {s} : fin'[r] = fin[r]
    BY <2>1, CoreTypes DEF IInv, FinType
  <2> QED BY <1>3, <2>1, <2>2 DEF ByReader, ClosedEarly
<1>5. CASE FinReadVin(s)
  <2>1. /\ fin[s].pc = "vin" /\ row' = row /\ starter' = starter
        /\ fin' = [fin EXCEPT ![s] = [fin[s] EXCEPT !.pc = "status", !.vin = vin[s]]]
    BY <1>5 DEF FinReadVin
  <2>2. /\ fin'[s].pc = "status" /\ fin'[s].by = fin[s].by
        /\ fin'[s].status = fin[s].status /\ fin'[s].vin = vin[s]
        /\ \A r \in Session \ {s} : fin'[r] = fin[r]
    BY <2>1, CoreTypes DEF IInv, FinType
  <2> QED BY <1>3, <2>1, <2>2 DEF ByReader, ClosedEarly, Complete
<1>6. CASE FinStatus(s)
  <2> DEFINE success == vin[s] # NoVin /\ (~RfidEnabled \/ rfid[s])
             status  == IF fin[s].status # "none" THEN fin[s].status
                        ELSE IF success THEN "SUCCESS" ELSE "TIMEOUT"
  <2>1. /\ fin[s].pc = "status" /\ row' = row /\ starter' = starter
        /\ fin' = [fin EXCEPT ![s] = [fin[s] EXCEPT !.pc = "write", !.rfid = rfid[s],
                                                    !.status = status]]
    BY <1>6 DEF FinStatus
  <2>2. /\ fin'[s].pc = "write" /\ fin'[s].by = fin[s].by
        /\ fin'[s].status = status /\ fin'[s].vin = fin[s].vin
        /\ fin'[s].rfid = rfid[s]
        /\ \A r \in Session \ {s} : fin'[r] = fin[r]
    BY <2>1, CoreTypes DEF IInv, FinType
  <2>3. ClosedEarly(s)' => ClosedEarly(s)
    BY <2>2 DEF ClosedEarly
  <2>4. ClosedEarly(s)' =>
          fin'[s].vin # NoVin /\ fin'[s].rfid /\ fin'[s].status = "SUCCESS"
    BY <2>1, <2>2, <2>3 DEF ByReader, Complete
  <2> QED BY <1>3, <2>1, <2>2, <2>3, <2>4
<1>7. CASE FinWrite(s)
  <2>1. CASE /\ row' = [row EXCEPT ![s] = [status |-> fin[s].status, vin |-> fin[s].vin,
                                           rfid |-> fin[s].rfid]]
             /\ fin' = [fin EXCEPT ![s].pc = "commit"]
    <3>1. /\ fin[s].pc = "write" /\ starter' = starter
          /\ fin'[s].pc = "commit" /\ fin'[s].by = fin[s].by
          /\ fin'[s].status = fin[s].status /\ fin'[s].vin = fin[s].vin
          /\ fin'[s].rfid = fin[s].rfid
          /\ row'[s].vin = fin[s].vin /\ row'[s].rfid = fin[s].rfid
          /\ \A r \in Session \ {s} : fin'[r] = fin[r] /\ row'[r] = row[r]
      BY <1>7, <2>1, CoreTypes DEF FinWrite, IInv, FinType
    <3> QED BY <1>3, <3>1 DEF ByReader, ClosedEarly
  <2>2. CASE row' = row /\ fin' = [fin EXCEPT ![s] = AfterFailedWrite(fin[s])]
    <3>1. /\ fin[s].pc = "write" /\ starter' = starter
          /\ fin'[s].pc = "commit" /\ fin'[s].by = fin[s].by
          /\ fin'[s].status = "FAILED"
          /\ \A r \in Session \ {s} : fin'[r] = fin[r] /\ row'[r] = row[r]
      BY <1>7, <2>2, CoreTypes DEF FinWrite, AfterFailedWrite, IInv, FinType
    <3>2. row'[s].status \notin Terminal
      BY <2>2, <3>1, NotYetWritten DEF Terminal
    <3> QED BY <1>3, <3>1, <3>2 DEF ClosedEarly
  <2> QED BY <1>7, <2>1, <2>2 DEF FinWrite
<1>8. CASE FinCommit(s)
  <2>1. /\ fin[s].pc = "commit" /\ row' = row /\ fin' = [fin EXCEPT ![s].pc = "done"]
        /\ PopNext(fin[s].by) \/ starter' = starter
        /\ UNCHANGED <<trig, lost>>
    BY <1>8 DEF FinCommit
  <2>2. /\ fin'[s].pc = "done" /\ fin'[s].by = fin[s].by
        /\ fin'[s].status = fin[s].status /\ fin'[s].vin = fin[s].vin
        /\ fin'[s].rfid = fin[s].rfid /\ fin[s].by \in Thread
        /\ \A r \in Session \ {s} : fin'[r] = fin[r]
    BY <2>1, CoreTypes DEF IInv, FinType
  <2>3. \A r \in Session :
          starter'[r].pc \in BeforeReader => starter[r].pc \in BeforeReader
    <3>1. CASE PopNext(fin[s].by)
      BY <2>1, <2>2, <3>1, PopNextEffect DEF IInv, BeforeReader
    <3> QED BY <2>1, <3>1
  <2> QED BY <1>1, <1>2, <2>1, <2>2, <2>3 DEF ByReader, ClosedEarly
<1> QED BY <1>4, <1>5, <1>6, <1>7, <1>8 DEF Finish

(* _start_session comes to its reader once, and leaves it none before.     *)
LEMMA ReaderStart ==
  ASSUME IInv, ByReader, NEW s \in Session, Start(s)
  PROVE  ByReader'
<1> USE DEF procVars, triggerVars, factVars, sessionVars, ownerVars, camVars,
            ocrVars, rfidVars, shared, threads
<1>1. /\ starter[s].pc # "done"
      /\ \A r \in Session \ {s} : starter'[r] = starter[r]
      /\ starter'[s].pc \in BeforeReader => starter[s].pc \in BeforeReader
      /\ UNCHANGED <<vin, rfid>>
  <2>1. /\ \E next \in {"insert", "missed", "rfid", "camera", "watchdog", "done"} :
             /\ starter' = [starter EXCEPT ![s].pc = next]
             /\ next \in BeforeReader => starter[s].pc \in BeforeReader
        /\ starter[s].pc # "done" /\ UNCHANGED <<vin, rfid>>
    BY DEF Start, StartCreate, StartInsert, StartMissed, StartRfid, StartCamera,
           StartWatchdog, BeforeReader
  <2> QED BY <2>1, CoreTypes DEF IInv, StarterType
<1>2. CASE StartCreate(s) \/ StartCamera(s) \/ StartWatchdog(s)
  BY <1>1, <1>2, ReaderKept DEF StartCreate, StartCamera, StartWatchdog, Complete
<1>3. CASE StartInsert(s)
  <2>1. /\ UNCHANGED <<fin, reader>>
        /\ row' = row \/ row' = [row EXCEPT ![s] = Announced(row[s])]
    BY <1>3 DEF StartInsert
  <2>2. \A r \in Session : row'[r].status \in Terminal => row'[r] = row[r]
    BY <2>1, CoreTypes DEF Announced, PendingRow, NoRow, Terminal, IInv
  <2> QED BY <1>1, <2>1, <2>2 DEF ByReader, ClosedEarly, Complete
<1>4. CASE StartMissed(s)
  BY <1>1, <1>4, ReaderBegun DEF StartMissed
<1>5. CASE StartRfid(s)
  <2>1. /\ starter[s].pc = "rfid" /\ UNCHANGED <<fin, row>>
        /\ starter' = [starter EXCEPT ![s].pc = "camera"]
        /\ \/ reader' = reader
           \/ RfidEnabled /\ reader' = [reader EXCEPT ![s].pc = "reading"]
    BY <1>5 DEF StartRfid
  <2>2. starter'[s].pc = "camera" /\ reader[s].pc = "none"
    BY <2>1, CoreTypes DEF IInv, StarterType, ByReader, BeforeReader
  <2>3. \A r \in Session :
          \/ reader'[r] = reader[r]
          \/ r = s /\ RfidEnabled /\ reader'[r].pc = "reading"
    BY <2>1 DEF IInv, TypeOK, RfidTypes, ReaderType
  <2> QED BY <1>1, <2>1, <2>2, <2>3, ReaderKept DEF BeforeReader, Complete
<1> QED BY <1>2, <1>3, <1>4, <1>5 DEF Start

(* The reader's thread: it looks whether the session is complete after it  *)
(* has stored its own result.                                              *)
LEMMA ReaderReads ==
  ASSUME IInv, RequireRfid, ByReader, NEW s \in Session, Reader(s)
  PROVE  ByReader'
<1> USE DEF procVars, triggerVars, factVars, sessionVars, ownerVars, camVars,
            ocrVars, rfidVars, shared, threads
<1>1. /\ starter' = starter /\ row' = row /\ vin' = vin
      /\ reader[s].pc \notin {"none", "done"} /\ RfidEnabled
      /\ starter[s].pc \notin BeforeReader
  <2>1. /\ starter' = starter /\ row' = row /\ vin' = vin
        /\ reader[s].pc \notin {"none", "done"}
    BY DEF Reader, RfidRead, RfidValidate, RfidStore, RfidComplete, RfidFinalize,
           ReaderStep
  <2> QED BY <2>1 DEF ByReader
<1>2. \A r \in Session \ {s} : reader'[r] = reader[r]
  BY DEF Reader, RfidRead, RfidValidate, RfidStore, RfidComplete, RfidFinalize,
         ReaderStep, IInv, TypeOK, RfidTypes
<1>3. CASE RfidRead(s) \/ RfidValidate(s)
  <2>1. UNCHANGED <<fin, rfid>>
    BY <1>3 DEF RfidRead, RfidValidate
  <2>2. reader'[s].pc \in {"validate", "store", "done"}
    BY <1>3 DEF RfidRead, RfidValidate, ReaderStep, IInv, TypeOK, RfidTypes,
       ReaderType
  <2> QED BY <1>1, <1>2, <2>1, <2>2, ReaderKept DEF Complete
<1>4. CASE RfidStore(s)
  <2>1. /\ fin' = fin /\ reader[s].pc = "store" /\ reader'[s].pc = "complete"
        /\ \A r \in Session \ {s} : rfid'[r] = rfid[r]
    BY <1>4 DEF RfidStore, ReaderStep, IInv, TypeOK, RfidTypes, ReaderType,
       SessionTypes
  <2> QED BY <1>1, <1>2, <2>1, ReaderKept DEF Complete
<1>5. CASE RfidComplete(s)
  <2>1. /\ UNCHANGED <<fin, rfid>>
        /\ \/ CompleteNow(s) /\ reader'[s].pc = "finalize"
           \/ reader'[s].pc = "done"
    BY <1>5 DEF RfidComplete, ReaderStep, IInv, TypeOK, RfidTypes, ReaderType
  <2>2. reader'[s].pc = "finalize" => Complete(s)'
    BY <1>1, <2>1 DEF CompleteNow, RfidRequired, Complete
  <2> QED BY <1>1, <1>2, <2>1, <2>2, ReaderKept DEF Complete
<1>6. CASE RfidFinalize(s)
  <2>1. /\ reader[s].pc = "finalize" /\ reader'[s].pc = "done"
        /\ BeginFinalize(s, "rfid", "none", FALSE) /\ rfid' = rfid
    BY <1>6 DEF RfidFinalize, ReaderStep, IInv, TypeOK, RfidTypes, ReaderType
  <2> QED BY <1>1, <1>2, <2>1, ReaderBegun
<1> QED BY <1>3, <1>4, <1>5, <1>6 DEF Reader

(* The other threads store VINs, open the next session, or close one.      *)
LEMMA ReaderOthers ==
  ASSUME IInv, ByReader, NEW s \in Session,
         \/ PlcThread \/ OcrThread \/ InferThread \/ IntervalElapses
         \/ UNCHANGED vars \/ ShutdownBegin \/ ShutdownStop
         \/ Watch(s) \/ Search(s) \/ DeadlinePasses(s) \/ ShutdownCancel(s)
  PROVE  ByReader'
<1> USE DEF procVars, triggerVars, factVars, sessionVars, ownerVars, camVars,
            ocrVars, rfidVars, shared, threads
<1>1. ASSUME UNCHANGED <<starter, reader, vin, rfid, fin, row>> PROVE ByReader'
  BY <1>1, ReaderKept DEF Complete
<1>2. CASE PlcOn
  <2>1. UNCHANGED <<reader, vin, rfid, fin, row>>
    BY <1>2 DEF PlcOn
  <2>2. \A r \in Session :
          starter'[r].pc \in BeforeReader => starter[r].pc \in BeforeReader
    <3>1. /\ starter[trig + 1].pc = "none" /\ trig + 1 \in Session
      BY <1>2, CoreTypes, ConstantTypes DEF PlcOn, IInv, Numbers, Session
    <3>2. \/ starter' = starter
          \/ starter' = [starter EXCEPT ![trig + 1] = [pc |-> "create", by |-> "plc"]]
      BY <1>2 DEF PlcOn, PlcSuppressDuplicate, PlcOverflow, PlcEnqueue,
         PlcSuppressEarly, PlcAccept
    <3> QED BY <3>1, <3>2, CoreTypes DEF IInv, BeforeReader
  <2> QED BY <2>1, <2>2, ReaderKept DEF Complete
<1>3. CASE PlcOffFinalize
  <2>1. /\ BeginFinalize(plc.sid, "plc", "none", FALSE) /\ plc.sid \in Session
        /\ UNCHANGED <<starter, reader, vin, rfid, row>>
    BY <1>3 DEF PlcOffFinalize, IInv, TypeOK, PlcTypes, PlcType
  <2> QED BY <2>1, ReaderBegun
<1>4. CASE PlcOff \/ PlcOffStop
  BY <1>1, <1>4 DEF PlcOff, PlcOffStop
<1>5. CASE OcrStore
  <2>1. /\ UNCHANGED <<starter, reader, rfid, fin, row>>
        /\ \/ vin' = vin
           \/ vin[ocr.sid] = NoVin /\ vin' = [vin EXCEPT ![ocr.sid] = ocr.vin]
    BY <1>5 DEF OcrStore, OcrUnchanged
  <2>2. \A r \in Session : vin[r] # NoVin => vin'[r] # NoVin
    BY <2>1 DEF IInv, TypeOK, SessionTypes
  <2> QED BY <2>1, <2>2, ReaderKept DEF Complete
<1>6. CASE OcrFinalize
  <2>1. /\ BeginFinalize(ocr.sid, "ocr", "none", FALSE) /\ ocr.sid \in Session
        /\ UNCHANGED <<starter, reader, vin, rfid, row>>
    BY <1>6 DEF OcrFinalize, OcrUnchanged, IInv, TypeOK, OcrTypes, OcrType
  <2> QED BY <2>1, ReaderBegun
<1>7. CASE OcrThread /\ ~OcrStore /\ ~OcrFinalize
  <2>1. UNCHANGED <<starter, reader, vin, rfid, fin, row>>
    BY <1>7 DEF OcrThread, OcrTake, OcrReadVin, OcrValidate, OcrSignal,
       OcrManualRecord, OcrComplete, OcrFail, OcrUnlock, OcrUnchanged
  <2> QED BY <1>1, <2>1
<1>8. CASE InferRelease
  <2>1. UNCHANGED <<reader, vin, rfid, fin, row, trig, lost>>
    BY <1>8 DEF InferRelease, InferUnchanged
  <2>2. \A r \in Session :
          starter'[r].pc \in BeforeReader => starter[r].pc \in BeforeReader
    <3>1. PopNext("infer") \/ starter' = starter
      BY <1>8 DEF InferRelease, InferQuiet
    <3> QED BY <2>1, <3>1, PopNextEffect DEF IInv, BeforeReader, Thread
  <2> QED BY <2>1, <2>2, ReaderKept DEF Complete
<1>9. CASE InferThread /\ ~InferRelease
  <2>1. UNCHANGED <<starter, reader, vin, rfid, fin, row>>
    BY <1>9 DEF InferThread, InferGrab, InferSkip, InferPlate, InferAbsent,
       InferSubmit, InferRefuse, InferEnqueue, InferStop, InferPause, InferOwner,
       InferUnchanged, InferQuiet
  <2> QED BY <1>1, <2>1
<1>10. CASE IntervalElapses \/ UNCHANGED vars \/ ShutdownBegin \/ ShutdownStop
  BY <1>1, <1>10 DEF IntervalElapses, vars, ShutdownBegin, ShutdownStop
<1>11. CASE Search(s) \/ DeadlinePasses(s)
  BY <1>1, <1>11 DEF Search, SearchTimeout, SearchStop, SearchPause, SearchStep,
     DeadlinePasses
<1>12. CASE WatchClose(s)
  BY <1>12, ReaderBegun DEF WatchClose, WatchStep
<1>13. CASE WatchClosedElsewhere(s) \/ WatchDeadline(s) \/ WatchGraceOver(s)
  BY <1>1, <1>13 DEF WatchClosedElsewhere, WatchDeadline, WatchGraceOver, WatchStep
<1>14. CASE ShutdownCancel(s)
  BY <1>14, ReaderBegun DEF ShutdownCancel
<1> QED BY <1>2, <1>3, <1>4, <1>5, <1>6, <1>7, <1>8, <1>9, <1>10, <1>11, <1>12,
           <1>13, <1>14 DEF PlcThread, Watch

(* Every step keeps what is known of the sessions a reader closes. *)
LEMMA ReaderNext ==
  ASSUME IInv, RequireRfid, ByReader, [Next]_vars PROVE ByReader'
<1>1. CASE ProcessGone
  <2>1. /\ NoStarter.pc = "none" /\ NoReader.pc = "none"
        /\ NoFin.pc = "none" /\ NoFin.by = "none"
    BY DEF NoStarter, NoReader, NoFin
  <2> QED BY <1>1, <2>1 DEF ProcessGone, ByReader, ClosedEarly
<1>2. CASE Restart
  <2>1. \A s \in Session : fin[s].pc = "none"
    <3>1. ~up
      BY <1>2 DEF Restart
    <3>2. \A s \in Session : starter[s].pc = "none"
      BY <3>1 DEF IInv, Down
    <3> QED BY <3>2 DEF IInv, Progress
  <2>2. UNCHANGED <<starter, reader, vin, rfid, fin>>
    BY <1>2 DEF Restart, sessionVars, factVars, rfidVars
  <2> QED BY <2>1, <2>2 DEF ByReader, ClosedEarly, Complete
<1>3. PICK s \in Session : TRUE
  BY ConstantTypes DEF Session
<1>4. CASE PlcThread \/ OcrThread \/ InferThread \/ IntervalElapses \/ UNCHANGED vars
  BY <1>3, <1>4, ReaderOthers
<1>5. CASE Process
  BY <1>1, <1>2, <1>3, <1>5, ReaderOthers DEF Process, ShutdownExit, Crash
<1>6. ASSUME NEW r \in Session,
             \/ Start(r) \/ Watch(r) \/ Finish(r) \/ Search(r) \/ Reader(r)
             \/ DeadlinePasses(r) \/ ShutdownCancel(r)
      PROVE  ByReader'
  BY <1>6, ReaderStart, ReaderFinish, ReaderReads, ReaderOthers
<1> QED BY <1>4, <1>5, <1>6 DEF Next

(* Where RFID is required, a session that its reader closed before the     *)
(* deadline has both identities: its row is a SUCCESS that names them, or  *)
(* the FAILED of a write that raised, and never a TIMEOUT.  (Where RFID is *)
(* not required, the reader may close a session it has read no tag of.)    *)
THEOREM EarlyCloseComplete == Spec => [](RequireRfid => EarlyCloseIsComplete)
<1>1. Init => (RequireRfid => ByReader)
  BY DEF Init, Boot, ByReader, ClosedEarly, NoStarter, NoReader, NoFin
<1>2. IInv /\ (RequireRfid => ByReader) /\ [Next]_vars => (RequireRfid => ByReader)'
  BY ReaderNext
<1>3. IInv /\ (RequireRfid => ByReader) => (RequireRfid => EarlyCloseIsComplete)
  <2> SUFFICES ASSUME IInv, ByReader, NEW s \in Session, fin[s].by = "rfid",
                      fin[s].pc = "done"
               PROVE  /\ row[s].status # "TIMEOUT"
                      /\ row[s].status = "SUCCESS" => row[s].vin # NoVin /\ row[s].rfid
    BY DEF EarlyCloseIsComplete
  <2>1. row[s].status = fin[s].status \/ row[s].status \in {"absent", "PENDING"}
    BY DEF IInv, VerdictOf
  <2>2. CASE ClosedEarly(s)
    <3>1. fin[s].vin # NoVin /\ fin[s].rfid /\ fin[s].status = "SUCCESS"
      BY <2>2 DEF ByReader
    <3>2. row[s].status \in Terminal =>
            row[s].vin = fin[s].vin /\ row[s].rfid = fin[s].rfid
      BY DEF ByReader
    <3> QED BY <2>1, <3>1, <3>2 DEF Terminal
  <2>3. CASE ~ClosedEarly(s)
    BY <2>1, <2>3 DEF ClosedEarly
  <2> QED BY <2>2, <2>3
<1> QED BY <1>1, <1>2, <1>3, Invariance, PTL DEF Spec

-----------------------------------------------------------------------------
(* SessionLifecycle implements BodyCycle: whatever the threads do, what    *)
(* becomes of a trigger's session and its row is a step of the promised    *)
(* cycle or nothing at all.                                                *)

(* A row that waits for its verdict is the placeholder and nothing else. *)
Placeholders ==
  \A s \in Session : row[s].status = "PENDING" => row[s] = PendingRow

(* The stage of every session, as BodyCycle sees it. *)
stages == [s \in Session |-> StageOf(s)]

-----------------------------------------------------------------------------
(* A stage depends on the state, on the finalizer's commit and on the end  *)
(* of the process.                                                         *)
LEMMA StageKept ==
  ASSUME NEW s \in Session, st'[s] = st[s], fin'[s].pc = fin[s].pc,
         (s \in lost') = (s \in lost)
  PROVE  StageOf(s)' = StageOf(s)
BY DEF StageOf

(* What is open has no verdict on the way to its commit. *)
LEMMA StageOfOpen ==
  ASSUME IInv, NEW s \in Session
  PROVE  /\ st[s] \in Open => StageOf(s) = "open"
         /\ st[s] = "NONE" => StageOf(s) = IF s \in lost THEN "gone" ELSE "waiting"
         /\ st[s] \in Terminal => StageOf(s) = "closed"
         /\ fin[s].pc = "commit" => StageOf(s) = "recorded"
         /\ fin[s].pc \notin {"none", "commit", "done"} => StageOf(s) = "open"
<1>1. st[s] \in Open => StageOf(s) = "open"
  BY DEF IInv, Progress, StageOf, Open, Terminal
<1>2. fin[s].pc \notin {"none", "done"} => st[s] \notin Open \cup Terminal \cup {"NONE"}
  BY DEF IInv, Progress
<1> QED BY <1>1, <1>2 DEF StageOf, Terminal

(* To begin a finalize does not change the stage. *)
LEMMA BeginFinalizeStage ==
  ASSUME IInv, NEW s \in Session, NEW t, NEW forced, NEW may \in BOOLEAN,
         BeginFinalize(s, t, forced, may), lost' = lost
  PROVE  \A r \in Session : StageOf(r)' = StageOf(r)
<1>1. CASE UNCHANGED <<st, fin>>
  BY <1>1, StageKept
<1>2. CASE ~UNCHANGED <<st, fin>>
  <2>1. /\ st[s] \in Open /\ st'[s] = "FINALIZING" /\ fin'[s].pc = "stop"
        /\ \A r \in Session \ {s} : st'[r] = st[r] /\ fin'[r] = fin[r]
    BY <1>2, BeginFinalizeEffect DEF IInv
  <2>2. StageOf(s)' = "open"
    BY <2>1 DEF StageOf, Terminal
  <2>3. StageOf(s) = "open"
    BY <2>1, StageOfOpen
  <2>4. \A r \in Session \ {s} : StageOf(r)' = StageOf(r)
    BY <2>1, StageKept
  <2> QED BY <2>2, <2>3, <2>4
<1> QED BY <1>1, <1>2

(* The steps that show: everything else leaves stage and row alone. *)
LEMMA QuietSteps ==
  ASSUME IInv, [Next]_vars, ~ProcessGone, ~Restart,
         \A s \in Session : ~StartCreate(s) /\ ~StartInsert(s) /\ ~FinWrite(s)
                            /\ ~FinCommit(s)
  PROVE  row' = row /\ \A r \in Session : StageOf(r)' = StageOf(r)
<1> USE DEF procVars, triggerVars, factVars, sessionVars, ownerVars, shared
<1>1. row' = row
  BY RowWriters
<1> SUFFICES \A r \in Session : StageOf(r)' = StageOf(r)
  BY <1>1
<1>2. ASSUME UNCHANGED coreVars PROVE \A r \in Session : StageOf(r)' = StageOf(r)
  BY <1>2, StageKept DEF coreVars
<1>3. PICK s \in Session : TRUE
  BY ConstantTypes DEF Session
<1>4. CASE UNCHANGED vars \/ IntervalElapses
  BY <1>2, <1>3, <1>4, Bystanders
<1>5. CASE PlcOn
  BY <1>5, StageKept DEF PlcOn
<1>6. CASE InferRelease
  <2>1. UNCHANGED <<fin, lost>>
    BY <1>6 DEF InferRelease, InferUnchanged
  <2>2. \A r \in Session : st'[r] = st[r] \/ (st[r] = "ACTIVE" /\
                                               st'[r] = "WAITING_RESULTS")
    BY <1>6, CoreTypes DEF InferRelease, InferQuiet, Released, IInv, TypeOK,
       InferTypes, InferType
  <2> QED BY <2>1, <2>2, StageKept DEF StageOf, Terminal
<1>7. ASSUME NEW r \in Session, PlcOffFinalize \/ RfidFinalize(r) \/ OcrFinalize
      PROVE  \A q \in Session : StageOf(q)' = StageOf(q)
  <2>1. PICK q \in Session, t \in {"plc", "rfid", "ocr"} :
          BeginFinalize(q, t, "none", FALSE)
    <3>1. CASE PlcOffFinalize
      BY <3>1 DEF PlcOffFinalize, IInv, TypeOK, PlcTypes, PlcType
    <3>2. CASE RfidFinalize(r)
      BY <3>2 DEF RfidFinalize
    <3>3. CASE OcrFinalize
      BY <3>3 DEF OcrFinalize, IInv, TypeOK, OcrTypes, OcrType
    <3> QED BY <1>7, <3>1, <3>2, <3>3
  <2>2. lost' = lost
    BY <1>7 DEF PlcOffFinalize, RfidFinalize, ReaderStep, OcrFinalize, OcrUnchanged
  <2> QED BY <2>1, <2>2, BeginFinalizeStage
<1>8. CASE PlcThread \/ OcrThread \/ InferThread
  BY <1>2, <1>3, <1>5, <1>6, <1>7, <1>8, Bystanders DEF PlcThread
<1>9. CASE Process
  <2>1. CASE ShutdownBegin
    BY <2>1, StageKept DEF ShutdownBegin
  <2>2. CASE ShutdownStop
    BY <1>2, <1>3, <2>2, Bystanders
  <2> QED BY <1>9, <2>1, <2>2 DEF Process, ShutdownExit, Crash
<1>10. ASSUME NEW r \in Session,
              \/ Start(r) \/ Watch(r) \/ Finish(r) \/ Search(r) \/ Reader(r)
              \/ DeadlinePasses(r) \/ ShutdownCancel(r)
       PROVE  \A q \in Session : StageOf(q)' = StageOf(q)
  <2>1. CASE StartRfid(r) \/ StartCamera(r) \/ StartWatchdog(r)
    BY <2>1, StageKept DEF StartRfid, StartCamera, StartWatchdog
  <2>2. CASE StartMissed(r)
    BY <2>2, BeginFinalizeStage DEF StartMissed
  <2>3. CASE WatchClosedElsewhere(r) \/ WatchDeadline(r) \/ WatchGraceOver(r)
    BY <2>3, StageKept DEF WatchClosedElsewhere, WatchDeadline, WatchGraceOver,
       WatchStep
  <2>4. CASE WatchClose(r)
    BY <2>4, BeginFinalizeStage DEF WatchClose, WatchStep
  <2>5. CASE FinStop(r) \/ FinPause(r) \/ FinReadVin(r) \/ FinStatus(r)
    <3>1. /\ UNCHANGED <<st, lost>> /\ fin[r].pc \notin {"none", "commit", "done"}
          /\ \A q \in Session \ {r} : fin'[q] = fin[q]
      BY <2>5, CoreTypes DEF FinStop, FinPause, FinReadVin, FinStatus,
         FinUnchanged, IInv
    <3>2. fin'[r].pc \in {"pause", "vin", "status", "write"}
      <4>1. CASE FinStop(r)
        BY <4>1, CoreTypes DEF FinStop, IInv, FinType
      <4>2. CASE FinPause(r)
        BY <4>2, CoreTypes DEF FinPause, IInv, FinType
      <4>3. CASE FinReadVin(r)
        BY <4>3, CoreTypes DEF FinReadVin, IInv, FinType
      <4>4. CASE FinStatus(r)
        <5>1. PICK status : fin' = [fin EXCEPT ![r] =
                [fin[r] EXCEPT !.pc = "write", !.rfid = rfid[r], !.status = status]]
          BY <4>4 DEF FinStatus
        <5> QED BY <5>1, CoreTypes DEF IInv, FinType
      <4> QED BY <2>5, <4>1, <4>2, <4>3, <4>4
    <3>3. StageOf(r)' = StageOf(r)
      BY <3>1, <3>2 DEF StageOf
    <3> QED BY <3>1, <3>3, StageKept
  <2>6. CASE Search(r) \/ Reader(r)
    BY <1>2, <1>7, <2>6, Bystanders
  <2>7. CASE DeadlinePasses(r)
    BY <2>7, StageKept DEF DeadlinePasses
  <2>8. CASE ShutdownCancel(r)
    BY <2>8, BeginFinalizeStage DEF ShutdownCancel
  <2> QED BY <1>10, <2>1, <2>2, <2>3, <2>4, <2>5, <2>6, <2>7, <2>8
          DEF Start, Watch, Finish
<1> QED BY <1>4, <1>8, <1>9, <1>10 DEF Next
-----------------------------------------------------------------------------
(* The steps that show. *)

(* Rows without a verdict stay placeholders, so that recovery, which goes  *)
(* by the status, fails the placeholders and nothing else.                 *)
LEMMA PlaceholdersStep ==
  ASSUME IInv, Placeholders, [Next]_vars
  PROVE  Placeholders'
<1> SUFFICES ASSUME row' # row PROVE Placeholders'
  BY DEF Placeholders
<1>1. ASSUME NEW s \in Session, StartInsert(s) PROVE Placeholders'
  <2>1. row' = [row EXCEPT ![s] = Announced(row[s])]
    BY <1>1 DEF StartInsert
  <2> QED BY <2>1, CoreTypes DEF Announced, Placeholders, IInv
<1>2. ASSUME NEW s \in Session, FinWrite(s) PROVE Placeholders'
  <2>1. fin[s].status # "PENDING"
    BY <1>2, CoreTypes DEF FinWrite, FinType, IInv, Terminal
  <2>2. row' = [row EXCEPT ![s] = [status |-> fin[s].status, vin |-> fin[s].vin,
                                   rfid |-> fin[s].rfid]]
    BY <1>2 DEF FinWrite
  <2> QED BY <2>1, <2>2, CoreTypes DEF Placeholders, IInv
<1>3. CASE Restart
  <2>1. row' = [s \in Session |-> Recovered(row[s])]
    BY <1>3 DEF Restart
  <2>2. \A s \in Session : Recovered(row[s]).status # "PENDING"
    BY CoreTypes DEF Recovered, IInv, RowType
  <2> QED BY <2>1, <2>2 DEF Placeholders
<1> QED BY <1>1, <1>2, <1>3, RowWriters

(* Every step is a step of BodyCycle, or leaves stages and rows alone.     *)
LEMMA PromiseStep ==
  ASSUME IInv, IInv', Placeholders, [Next]_vars
  PROVE  [Promise!Next]_<<stages, row>>
<1> USE DEF procVars, triggerVars, factVars, sessionVars, ownerVars, shared
<1>1. ASSUME NEW s \in Session, StartCreate(s) PROVE Promise!Open(s)
  <2>1. /\ starter[s].pc = "create" /\ st' = [st EXCEPT ![s] = "ACTIVE"]
        /\ UNCHANGED <<fin, lost, row>>
    BY <1>1 DEF StartCreate
  <2>2. st[s] = "NONE" /\ s \notin lost
    BY <2>1 DEF IInv, Progress, Numbers
  <2>3. StageOf(s) = "waiting"
    BY <2>2, StageOfOpen
  <2>4. st'[s] \in Open /\ \A r \in Session \ {s} : st'[r] = st[r]
    BY <2>1, CoreTypes DEF Open, IInv
  <2>5. StageOf(s)' = "open"
    BY <2>1, <2>4, <2>2 DEF StageOf, Open, Terminal, IInv, Progress
  <2>6. \A r \in Session \ {s} : StageOf(r)' = StageOf(r)
    BY <2>1, <2>4, StageKept
  <2> QED BY <2>1, <2>3, <2>5, <2>6 DEF Promise!Open, stages
<1>2. ASSUME NEW s \in Session, StartInsert(s), row' # row PROVE Promise!Announce(s)
  <2>1. /\ starter[s].pc = "insert" /\ UNCHANGED <<st, fin, lost>>
        /\ row' = [row EXCEPT ![s] = Announced(row[s])]
    BY <1>2 DEF StartInsert
  <2>2. row[s] = NoRow /\ row' = [row EXCEPT ![s] = PendingRow]
    BY <1>2, <2>1, CoreTypes DEF Announced, IInv
  <2>3. \A r \in Session : StageOf(r)' = StageOf(r)
    BY <2>1, StageKept
  <2>4. StageOf(s) \in {"open", "recorded", "closed"}
    BY <2>1 DEF IInv, Progress, StageOf
  <2> QED BY <2>2, <2>3, <2>4 DEF Promise!Announce, stages
<1>3. ASSUME NEW s \in Session, FinWrite(s) PROVE Promise!Record(s)
  <2>1. /\ fin[s].pc = "write" /\ UNCHANGED <<st, lost>>
    BY <1>3 DEF FinWrite, FinUnchanged
  <2>2. /\ fin'[s].pc = "commit" /\ \A r \in Session \ {s} : fin'[r] = fin[r]
    <3>1. \/ fin' = [fin EXCEPT ![s].pc = "commit"]
          \/ fin' = [fin EXCEPT ![s] = AfterFailedWrite(fin[s])]
      BY <1>3 DEF FinWrite
    <3>2. AfterFailedWrite(fin[s]).pc = "commit"
      BY CoreTypes DEF AfterFailedWrite, IInv, FinType
    <3>3. [fin[s] EXCEPT !.pc = "commit"].pc = "commit"
      BY CoreTypes DEF IInv, FinType
    <3> QED BY <3>1, <3>2, <3>3, CoreTypes DEF IInv
  <2>3. StageOf(s) = "open"
    BY <2>1, StageOfOpen
  <2>4. StageOf(s)' = "recorded"
    BY <2>1, <2>2, NotYetWritten DEF StageOf
  <2>5. \A r \in Session \ {s} : StageOf(r)' = StageOf(r)
    BY <2>1, <2>2, StageKept
  <2>6. row' = row \/ \E v \in Promise!Verdict : row' = [row EXCEPT ![s] = v]
    <3> DEFINE new == [status |-> fin[s].status, vin |-> fin[s].vin,
                       rfid |-> fin[s].rfid]
    <3>1. new \in RowType /\ fin[s].status \in Terminal
      BY <2>1, CoreTypes DEF IInv, FinType, RowType, RowState
    <3>2. new # NoRow /\ new # PendingRow
      BY <3>1 DEF NoRow, PendingRow, Terminal
    <3>3. row' = row \/ row' = [row EXCEPT ![s] = new]
      BY <1>3 DEF FinWrite
    <3> QED BY <3>1, <3>2, <3>3 DEF Promise!Verdict
  <2> QED BY <2>3, <2>4, <2>5, <2>6 DEF Promise!Record, stages
<1>4. ASSUME NEW s \in Session, FinCommit(s) PROVE Promise!Close(s)
  <2>1. /\ fin[s].pc = "commit" /\ st' = [st EXCEPT ![s] = fin[s].status]
        /\ fin' = [fin EXCEPT ![s].pc = "done"] /\ UNCHANGED <<lost, row>>
    BY <1>4 DEF FinCommit, FinUnchanged
  <2>2. /\ st'[s] \in Terminal
        /\ \A r \in Session \ {s} : st'[r] = st[r] /\ fin'[r] = fin[r]
    BY <2>1, CoreTypes DEF IInv, FinType
  <2>3. StageOf(s) = "recorded"
    BY <2>1, StageOfOpen
  <2>4. StageOf(s)' = "closed"
    BY <2>2 DEF StageOf, Terminal
  <2>5. \A r \in Session \ {s} : StageOf(r)' = StageOf(r)
    BY <2>1, <2>2, StageKept
  <2> QED BY <2>1, <2>3, <2>4, <2>5 DEF Promise!Close, stages
<1>5. CASE ProcessGone
  <2>1. /\ st' = [s \in Session |-> "NONE"] /\ lost' = lost \cup (1 .. trig)
        /\ row' = row
    BY <1>5 DEF ProcessGone
  <2>2. lost' \in SUBSET Session
    BY DEF IInv, TypeOK, ProcTypes
  <2>3. \A s \in Session \ lost' : st[s] = "NONE" /\ s \notin lost
    <3>1. \A s \in Session \ lost' : s > trig /\ s \notin lost
      BY <2>1, CoreTypes DEF IInv, Session
    <3> QED BY <3>1 DEF IInv, Numbers, Progress
  <2>4. \A s \in Session \ lost' : StageOf(s) = "waiting"
    BY <2>3, StageOfOpen
  <2>5. \A s \in Session : StageOf(s)' = IF s \in lost' THEN "gone" ELSE "waiting"
    BY <2>1 DEF StageOf
  <2>6. Promise!Vanish(lost')
    BY <2>1, <2>4, <2>5 DEF Promise!Vanish, stages
  <2> QED BY <2>2, <2>6 DEF Promise!Next
<1>6. CASE Restart /\ row' # row
  <2>1. /\ ~up /\ row' = [s \in Session |-> Recovered(row[s])]
        /\ UNCHANGED <<st, fin, lost>>
    BY <1>6 DEF Restart
  <2>2. \A s \in Session : st[s] = "NONE"
    BY <2>1 DEF IInv, Down, Progress
  <2>3. \A s \in Session : StageOf(s) \in {"waiting", "gone"}
    BY <2>2, StageOfOpen
  <2>4. \A s \in Session : StageOf(s)' = StageOf(s)
    BY <2>1, StageKept
  <2>5. \A s \in Session :
          Recovered(row[s]) = IF row[s] = PendingRow THEN Recovered(PendingRow)
                                                    ELSE row[s]
    BY DEF Recovered, Placeholders, PendingRow
  <2> QED BY <2>1, <2>3, <2>4, <2>5 DEF Promise!Recover, Promise!Next, stages
<1>7. CASE row' = row /\ \A r \in Session : StageOf(r)' = StageOf(r)
  BY <1>7 DEF stages
<1>8. CASE Restart /\ row' = row
  BY <1>8, StageKept DEF Restart, stages
<1>9. CASE \E s \in Session : StartInsert(s) /\ row' = row
  BY <1>9, StageKept DEF StartInsert, stages
<1> QED BY <1>1, <1>2, <1>3, <1>4, <1>5, <1>6, <1>7, <1>8, <1>9, QuietSteps
        DEF Promise!Next

(* Every step of the threads is a step of the promised cycle or changes    *)
(* nothing of it.                                                          *)
THEOREM Refinement == Spec => BodyCycleKept
<1>1. Init => Placeholders
  BY DEF Init, Placeholders, NoRow
<1>2. IInv /\ Placeholders /\ [Next]_vars => Placeholders'
  BY PlaceholdersStep
<1>3. Spec => []Placeholders
  BY <1>1, <1>2, Invariance, PTL DEF Spec
<1>4. Init => Promise!Init
  BY DEF Init, Boot, Promise!Init, StageOf
<1>5. IInv /\ IInv' /\ Placeholders /\ [Next]_vars => [Promise!Next]_<<stages, row>>
  BY PromiseStep
<1> QED BY <1>3, <1>4, <1>5, Invariance, PTL
        DEF Spec, BodyCycleKept, Promise!Spec, stages

-----------------------------------------------------------------------------
(* One body at a time, that is without the trigger queue and with the      *)
(* minimum body interval, as in config/settings.yaml: the inductive        *)
(* invariant.                                                              *)

OneAtATime == ~QueueEnabled /\ MinInterval

(* Before the camera of a session is started. *)
BeforeCamera == {"create", "insert", "missed", "rfid", "camera"}

(* Nothing of a body is on its way through the camera and the OCR. *)
Dark == /\ infer.pc = "idle" /\ ocr.pc = "idle" /\ jobs = <<>> /\ ~processing

(* Before the camera of a session is started, and between the minimum body  *)
(* interval's end and the next trigger, the pipeline is dark.               *)
DarkBefore ==
  /\ \A s \in Session : starter[s].pc \in BeforeCamera => Dark
  /\ ~early /\ stopping.pc = "no" => Dark /\ \A s \in Session : ~Starting(s)

(* A session whose camera is not started yet has no VIN, nobody watches it  *)
(* and, the shutdown apart, nobody closes it.                               *)
Opening ==
  /\ \A s \in Session :
       /\ starter[s].pc \in {"none"} \cup BeforeCamera => vin[s] = NoVin
       /\ starter[s].pc \in {"none", "watchdog"} \cup BeforeCamera => wd[s] = "none"
       /\ starter[s].pc # "missed" /\ (Starting(s) => plc.pc = "idle")
       /\ stopping.pc = "no" /\ starter[s].pc \in BeforeCamera \ {"create"} =>
            owner = s /\ fin[s].pc = "none"
       /\ starter[s].pc \in BeforeCamera \ {"create"} /\ owner = None => active = None

(* A VIN is stored, and a session closed by its reader, only after it was  *)
(* created and identified.                                                 *)
Deliveries ==
  /\ ocr.pc = "store" \/ (ocr.pc = "signal" /\ ocr.ok) => st[ocr.sid] # "NONE"
  /\ \A s \in Session : reader[s].pc = "finalize" => vin[s] # NoVin

(* While the camera pipeline runs, its session has not been closed: whoever *)
(* closes it stops the pipeline first.                                      *)
Running ==
  /\ processing /\ stopping.pc = "no" =>
       /\ owner # None
       /\ \/ fin[owner].pc = "none"
          \/ fin[owner].pc = "stop" /\ fin[owner].owns
  /\ processing /\ owner = None => active = None
  /\ infer.pc \in {"pause", "owner", "release"} => ~processing

(* For whom the detector took the frames it has not yet handed on. *)
Seen ==
  buf \cup (IF infer.pc = "frame" THEN {infer.taken}
            ELSE IF infer.pc = "submit" THEN infer.crops ELSE {})

(* For the last session, or for nobody once nobody can be given them. *)
OneCapture ==
  /\ owner \in {None, last} /\ active \in {None, last}
  /\ processing \/ infer.pc # "idle" =>
       /\ Seen \subseteq {None, last}
       /\ None \in Seen => owner = None /\ active = None

(* A session's OCR job holds crops of its own capture only. *)
OwnCrops(sid, of) == sid # None => of \subseteq {sid}

OwnJobs ==
  /\ infer.pc = "enqueue" => OwnCrops(infer.sid, infer.crops)
  /\ \A i \in DOMAIN jobs : OwnCrops(jobs[i].sid, jobs[i].of)
  /\ OwnCrops(ocr.sid, ocr.of)
  /\ ocr.pc \in {"validate", "signal", "store"} => ocr.vin \in ocr.of

(* What a session, its finalizer and its row know of the VIN is its own.   *)
OwnVin ==
  \A s \in Session : /\ vin[s] \in {NoVin, s} /\ fin[s].vin \in {NoVin, s}
                     /\ row[s].vin \in {NoVin, s}

CaptureInv == /\ DarkBefore /\ Opening /\ Deliveries /\ Running /\ OneCapture
           /\ OwnJobs /\ OwnVin

-----------------------------------------------------------------------------
(* What the operators the steps share do to it. *)

(* Without the queue nobody but the PLC thread starts a session. *)
LEMMA NobodyPops ==
  ASSUME IInv, OneAtATime
  PROVE  queue = <<>> /\ \A t : ~PopNext(t)
BY DEF IInv, OneStart, OneAtATime, PopNext

(* The entry section of _finalize_session gives a finalizer without a VIN, *)
(* which owns the capture if the session does.                             *)
LEMMA BegunFin ==
  ASSUME IInv, NEW s \in Session, NEW t, NEW forced, NEW may \in BOOLEAN,
         BeginFinalize(s, t, forced, may)
  PROVE  /\ \A r \in Session : st[r] # "NONE" => st'[r] # "NONE"
         /\ \A r \in Session \ {s} : fin'[r] = fin[r]
         /\ \/ fin'[s] = fin[s]
            \/ /\ fin[s].pc = "none" /\ fin'[s].pc = "stop"
               /\ (owner = s => fin'[s].owns) /\ fin'[s].vin = NoVin
<1>1. CASE UNCHANGED <<st, fin>>
  BY <1>1
<1>2. CASE ~UNCHANGED <<st, fin>>
  <2>1. /\ fin[s].pc = "none" /\ st'[s] = "FINALIZING"
        /\ \A r \in Session \ {s} : st'[r] = st[r] /\ fin'[r] = fin[r]
    BY <1>2, BeginFinalizeEffect DEF IInv
  <2>2. fin' = [fin EXCEPT ![s] =
                  [pc |-> "stop", by |-> t, owns |-> owner = s, vin |-> NoVin,
                   rfid |-> FALSE, status |-> forced]]
    BY <1>2 DEF BeginFinalize
  <2> QED BY <2>1, <2>2, CoreTypes DEF IInv
<1> QED BY <1>1, <1>2

(* A step that brings no light: it stops the pipeline or leaves it, hands  *)
(* on no crop and no VIN, and lets a finalizer or a reader move on.        *)
LEMMA Dimming ==
  ASSUME IInv, CaptureInv, DarkBefore',
         UNCHANGED <<starter, owner, active, last, infer, ocr, jobs, vin>>,
         stopping' = stopping \/ stopping'.pc # "no",
         plc'.pc # "idle" => plc.pc # "idle" \/ \A s \in Session : ~Starting(s),
         processing' => processing, buf' \subseteq buf,
         \A s \in Session :
           /\ st[s] # "NONE" => st'[s] # "NONE"
           /\ wd[s] = "none" => wd'[s] = "none"
           /\ reader'[s].pc = "finalize" =>
                reader[s].pc = "finalize" \/ vin[s] # NoVin
           /\ row'[s].vin \in {NoVin, s} /\ fin'[s].vin \in {NoVin, s}
           /\ fin[s].pc = "none" /\ fin'[s].pc # "none" =>
                /\ fin'[s].pc = "stop" /\ (owner = s => fin'[s].owns)
                /\ \/ stopping'.pc # "no"
                   \/ starter[s].pc \notin BeforeCamera \ {"create"}
           /\ fin[s].pc = "stop" /\ fin[s].owns =>
                fin'[s] = fin[s] \/ ~processing'
  PROVE  CaptureInv'
<1> USE DEF CaptureInv
<1>1. Opening'
  <2>1. \A s \in Session :
          /\ starter[s].pc \in {"none"} \cup BeforeCamera => vin'[s] = NoVin
          /\ starter[s].pc \in {"none", "watchdog"} \cup BeforeCamera =>
               wd'[s] = "none"
          /\ starter[s].pc # "missed" /\ (Starting(s) => plc'.pc = "idle")
    BY DEF Opening
  <2>2. \A s \in Session :
          stopping'.pc = "no" /\ starter[s].pc \in BeforeCamera \ {"create"} =>
            owner' = s /\ fin'[s].pc = "none"
    BY DEF Opening
  <2>3. \A s \in Session :
          starter[s].pc \in BeforeCamera \ {"create"} /\ owner = None =>
            active = None
    BY DEF Opening
  <2> QED BY <2>1, <2>2, <2>3 DEF Opening, Starting
<1>2. Deliveries'
  BY DEF Deliveries, IInv, TypeOK, OcrTypes, OcrType
<1>3. Running'
  <2>1. owner # None => owner \in Session
    BY CoreTypes, Sets DEF IInv
  <2>2. ASSUME processing', stopping'.pc = "no"
        PROVE  /\ owner # None
               /\ \/ fin'[owner].pc = "none"
                  \/ fin'[owner].pc = "stop" /\ fin'[owner].owns
    <3>1. /\ owner \in Session /\ owner # None
          /\ \/ fin[owner].pc = "none"
             \/ fin[owner].pc = "stop" /\ fin[owner].owns
      BY <2>1, <2>2 DEF Running
    <3>2. fin[owner].pc = "none" /\ fin'[owner].pc # "none" =>
            fin'[owner].pc = "stop" /\ fin'[owner].owns
      BY <3>1
    <3>3. fin[owner].pc = "stop" /\ fin[owner].owns => fin'[owner] = fin[owner]
      BY <2>2, <3>1
    <3> QED BY <3>1, <3>2, <3>3
  <2>3. processing' /\ owner' = None => active' = None
    BY DEF Running
  <2>4. infer'.pc \in {"pause", "owner", "release"} => ~processing'
    BY DEF Running
  <2> QED BY <2>2, <2>3, <2>4 DEF Running
<1>4. OneCapture'
  BY DEF OneCapture, Seen
<1>5. OwnJobs'
  BY DEF OwnJobs, OwnCrops
<1>6. OwnVin'
  BY DEF OwnVin
<1> QED BY <1>1, <1>2, <1>3, <1>4, <1>5, <1>6

-----------------------------------------------------------------------------
(* The frames of the steps. *)

(* The pipeline stays dark until a camera is started. *)
LEMMA DarkStays ==
  ASSUME Dark, [Next]_vars, \A s \in Session : ~StartCamera(s)
  PROVE  Dark'
<1> USE DEF Dark, procVars, triggerVars, factVars, sessionVars, ownerVars,
            camVars, ocrVars, rfidVars, shared, threads
<1>1. CASE PlcThread
  <2>1. CASE PlcOn \/ PlcOff
    BY <2>1 DEF PlcOn, PlcOff
  <2>2. CASE PlcOffFinalize
    BY <2>2 DEF PlcOffFinalize
  <2>3. CASE PlcOffStop
    BY <2>3 DEF PlcOffStop, StopProcessing
  <2> QED BY <1>1, <2>1, <2>2, <2>3 DEF PlcThread
<1>2. CASE OcrThread
  BY <1>2 DEF OcrThread, OcrTake, OcrReadVin, OcrValidate, OcrSignal, OcrStore,
              OcrManualRecord, OcrComplete, OcrFinalize, OcrFail, OcrUnlock
<1>3. CASE InferThread
  BY <1>3 DEF InferThread, InferGrab, InferSkip, InferPlate, InferAbsent,
              InferSubmit, InferRefuse, InferEnqueue, InferStop, InferPause,
              InferOwner, InferRelease
<1>4. CASE Process \/ IntervalElapses \/ UNCHANGED vars
  BY <1>4 DEF Process, ShutdownBegin, ShutdownStop, ShutdownExit, Crash, Restart,
              ProcessGone, StopProcessing, IdleInfer, IdleOcr, IntervalElapses,
              vars
<1>5. ASSUME NEW s \in Session, Start(s) \/ Watch(s) \/ DeadlinePasses(s)
      PROVE  Dark'
  <2>1. CASE StartCreate(s) \/ StartInsert(s)
    BY <2>1 DEF StartCreate, StartInsert
  <2>2. CASE StartMissed(s)
    BY <2>2 DEF StartMissed
  <2>3. CASE StartRfid(s) \/ StartWatchdog(s) \/ DeadlinePasses(s)
    BY <2>3 DEF StartRfid, StartWatchdog, DeadlinePasses
  <2>4. CASE Watch(s)
    <3>1. PICK next : WatchStep(s, next)
      BY <2>4 DEF Watch, WatchClosedElsewhere, WatchDeadline, WatchGraceOver,
                  WatchClose
    <3> QED BY <3>1 DEF WatchStep
  <2> QED BY <1>5, <2>1, <2>2, <2>3, <2>4 DEF Start
<1>6. ASSUME NEW s \in Session, Finish(s) \/ Search(s) \/ ShutdownCancel(s)
      PROVE  Dark'
  <2>1. CASE FinStop(s) \/ FinPause(s) \/ FinReadVin(s)
    BY <2>1 DEF FinStop, FinPause, FinReadVin, FinUnchanged, StopProcessing
  <2>2. CASE FinStatus(s) \/ FinWrite(s) \/ FinCommit(s)
    BY <2>2 DEF FinStatus, FinWrite, FinCommit, FinUnchanged
  <2>3. CASE Search(s)
    BY <2>3 DEF Search, SearchTimeout, SearchStop, SearchPause, SearchStep,
                StopProcessing
  <2>4. CASE ShutdownCancel(s)
    BY <2>4 DEF ShutdownCancel
  <2> QED BY <1>6, <2>1, <2>2, <2>3, <2>4 DEF Finish
<1>7. ASSUME NEW s \in Session, Reader(s) PROVE Dark'
  <2>1. CASE RfidRead(s)
    BY <2>1 DEF RfidRead
  <2>2. CASE \E next : ReaderStep(s, next)
    BY <2>2 DEF ReaderStep
  <2> QED BY <1>7, <2>1, <2>2 DEF Reader, RfidValidate, RfidStore, RfidComplete,
                                  RfidFinalize
<1> QED BY <1>1, <1>2, <1>3, <1>4, <1>5, <1>6, <1>7 DEF Next

(* The clocks and the starters: who changes them. *)
LEMMA Frames ==
  ASSUME IInv, OneAtATime, [Next]_vars, ~PlcOn, ~ProcessGone
  PROVE  /\ stopping' = stopping \/ stopping'.pc # "no"
         /\ early' = early \/ IntervalElapses
         /\ (\A s \in Session : ~Start(s)) => starter' = starter
<1> DEFINE Same == stopping' = stopping /\ early' = early
           Kept == Same /\ starter' = starter
<1> USE DEF procVars, triggerVars, factVars, sessionVars, ownerVars, shared
<1>1. CASE PlcThread \/ UNCHANGED vars
  BY <1>1 DEF PlcThread, PlcOff, PlcOffFinalize, PlcOffStop, vars
<1>2. CASE OcrThread
  BY <1>2 DEF OcrThread, OcrTake, OcrReadVin, OcrValidate, OcrSignal, OcrStore,
              OcrManualRecord, OcrComplete, OcrFinalize, OcrFail, OcrUnlock,
              OcrUnchanged
<1>3. CASE InferThread
  <2>1. CASE InferRelease
    BY <2>1, NobodyPops DEF InferRelease, InferUnchanged, InferQuiet
  <2> QED BY <1>3, <2>1 DEF InferThread, InferGrab, InferSkip, InferPlate,
            InferAbsent, InferSubmit, InferRefuse, InferEnqueue, InferStop,
            InferPause, InferOwner, InferUnchanged, InferQuiet
<1>4. CASE IntervalElapses
  BY <1>4 DEF IntervalElapses
<1>5. CASE Process
  <2>1. CASE ShutdownBegin
    BY <2>1 DEF ShutdownBegin
  <2>2. CASE ShutdownStop
    <3>1. stopping'.pc = "exit"
      BY <2>2 DEF ShutdownStop, IInv, TypeOK, ProcTypes
    <3> QED BY <2>2, <3>1 DEF ShutdownStop
  <2>3. CASE Restart
    BY <2>3 DEF Restart
  <2> QED BY <1>5, <2>1, <2>2, <2>3 DEF Process, ShutdownExit, Crash
<1>6. ASSUME NEW s \in Session, Start(s) PROVE Same
  <2>1. CASE StartMissed(s)
    BY <2>1 DEF StartMissed
  <2> QED BY <1>6, <2>1 DEF Start, StartCreate, StartInsert, StartRfid,
                            StartCamera, StartWatchdog
<1>7. ASSUME NEW s \in Session, Watch(s) \/ Reader(s) PROVE Kept
  <2>1. CASE Watch(s)
    <3>1. PICK next : WatchStep(s, next)
      BY <2>1 DEF Watch, WatchClosedElsewhere, WatchDeadline, WatchGraceOver,
                  WatchClose
    <3> QED BY <3>1 DEF WatchStep
  <2>2. CASE RfidRead(s)
    BY <2>2 DEF RfidRead
  <2>3. CASE \E next : ReaderStep(s, next)
    BY <2>3 DEF ReaderStep
  <2> QED BY <1>7, <2>1, <2>2, <2>3 DEF Reader, RfidValidate, RfidStore,
                                       RfidComplete, RfidFinalize
<1>8. ASSUME NEW s \in Session, Finish(s) \/ Search(s) \/ DeadlinePasses(s)
      PROVE  Kept
  <2>1. CASE FinStop(s) \/ FinPause(s) \/ FinReadVin(s) \/ FinStatus(s)
    BY <2>1 DEF FinStop, FinPause, FinReadVin, FinStatus, FinUnchanged
  <2>2. CASE FinWrite(s)
    BY <2>2 DEF FinWrite, FinUnchanged
  <2>3. CASE FinCommit(s)
    BY <2>3, NobodyPops DEF FinCommit, FinUnchanged
  <2>4. CASE Search(s) \/ DeadlinePasses(s)
    BY <2>4 DEF Search, SearchTimeout, SearchStop, SearchPause, SearchStep,
                DeadlinePasses
  <2> QED BY <1>8, <2>1, <2>2, <2>3, <2>4 DEF Finish
<1>9. ASSUME NEW s \in Session, ShutdownCancel(s)
      PROVE  /\ stopping'.pc # "no"
             /\ early' = early /\ starter' = starter
  BY <1>9 DEF ShutdownCancel, IInv, TypeOK, ProcTypes
<1> QED BY <1>1, <1>2, <1>3, <1>4, <1>5, <1>6, <1>7, <1>8, <1>9 DEF Next

(* The clocks at the end of the interval: the pipeline is off by then.     *)
LEMMA OffWhenQuiescent ==
  ASSUME IInv, Running, Quiescent, stopping.pc = "no" PROVE ~processing
<1> SUFFICES ASSUME processing PROVE FALSE
  OBVIOUS
<1>1. owner # None /\ owner \in Session
  BY CoreTypes, Sets DEF Running, IInv
<1> QED BY <1>1 DEF Quiescent, IInv, OwnersAreOpen

(* No trigger is accepted and no interval ends with a body in the pipeline. *)
LEMMA DarkBeforeKept ==
  ASSUME IInv, OneAtATime, CaptureInv, [Next]_vars, ~ProcessGone
  PROVE  DarkBefore'
<1> USE DEF CaptureInv
<1>1. CASE PlcOn
  <2>1. stopping.pc = "no" /\ stopping' = stopping
    BY <1>1 DEF PlcOn, procVars
  <2>2. \A s \in Session : ~StartCamera(s)
    BY <1>1 DEF PlcOn, StartCamera, triggerVars, IInv, TypeOK, TriggerTypes
  <2>3. CASE PlcAccept
    <3>1. ~early /\ early'
      BY <2>3 DEF PlcAccept, OneAtATime
    <3>2. Dark'
      BY <2>1, <2>2, <3>1, DarkStays DEF DarkBefore
    <3> QED BY <3>1, <3>2 DEF DarkBefore
  <2>4. CASE ~PlcAccept
    <3>1. UNCHANGED <<early, starter>>
      BY <1>1, <2>4 DEF PlcOn, PlcSuppressDuplicate, PlcOverflow, PlcEnqueue,
         PlcSuppressEarly
    <3> QED BY <2>1, <2>2, <3>1, DarkStays DEF DarkBefore, Starting
  <2> QED BY <2>3, <2>4
<1>2. ASSUME NEW s \in Session, StartCamera(s) PROVE DarkBefore'
  <2>1. /\ starter[s].pc = "camera" /\ UNCHANGED <<early, stopping>>
        /\ starter' = [starter EXCEPT ![s].pc = "watchdog"]
    BY <1>2 DEF StartCamera, procVars, triggerVars
  <2>2. early \/ stopping.pc # "no"
    BY <2>1 DEF DarkBefore, Starting
  <2>3. \A r \in Session \ {s} : starter[r].pc \notin BeforeCamera
    BY <2>1 DEF IInv, OneStart, OneAtATime, Starting, BeforeCamera
  <2>4. \A r \in Session : starter'[r].pc \notin BeforeCamera
    BY <2>1, <2>3, CoreTypes DEF BeforeCamera, IInv, StarterType
  <2> QED BY <2>1, <2>2, <2>4 DEF DarkBefore
<1>3. ASSUME ~PlcOn, \A s \in Session : ~StartCamera(s) PROVE DarkBefore'
  <2>1. \A s \in Session : Starting(s)' => Starting(s)
    <3>1. CASE \A s \in Session : ~Start(s)
      BY <1>3, <3>1, Frames DEF Starting
    <3>2. ASSUME NEW r \in Session, Start(r)
          PROVE  \A s \in Session : Starting(s)' => Starting(s)
      <4>1. Starting(r) /\ \A s \in Session \ {r} : starter'[s] = starter[s]
        BY <3>2, CoreTypes DEF Start, StartCreate, StartInsert, StartMissed,
           StartRfid, StartCamera, StartWatchdog, Starting, IInv
      <4> QED BY <4>1 DEF Starting
    <3> QED BY <3>1, <3>2
  <2>2. \A s \in Session :
          starter'[s].pc \in BeforeCamera => starter[s].pc \in BeforeCamera
    <3>1. CASE \A s \in Session : ~Start(s)
      BY <1>3, <3>1, Frames
    <3>2. ASSUME NEW r \in Session, Start(r)
          PROVE  \A s \in Session :
                   starter'[s].pc \in BeforeCamera => starter[s].pc \in BeforeCamera
      <4>1. /\ starter[r].pc \in BeforeCamera \/ starter'[r].pc = "done"
            /\ \A s \in Session \ {r} : starter'[s] = starter[s]
        BY <3>2, CoreTypes DEF Start, StartCreate, StartInsert, StartMissed,
           StartRfid, StartCamera, StartWatchdog, BeforeCamera, IInv, StarterType
      <4> QED BY <4>1 DEF BeforeCamera
    <3> QED BY <3>1, <3>2
  <2>3. Dark => Dark'
    BY <1>3, DarkStays
  <2>4. CASE early' = early
    BY <1>3, <2>1, <2>2, <2>3, <2>4, Frames DEF DarkBefore
  <2>5. CASE IntervalElapses
    <3>1. Quiescent /\ stopping' = stopping
      BY <2>5 DEF IntervalElapses, procVars
    <3>2. stopping.pc = "no" => Dark /\ \A s \in Session : ~Starting(s)
      BY <3>1, OffWhenQuiescent DEF Quiescent, Dark
    <3> QED BY <2>1, <2>2, <2>3, <3>1, <3>2 DEF DarkBefore
  <2> QED BY <1>3, <2>4, <2>5, Frames
<1> QED BY <1>1, <1>2, <1>3

-----------------------------------------------------------------------------
(* The steps of the threads. *)

(* plc_on may accept a trigger, whose number nobody has used. *)
LEMMA CapturePlcOn ==
  ASSUME IInv, CaptureInv, DarkBefore', PlcOn
  PROVE  CaptureInv'
<1> USE DEF CaptureInv, procVars, sessionVars, factVars, shared, ownerVars, camVars,
            rfidVars, threads, ocrVars
<1>1. /\ UNCHANGED <<stopping, st, vin, row, owner, active, last, processing, buf,
                     fin, wd, reader, plc, infer, jobs, ocr>>
      /\ plc.pc = "idle" /\ trig + 1 \in Session
  BY CoreTypes, ConstantTypes DEF PlcOn, PlcThreadFree, IdlePlc, Session, IInv
<1>2. Deliveries' /\ Running'
  BY <1>1 DEF Deliveries, Running
<1>3. OneCapture' /\ OwnJobs' /\ OwnVin'
  BY <1>1 DEF OneCapture, Seen, OwnJobs, OwnCrops, OwnVin
<1>4. \A s \in Session :
        \/ starter'[s] = starter[s]
        \/ /\ s = trig + 1 /\ starter[s].pc = "none"
           /\ starter'[s] = [pc |-> "create", by |-> "plc"]
  <2>1. starter[trig + 1].pc = "none"
    BY <1>1, CoreTypes DEF IInv, Numbers
  <2>2. \/ starter' = starter
        \/ starter' = [starter EXCEPT ![trig + 1] = [pc |-> "create", by |-> "plc"]]
    BY DEF PlcOn, PlcSuppressDuplicate, PlcOverflow, PlcEnqueue, PlcSuppressEarly,
           PlcAccept
  <2> QED BY <1>1, <2>1, <2>2, CoreTypes DEF IInv
<1>5. Opening'
  BY <1>1, <1>4 DEF Opening, Starting, BeforeCamera
<1> QED BY <1>2, <1>3, <1>5

(* A finalizer that is begun for a session, by a thread that may. *)
LEMMA CaptureBegun ==
  ASSUME IInv, CaptureInv, DarkBefore', NEW s \in Session, NEW t, NEW forced,
         NEW may \in BOOLEAN, BeginFinalize(s, t, forced, may),
         stopping'.pc = "no" => starter[s].pc \notin BeforeCamera \ {"create"},
         UNCHANGED <<starter, owner, active, last, infer, ocr, jobs, vin, row,
                     processing, buf>>,
         stopping' = stopping \/ stopping'.pc # "no",
         plc'.pc # "idle" => plc.pc # "idle",
         \A r \in Session :
           /\ wd[r] = "none" => wd'[r] = "none"
           /\ reader'[r].pc = "finalize" => reader[r].pc = "finalize"
  PROVE  CaptureInv'
<1>1. /\ \A r \in Session : st[r] # "NONE" => st'[r] # "NONE"
      /\ \A r \in Session : fin'[r].vin \in {NoVin, r}
      /\ \A r \in Session : row[r].vin \in {NoVin, r}
  BY BegunFin DEF CaptureInv, OwnVin
<1>2. \A r \in Session :
        /\ fin[r].pc = "none" /\ fin'[r].pc # "none" =>
             r = s /\ fin'[r].pc = "stop" /\ (owner = r => fin'[r].owns)
        /\ fin[r].pc = "stop" => fin'[r] = fin[r]
  BY BegunFin
<1> QED BY <1>1, <1>2, Dimming

(* plc_off closes the running session or stops the pipeline. *)
LEMMA CapturePlcOff ==
  ASSUME IInv, OneAtATime, CaptureInv, DarkBefore',
         PlcOff \/ PlcOffFinalize \/ PlcOffStop
  PROVE  CaptureInv'
<1> USE DEF procVars, triggerVars, factVars, sessionVars, ownerVars, camVars,
            ocrVars, rfidVars, shared, threads
<1>1. \A r \in Session : row[r].vin \in {NoVin, r} /\ fin[r].vin \in {NoVin, r}
  BY DEF CaptureInv, OwnVin
<1>2. CASE PlcOff
  <2>1. \A s \in Session : ~Starting(s)
    BY <1>2 DEF PlcOff, PlcThreadFree, ThreadFree, IInv, OneStart, OneAtATime
  <2> QED BY <1>1, <1>2, <2>1, Dimming DEF PlcOff
<1>3. CASE PlcOffFinalize
  <2>1. /\ plc.pc = "finalize" /\ plc.sid \in Session
        /\ BeginFinalize(plc.sid, "plc", "none", FALSE)
    BY <1>3 DEF PlcOffFinalize, IInv, TypeOK, PlcTypes, PlcType
  <2>2. starter[plc.sid].pc \notin BeforeCamera
    BY <2>1 DEF CaptureInv, Opening, Starting, BeforeCamera
  <2> QED BY <1>3, <2>1, <2>2, CaptureBegun DEF PlcOffFinalize
<1>4. CASE PlcOffStop
  BY <1>1, <1>4, Dimming DEF PlcOffStop, StopProcessing, IdlePlc
<1> QED BY <1>2, <1>3, <1>4

(* The watchdogs, the search watches and time. *)
LEMMA CaptureWatch ==
  ASSUME IInv, CaptureInv, DarkBefore', NEW s \in Session,
         Watch(s) \/ Search(s) \/ DeadlinePasses(s)
  PROVE  CaptureInv'
<1> USE DEF procVars, triggerVars, factVars, sessionVars, ownerVars, camVars,
            ocrVars, rfidVars, shared, threads
<1>1. \A r \in Session : row[r].vin \in {NoVin, r} /\ fin[r].vin \in {NoVin, r}
  BY DEF CaptureInv, OwnVin
<1>2. ASSUME NEW next, WatchStep(s, next), wd[s] # "none"
      PROVE  /\ UNCHANGED <<starter, owner, active, last, infer, ocr, jobs, vin,
                            row, processing, buf, stopping, plc, reader>>
             /\ \A r \in Session : wd[r] = "none" => wd'[r] = "none"
  BY <1>2 DEF WatchStep, IInv, TypeOK, WatchTypes
<1>3. CASE WatchClose(s)
  <2>1. /\ wd[s] = "closing" /\ BeginFinalize(s, "watchdog", "none", TRUE)
        /\ WatchStep(s, "done")
    BY <1>3 DEF WatchClose
  <2>2. starter[s].pc \notin BeforeCamera
    BY <2>1 DEF CaptureInv, Opening
  <2> QED BY <1>2, <2>1, <2>2, CaptureBegun
<1>4. CASE WatchClosedElsewhere(s) \/ WatchDeadline(s) \/ WatchGraceOver(s)
  <2>1. UNCHANGED <<st, fin>> /\ wd[s] # "none" /\ \E next : WatchStep(s, next)
    BY <1>4 DEF WatchClosedElsewhere, WatchDeadline, WatchGraceOver
  <2> QED BY <1>1, <1>2, <2>1, Dimming
<1>5. CASE Search(s)
  <2>1. /\ UNCHANGED <<starter, owner, active, last, infer, ocr, jobs, vin, row,
                       st, fin, wd, stopping, plc, reader>>
        /\ (processing' => processing) /\ buf' \subseteq buf
    BY <1>5 DEF Search, SearchTimeout, SearchStop, SearchPause, SearchStep,
                StopProcessing
  <2> QED BY <1>1, <2>1, Dimming
<1>6. CASE DeadlinePasses(s)
  BY <1>1, <1>6, Dimming DEF DeadlinePasses
<1> QED BY <1>3, <1>4, <1>5, <1>6 DEF Watch

(* The RFID reader delivers, and may close the session. *)
LEMMA CaptureReader ==
  ASSUME IInv, CaptureInv, DarkBefore', NEW s \in Session, Reader(s)
  PROVE  CaptureInv'
<1> USE DEF procVars, triggerVars, factVars, sessionVars, ownerVars, camVars,
            ocrVars, rfidVars, shared, threads
<1>1. \A r \in Session : row[r].vin \in {NoVin, r} /\ fin[r].vin \in {NoVin, r}
  BY DEF CaptureInv, OwnVin
<1>2. \A r \in Session : reader[r].pc = "finalize" => vin[r] # NoVin
  BY DEF CaptureInv, Deliveries
<1>3. reader \in [Session -> ReaderType]
  BY DEF IInv, TypeOK, RfidTypes
<1>4. CASE RfidFinalize(s)
  <2>1. /\ reader[s].pc = "finalize" /\ BeginFinalize(s, "rfid", "none", FALSE)
        /\ reader' = [reader EXCEPT ![s].pc = "done"]
        /\ UNCHANGED <<starter, owner, active, last, infer, ocr, jobs, vin, row,
                       processing, buf, stopping, plc, wd>>
    BY <1>4 DEF RfidFinalize, ReaderStep
  <2>2. starter[s].pc \notin BeforeCamera
    BY <1>2, <2>1 DEF CaptureInv, Opening
  <2>3. \A r \in Session : reader'[r].pc = "finalize" => reader[r].pc = "finalize"
    BY <1>3, <2>1 DEF ReaderType
  <2> QED BY <2>1, <2>2, <2>3, CaptureBegun
<1>5. CASE RfidRead(s) \/ RfidValidate(s) \/ RfidStore(s) \/ RfidComplete(s)
  <2>1. /\ UNCHANGED <<starter, owner, active, last, infer, ocr, jobs, vin, row,
                       processing, buf, stopping, plc, wd, st, fin>>
    BY <1>5 DEF RfidRead, RfidValidate, RfidStore, RfidComplete, ReaderStep
  <2>2. \A r \in Session : reader'[r].pc = "finalize" =>
                            reader[r].pc = "finalize" \/ vin[r] # NoVin
    <3>1. CASE RfidRead(s)
      BY <1>3, <3>1 DEF RfidRead
    <3>2. CASE RfidValidate(s) \/ RfidStore(s)
      BY <1>3, <3>2 DEF RfidValidate, RfidStore, ReaderStep, ReaderType
    <3>3. CASE RfidComplete(s)
      BY <1>3, <3>3 DEF RfidComplete, ReaderStep, CompleteNow, ReaderType
    <3> QED BY <1>5, <3>1, <3>2, <3>3
  <2> QED BY <1>1, <2>1, <2>2, Dimming
<1> QED BY <1>4, <1>5 DEF Reader

(* A finalizer stops the pipeline it owns, then reads and writes the VIN of *)
(* its session.                                                            *)
LEMMA CaptureFinish ==
  ASSUME IInv, CaptureInv, DarkBefore', NEW s \in Session,
         FinStop(s) \/ FinPause(s) \/ FinReadVin(s) \/ FinStatus(s) \/ FinWrite(s)
  PROVE  CaptureInv'
<1> USE DEF procVars, triggerVars, factVars, sessionVars, ownerVars, camVars,
            ocrVars, rfidVars, shared, threads
<1>1. \A r \in Session : /\ row[r].vin \in {NoVin, r} /\ fin[r].vin \in {NoVin, r}
                         /\ vin[r] \in {NoVin, r}
  BY DEF CaptureInv, OwnVin
<1>2. /\ UNCHANGED <<starter, owner, active, last, infer, ocr, jobs, vin, st, wd,
                     stopping, plc, reader>>
      /\ (processing' => processing) /\ buf' \subseteq buf
      /\ fin[s].pc \notin {"none", "done"}
  BY DEF FinStop, FinPause, FinReadVin, FinStatus, FinWrite, FinUnchanged,
         StopProcessing
<1>3. /\ \A r \in Session \ {s} : fin'[r] = fin[r]
      /\ fin'[s].vin \in {NoVin, s}
      /\ fin[s].pc = "stop" /\ fin[s].owns => ~processing'
  <2>1. CASE FinStop(s)
    BY <1>1, <2>1, CoreTypes DEF FinStop, StopProcessing, IInv, FinType
  <2>2. CASE FinPause(s)
    BY <1>1, <2>2, CoreTypes DEF FinPause, IInv, FinType
  <2>3. CASE FinReadVin(s)
    BY <1>1, <2>3, CoreTypes DEF FinReadVin, IInv, FinType
  <2>4. CASE FinStatus(s)
    <3>1. PICK status : fin' = [fin EXCEPT ![s] =
            [fin[s] EXCEPT !.pc = "write", !.rfid = rfid[s], !.status = status]]
      BY <2>4 DEF FinStatus
    <3> QED BY <1>1, <2>4, <3>1, CoreTypes DEF IInv, FinType, FinStatus
  <2>5. CASE FinWrite(s)
    <3>1. \/ fin' = [fin EXCEPT ![s].pc = "commit"]
          \/ fin' = [fin EXCEPT ![s] = AfterFailedWrite(fin[s])]
      BY <2>5 DEF FinWrite
    <3>2. AfterFailedWrite(fin[s]).vin = fin[s].vin
      BY CoreTypes DEF AfterFailedWrite, IInv, FinType
    <3>3. [fin[s] EXCEPT !.pc = "commit"].vin = fin[s].vin
      BY CoreTypes DEF IInv, FinType
    <3>4. fin[s].pc = "write"
      BY <2>5 DEF FinWrite
    <3> QED BY <1>1, <3>1, <3>2, <3>3, <3>4, CoreTypes DEF IInv
  <2> QED BY <2>1, <2>2, <2>3, <2>4, <2>5
<1>4. \A r \in Session : row'[r].vin \in {NoVin, r}
  <2>1. CASE FinWrite(s)
    BY <1>1, <2>1, CoreTypes DEF FinWrite, IInv
  <2>2. CASE ~FinWrite(s)
    BY <1>1, <2>2 DEF FinStop, FinPause, FinReadVin, FinStatus
  <2> QED BY <2>1, <2>2
<1> QED BY <1>1, <1>2, <1>3, <1>4, Dimming

(* Nobody commits the session whose pipeline runs. *)
LEMMA CaptureCommit ==
  ASSUME IInv, OneAtATime, CaptureInv, DarkBefore', NEW s \in Session, FinCommit(s)
  PROVE  CaptureInv'
<1> USE DEF CaptureInv
<1>1. /\ UNCHANGED <<starter, last, infer, ocr, jobs, vin, row, wd, stopping, plc,
                     reader, processing, buf>>
      /\ fin[s].pc = "commit" /\ fin' = [fin EXCEPT ![s].pc = "done"]
      /\ st' = [st EXCEPT ![s] = fin[s].status]
      /\ active' = Without(active, s) /\ owner' = Without(owner, s)
  BY NobodyPops DEF FinCommit, FinUnchanged, camVars, procVars, rfidVars, threads,
     ocrVars, factVars
<1>2. /\ fin'[s].pc = "done" /\ fin'[s].vin = fin[s].vin
      /\ \A r \in Session \ {s} : fin'[r] = fin[r]
  BY <1>1, CoreTypes DEF IInv, FinType
<1>3. \A r \in Session : st[r] # "NONE" => st'[r] # "NONE"
  BY <1>1, CoreTypes DEF IInv, FinType, Terminal
<1>4. processing /\ stopping.pc = "no" => owner # s
  BY <1>1 DEF Running
<1>5. Opening'
  <2>1. \A r \in Session :
          stopping.pc = "no" /\ starter[r].pc \in BeforeCamera \ {"create"} =>
            owner' = r /\ fin'[r].pc = "none"
    BY <1>1, <1>2 DEF Opening, Without
  <2>2. \A r \in Session :
          starter[r].pc \in BeforeCamera \ {"create"} /\ owner' = None =>
            active' = None
    BY <1>1 DEF Opening, OneCapture, Without
  <2> QED BY <1>1, <2>1, <2>2 DEF Opening, Starting
<1>6. Deliveries'
  BY <1>1, <1>3 DEF Deliveries, IInv, TypeOK, OcrTypes, OcrType
<1>7. Running'
  <2>1. ASSUME processing', stopping'.pc = "no"
        PROVE  owner' = owner /\ owner # s /\ owner \in Session
    BY <1>1, <1>4, <2>1, CoreTypes, Sets DEF Running, Without, IInv
  <2>2. ASSUME processing', stopping'.pc = "no"
        PROVE  /\ owner' # None /\ fin'[owner] = fin[owner]
               /\ \/ fin[owner].pc = "none"
                  \/ fin[owner].pc = "stop" /\ fin[owner].owns
    BY <1>1, <1>2, <2>1, <2>2 DEF Running
  <2>3. processing' /\ owner' = None => active' = None
    BY <1>1 DEF Running, OneCapture, Without
  <2>4. infer'.pc \in {"pause", "owner", "release"} => ~processing'
    BY <1>1 DEF Running
  <2> QED BY <2>1, <2>2, <2>3, <2>4 DEF Running
<1>8. OneCapture'
  BY <1>1 DEF OneCapture, Seen, Without
<1>9. OwnJobs' /\ OwnVin'
  BY <1>1, <1>2 DEF OwnJobs, OwnCrops, OwnVin
<1> QED BY <1>5, <1>6, <1>7, <1>8, <1>9

(* A session is opened in the dark; its camera is started while it owns    *)
(* the capture and nobody closes it, and what the buffer still holds of    *)
(* earlier captures is discarded then.                                     *)
LEMMA CaptureStart ==
  ASSUME IInv, OneAtATime, CaptureInv, DarkBefore', NEW s \in Session, Start(s)
  PROVE  CaptureInv'
<1> USE DEF CaptureInv, procVars, triggerVars, factVars, sessionVars, ownerVars,
            camVars, ocrVars, rfidVars, shared, threads
<1>1. \A r \in Session \ {s} : starter[r].pc \in {"none", "done"}
  <2>1. Starting(s)
    BY DEF Start, StartCreate, StartInsert, StartMissed, StartRfid, StartCamera,
       StartWatchdog, Starting
  <2> QED BY <2>1 DEF IInv, OneStart, OneAtATime, Starting
<1>2. starter[s].pc \in BeforeCamera => Dark
  BY DEF DarkBefore
<1>3. CASE StartCreate(s)
  <2>1. /\ starter[s].pc = "create" /\ st' = [st EXCEPT ![s] = "ACTIVE"]
        /\ active' = s /\ owner' = s /\ last' = s
        /\ starter' = [starter EXCEPT ![s].pc = "insert"]
        /\ UNCHANGED <<infer, ocr, jobs, vin, row, fin, wd, stopping, plc, reader,
                       processing, buf>>
    BY <1>3 DEF StartCreate
  <2>2. Dark
    BY <1>2, <2>1 DEF BeforeCamera
  <2>3. fin[s].pc = "none"
    BY <2>1 DEF IInv, Progress
  <2>4. /\ starter'[s].pc = "insert"
        /\ \A r \in Session \ {s} : starter'[r] = starter[r]
    BY <2>1, CoreTypes DEF IInv, StarterType
  <2>5. Opening'
    BY <1>1, <2>1, <2>3, <2>4 DEF Opening, BeforeCamera, Starting
  <2>6. Deliveries'
    BY <2>1, <2>2 DEF Deliveries, Dark
  <2>7. Running' /\ OneCapture'
    BY <2>1, <2>2 DEF Running, OneCapture, Dark
  <2>8. OwnJobs' /\ OwnVin'
    BY <2>1 DEF OwnJobs, OwnCrops, OwnVin
  <2> QED BY <2>5, <2>6, <2>7, <2>8
<1>4. CASE StartInsert(s)
  <2>1. /\ starter[s].pc = "insert" /\ starter[s].by = "plc"
        /\ UNCHANGED <<st, owner, active, last, infer, ocr, jobs, vin, fin, wd,
                       stopping, plc, reader, processing, buf>>
    BY <1>4 DEF StartInsert, IInv, OneStart, OneAtATime, Starting
  <2>2. starter' = [starter EXCEPT ![s].pc = "rfid"]
    BY <1>4, <2>1 DEF StartInsert
  <2>3. /\ starter'[s].pc = "rfid"
        /\ \A r \in Session \ {s} : starter'[r] = starter[r]
    BY <2>2, CoreTypes DEF IInv, StarterType
  <2>4. Opening'
    BY <1>1, <2>1, <2>3 DEF Opening, BeforeCamera, Starting
  <2>5. Deliveries' /\ Running'
    BY <2>1 DEF Deliveries, Running
  <2>6. OneCapture' /\ OwnJobs'
    BY <2>1 DEF OneCapture, Seen, OwnJobs, OwnCrops
  <2>7. OwnVin'
    <3>1. \A r \in Session : row'[r].vin \in {row[r].vin, NoVin}
      BY <1>4, CoreTypes DEF StartInsert, Announced, PendingRow, NoRow, IInv
    <3> QED BY <2>1, <3>1 DEF OwnVin
  <2> QED BY <2>4, <2>5, <2>6, <2>7
<1>5. CASE StartMissed(s)
  BY <1>5 DEF StartMissed, Opening
<1>6. CASE StartRfid(s)
  <2>1. /\ starter[s].pc = "rfid" /\ starter' = [starter EXCEPT ![s].pc = "camera"]
        /\ UNCHANGED <<st, owner, active, last, infer, ocr, jobs, vin, row, fin,
                       wd, stopping, plc, processing, buf>>
    BY <1>6 DEF StartRfid
  <2>2. /\ starter'[s].pc = "camera"
        /\ \A r \in Session \ {s} : starter'[r] = starter[r]
    BY <2>1, CoreTypes DEF IInv, StarterType
  <2>3. \A r \in Session : reader'[r].pc = "finalize" => reader[r].pc = "finalize"
    BY <1>6 DEF StartRfid, IInv, TypeOK, RfidTypes, ReaderType
  <2>4. Opening'
    BY <1>1, <2>1, <2>2 DEF Opening, BeforeCamera, Starting
  <2>5. Deliveries' /\ Running'
    BY <2>1, <2>3 DEF Deliveries, Running
  <2>6. OneCapture' /\ OwnJobs' /\ OwnVin'
    BY <2>1 DEF OneCapture, Seen, OwnJobs, OwnCrops, OwnVin
  <2> QED BY <2>4, <2>5, <2>6
<1>7. CASE StartCamera(s)
  <2>1. /\ starter[s].pc = "camera" /\ starter' = [starter EXCEPT ![s].pc = "watchdog"]
        /\ UNCHANGED <<st, owner, active, last, infer, ocr, jobs, vin, row, fin,
                       wd, stopping, plc, reader>>
    BY <1>7 DEF StartCamera
  <2>2. Dark
    BY <1>2, <2>1 DEF BeforeCamera
  <2>3. UNCHANGED <<processing, buf>> \/ buf' = {}
    BY <1>7, <2>2 DEF StartCamera, StartProcessing, Dark
  <2>4. /\ starter'[s].pc = "watchdog"
        /\ \A r \in Session \ {s} : starter'[r] = starter[r]
    BY <2>1, CoreTypes DEF IInv, StarterType
  <2>5. Opening'
    BY <1>1, <2>1, <2>4 DEF Opening, BeforeCamera, Starting
  <2>6. Deliveries'
    BY <2>1 DEF Deliveries
  <2>7. stopping.pc = "no" => owner = s /\ fin[s].pc = "none" /\ s # None
    BY <2>1, Sets DEF Opening, BeforeCamera
  <2>8. owner = None => active = None
    BY <2>1 DEF Opening, BeforeCamera
  <2>9. Running'
    BY <2>1, <2>2, <2>7, <2>8 DEF Running, Dark
  <2>10. OneCapture'
    BY <2>1, <2>2, <2>3 DEF OneCapture, Seen, Dark
  <2>11. OwnJobs' /\ OwnVin'
    BY <2>1 DEF OwnJobs, OwnCrops, OwnVin
  <2> QED BY <2>5, <2>6, <2>9, <2>10, <2>11
<1>8. CASE StartWatchdog(s)
  <2>1. /\ starter' = [starter EXCEPT ![s].pc = "done"]
        /\ wd' = [wd EXCEPT ![s] = "waiting"]
        /\ UNCHANGED <<st, owner, active, last, infer, ocr, jobs, vin, row, fin,
                       stopping, plc, processing, buf, reader>>
    BY <1>8 DEF StartWatchdog
  <2>2. /\ starter'[s].pc = "done"
        /\ \A r \in Session \ {s} : starter'[r] = starter[r] /\ wd'[r] = wd[r]
    BY <2>1, CoreTypes DEF IInv, StarterType, TypeOK, WatchTypes
  <2>3. Opening'
    BY <1>1, <2>1, <2>2 DEF Opening, BeforeCamera, Starting
  <2>4. Deliveries' /\ Running'
    BY <2>1 DEF Deliveries, Running
  <2>5. OneCapture' /\ OwnJobs' /\ OwnVin'
    BY <2>1 DEF OneCapture, Seen, OwnJobs, OwnCrops, OwnVin
  <2> QED BY <2>3, <2>4, <2>5
<1> QED BY <1>3, <1>4, <1>5, <1>6, <1>7, <1>8 DEF Start

(* What the inference thread leaves alone, and what of the invariant that  *)
(* keeps.                                                                  *)
LEMMA InferLeaves ==
  ASSUME CaptureInv, InferThread, ~InferRelease
  PROVE  /\ UNCHANGED <<starter, owner, active, last, ocr, vin, row, fin, wd, st,
                        stopping, plc, reader>>
         /\ Opening' /\ Deliveries' /\ OwnVin'
<1>1. UNCHANGED <<starter, owner, active, last, ocr, vin, row, fin, wd, st,
                  stopping, plc, reader>>
  BY DEF InferThread, InferGrab, InferSkip, InferPlate, InferAbsent, InferSubmit,
         InferRefuse, InferEnqueue, InferStop, InferPause, InferOwner,
         InferUnchanged, InferQuiet, procVars, rfidVars
<1>2. Opening' /\ Deliveries' /\ OwnVin'
  BY <1>1 DEF CaptureInv, Opening, Starting, Deliveries, OwnVin
<1> QED BY <1>1, <1>2

(* A frame is taken for the session that owns the capture.                 *)
LEMMA CaptureFrames ==
  ASSUME IInv, CaptureInv, DarkBefore',
         InferGrab \/ InferSkip \/ InferPlate \/ InferAbsent
  PROVE  CaptureInv'
<1> USE DEF CaptureInv, camVars
<1>1. infer \in InferType
  BY DEF IInv, TypeOK, InferTypes
<1>2. /\ UNCHANGED <<starter, owner, active, last, ocr, vin, row, fin, wd, st,
                     stopping, plc, reader>>
      /\ Opening' /\ Deliveries' /\ OwnVin'
  BY InferLeaves DEF InferThread, InferGrab, InferSkip, InferPlate, InferAbsent,
     InferRelease
<1>3. UNCHANGED <<jobs, processing>> /\ (buf' = buf \/ InferPlate)
  BY DEF InferGrab, InferSkip, InferPlate, InferAbsent
<1>4. CASE InferGrab
  <2>1. /\ processing /\ infer'.pc = "frame" /\ infer'.taken = owner /\ buf' = buf
        /\ infer.pc = "idle"
    BY <1>4 DEF InferGrab, IdleInfer
  <2>2. Running'
    BY <1>2, <1>3, <2>1 DEF Running
  <2>3. Seen' = Seen \cup {owner}
    BY <2>1 DEF Seen
  <2>4. OneCapture'
    BY <1>2, <1>3, <2>1, <2>3 DEF OneCapture, Running
  <2>5. OwnJobs'
    BY <1>2, <1>3, <2>1 DEF OwnJobs, OwnCrops
  <2> QED BY <1>2, <2>2, <2>4, <2>5
<1>5. CASE InferSkip
  <2>1. infer'.pc = "idle" /\ buf' = buf /\ infer.pc = "frame"
    BY <1>5 DEF InferSkip, IdleInfer
  <2>2. Seen' \subseteq Seen
    BY <2>1 DEF Seen
  <2>3. Running' /\ OneCapture'
    BY <1>2, <1>3, <2>1, <2>2 DEF Running, OneCapture
  <2>4. OwnJobs'
    BY <1>2, <1>3, <2>1 DEF OwnJobs, OwnCrops
  <2> QED BY <1>2, <2>3, <2>4
<1>6. CASE InferPlate
  <2>1. /\ infer.pc = "frame" /\ buf' = buf \cup {infer.taken}
        /\ \/ infer'.pc = "idle"
           \/ infer'.pc = "submit" /\ infer'.crops = buf'
    <3> DEFINE seen == buf \cup {infer.taken}
               next == [infer EXCEPT !.pc = "submit", !.crops = seen]
    <3>1. /\ infer.pc = "frame" /\ buf' = seen
          /\ infer' = IdleInfer \/ infer' = next
      BY <1>6 DEF InferPlate
    <3>2. next.pc = "submit" /\ next.crops = seen
      BY <1>1 DEF InferType
    <3> HIDE DEF next
    <3> QED BY <3>1, <3>2 DEF IdleInfer
  <2>2. Seen' \subseteq Seen
    BY <2>1 DEF Seen
  <2>3. Running' /\ OneCapture'
    BY <1>2, <1>3, <2>1, <2>2 DEF Running, OneCapture
  <2>4. OwnJobs'
    BY <1>2, <1>3, <2>1 DEF OwnJobs, OwnCrops
  <2> QED BY <1>2, <2>3, <2>4
<1>7. CASE InferAbsent
  <2>1. /\ infer.pc = "frame" /\ buf' = buf
        /\ \/ infer'.pc = "stop"
           \/ infer'.pc = "submit" /\ infer'.crops = buf
    BY <1>1, <1>7 DEF InferAbsent, InferType
  <2>2. Seen' \subseteq Seen
    BY <2>1 DEF Seen
  <2>3. Running' /\ OneCapture'
    BY <1>2, <1>3, <2>1, <2>2 DEF Running, OneCapture
  <2>4. OwnJobs'
    BY <1>2, <1>3, <2>1 DEF OwnJobs, OwnCrops
  <2> QED BY <1>2, <2>3, <2>4
<1> QED BY <1>4, <1>5, <1>6, <1>7

(* The crops that are submitted to a session are of its capture. *)
LEMMA CaptureSubmit ==
  ASSUME IInv, CaptureInv, DarkBefore', InferSubmit \/ InferRefuse \/ InferEnqueue
  PROVE  CaptureInv'
<1> USE DEF CaptureInv, camVars
<1>1. infer \in InferType /\ jobs \in Seq(JobType)
  BY DEF IInv, TypeOK, InferTypes, OcrTypes
<1>2. /\ UNCHANGED <<starter, owner, active, last, ocr, vin, row, fin, wd, st,
                     stopping, plc, reader>>
      /\ Opening' /\ Deliveries' /\ OwnVin'
  BY InferLeaves DEF InferThread, InferSubmit, InferRefuse, InferEnqueue,
     InferRelease
<1>3. UNCHANGED <<processing, buf>>
  BY DEF InferSubmit, InferRefuse, InferEnqueue
<1>4. infer.pc \in {"submit", "enqueue"} => AfterSubmit.pc \in {"stop", "idle"}
  BY <1>1 DEF AfterSubmit, IdleInfer, InferType
<1>5. CASE InferSubmit
  <2>1. /\ infer.pc = "submit" /\ infer'.pc = "enqueue" /\ infer'.sid = CropOwner
        /\ infer'.crops = infer.crops /\ jobs' = jobs
    BY <1>1, <1>5 DEF InferSubmit, InferType
  <2>2. Seen' \subseteq Seen
    BY <1>3, <2>1 DEF Seen
  <2>3. Running' /\ OneCapture'
    BY <1>2, <1>3, <2>1, <2>2 DEF Running, OneCapture
  <2>4. infer.crops \subseteq Seen
    BY <2>1 DEF Seen
  <2>5. OwnCrops(CropOwner, infer.crops)
    BY <2>1, <2>4 DEF OneCapture, OwnCrops, CropOwner
  <2>6. OwnJobs'
    BY <1>2, <2>1, <2>5 DEF OwnJobs, OwnCrops
  <2> QED BY <1>2, <2>3, <2>6
<1>6. CASE InferRefuse
  <2>1. infer.pc = "submit" /\ infer'.pc \in {"stop", "idle"} /\ jobs' = jobs
    BY <1>4, <1>6 DEF InferRefuse
  <2>2. Seen' \subseteq Seen
    BY <1>3, <2>1 DEF Seen
  <2>3. Running' /\ OneCapture'
    BY <1>2, <1>3, <2>1, <2>2 DEF Running, OneCapture
  <2>4. OwnJobs'
    BY <1>2, <2>1 DEF OwnJobs, OwnCrops
  <2> QED BY <1>2, <2>3, <2>4
<1>7. CASE InferEnqueue
  <2> DEFINE job == [sid |-> infer.sid, of |-> infer.crops]
  <2>1. /\ infer.pc = "enqueue" /\ infer'.pc \in {"stop", "idle"}
        /\ jobs' = jobs \/ jobs' = Append(jobs, job)
    BY <1>4, <1>7 DEF InferEnqueue
  <2>2. Seen' \subseteq Seen
    BY <1>3, <2>1 DEF Seen
  <2>3. Running' /\ OneCapture'
    BY <1>2, <1>3, <2>1, <2>2 DEF Running, OneCapture
  <2>4. \A i \in DOMAIN jobs' : OwnCrops(jobs'[i].sid, jobs'[i].of)
    <3>1. CASE jobs' = jobs
      BY <3>1 DEF OwnJobs
    <3>2. CASE jobs' = Append(jobs, job)
      <4>1. OwnCrops(job.sid, job.of)
        BY <2>1 DEF OwnJobs
      <4>2. \A i \in DOMAIN jobs' :
              jobs'[i] = job \/ (i \in DOMAIN jobs /\ jobs'[i] = jobs[i])
        BY <1>1, <3>2
      <4> QED BY <4>1, <4>2 DEF OwnJobs
    <3> QED BY <2>1, <3>1, <3>2
  <2>5. OwnJobs'
    BY <1>2, <2>1, <2>4 DEF OwnJobs, OwnCrops
  <2> QED BY <1>2, <2>3, <2>5
<1> QED BY <1>5, <1>6, <1>7

(* The plate has left: the pipeline is stopped before the capture is       *)
(* released.                                                               *)
LEMMA CapturePlateExit ==
  ASSUME IInv, OneAtATime, CaptureInv, DarkBefore',
         InferStop \/ InferPause \/ InferOwner \/ InferRelease
  PROVE  CaptureInv'
<1> USE DEF CaptureInv, camVars
<1>1. infer \in InferType
  BY DEF IInv, TypeOK, InferTypes
<1>2. CASE InferStop \/ InferPause \/ InferOwner
  <2>1. /\ UNCHANGED <<starter, owner, active, last, ocr, vin, row, fin, wd, st,
                       stopping, plc, reader>>
        /\ Opening' /\ Deliveries' /\ OwnVin'
    BY <1>2, InferLeaves DEF InferThread, InferStop, InferPause, InferOwner,
       InferRelease
  <2>2. /\ infer'.pc \in {"idle", "pause", "owner", "release"} /\ jobs' = jobs
        /\ infer.pc # "idle" /\ ~processing' /\ buf' \subseteq buf
    <3>1. CASE InferStop
      BY <1>1, <3>1 DEF InferStop, StopProcessing, InferType
    <3>2. CASE InferPause
      BY <1>1, <3>2 DEF InferPause, Running, InferType
    <3>3. CASE InferOwner
      BY <1>1, <3>3 DEF InferOwner, IdleInfer, Running, InferType
    <3> QED BY <1>2, <3>1, <3>2, <3>3
  <2>3. Seen' \subseteq Seen
    BY <2>2 DEF Seen
  <2>4. Running' /\ OneCapture'
    BY <2>1, <2>2, <2>3 DEF Running, OneCapture
  <2>5. OwnJobs'
    BY <2>1, <2>2 DEF OwnJobs, OwnCrops
  <2> QED BY <2>1, <2>4, <2>5
<1>3. CASE InferRelease
  <2>1. /\ UNCHANGED <<starter, active, last, ocr, jobs, vin, row, fin, wd, stopping,
                       plc, reader, processing, buf>>
        /\ infer.pc = "release" /\ infer'.pc = "idle" /\ owner' \in {owner, None}
    BY <1>3, NobodyPops DEF InferRelease, InferUnchanged, InferQuiet, IdleInfer,
       procVars, rfidVars
  <2>2. ~processing
    BY <2>1 DEF Running
  <2>3. \A r \in Session : starter[r].pc \notin BeforeCamera
    BY <2>1 DEF DarkBefore, Dark
  <2>4. \A r \in Session : st[r] # "NONE" => st'[r] # "NONE"
    BY <1>3, CoreTypes DEF InferRelease, InferQuiet, Released, IInv
  <2>5. Opening'
    BY <2>1, <2>3 DEF Opening, Starting
  <2>6. Deliveries'
    BY <2>1, <2>4 DEF Deliveries, IInv, TypeOK, OcrTypes, OcrType
  <2>7. Running' /\ OneCapture'
    BY <2>1, <2>2 DEF Running, OneCapture
  <2>8. OwnJobs' /\ OwnVin'
    BY <2>1 DEF OwnJobs, OwnCrops, OwnVin
  <2> QED BY <2>5, <2>6, <2>7, <2>8
<1> QED BY <1>2, <1>3

(* A VIN read for a session is that session's own, and it reaches a session *)
(* that was opened.                                                        *)
LEMMA CaptureOcr ==
  ASSUME IInv, CaptureInv, DarkBefore', OcrThread
  PROVE  CaptureInv'
<1> USE DEF CaptureInv, procVars, rfidVars, ownerVars
<1>1. /\ ocr \in OcrType /\ jobs \in Seq(JobType) /\ vin \in [Session -> VinType]
  BY DEF IInv, TypeOK, OcrTypes, SessionTypes
<1>2. UNCHANGED <<starter, owner, active, last, infer, row, wd, stopping, plc,
                  reader, processing, buf>>
  BY DEF OcrThread, OcrTake, OcrReadVin, OcrValidate, OcrSignal, OcrStore,
         OcrManualRecord, OcrComplete, OcrFinalize, OcrFail, OcrUnlock,
         OcrUnchanged
<1>3. OneCapture'
  BY <1>2 DEF OneCapture, Seen
<1>4. ASSUME UNCHANGED <<st, vin, fin>>
      PROVE  /\ Opening' /\ Running' /\ OwnVin'
             /\ \A s \in Session : reader'[s].pc = "finalize" => vin'[s] # NoVin
  BY <1>2, <1>4 DEF Opening, Starting, Running, OwnVin, Deliveries
<1>5. IdleOcr.pc = "idle" /\ IdleOcr.sid = None /\ OwnCrops(IdleOcr.sid, IdleOcr.of)
  BY DEF IdleOcr, OwnCrops
<1>6. CASE OcrTake
  <2>1. /\ ocr'.pc = "read" /\ ocr'.sid = jobs[1].sid /\ ocr'.of = jobs[1].of
        /\ 1 \in DOMAIN jobs /\ jobs' = Tail(jobs) /\ UNCHANGED <<st, vin, fin>>
    BY <1>1, <1>6 DEF OcrTake, IdleOcr
  <2>2. \A i \in DOMAIN jobs' : i + 1 \in DOMAIN jobs /\ jobs'[i] = jobs[i + 1]
    BY <1>1, <2>1
  <2>3. OwnJobs'
    BY <1>2, <2>1, <2>2 DEF OwnJobs, OwnCrops
  <2> QED BY <1>2, <1>3, <1>4, <2>1, <2>3 DEF Deliveries
<1>7. CASE OcrReadVin
  <2>1. /\ UNCHANGED <<jobs, st, vin, fin>>
        /\ \/ ocr' = IdleOcr
           \/ /\ ocr'.pc = "validate" /\ ocr'.vin \in ocr.of
              /\ ocr'.sid = ocr.sid /\ ocr'.of = ocr.of
    BY <1>1, <1>7 DEF OcrReadVin, OcrType
  <2>2. OwnJobs'
    BY <1>2, <1>5, <2>1 DEF OwnJobs, OwnCrops
  <2> QED BY <1>2, <1>3, <1>4, <1>5, <2>1, <2>2 DEF Deliveries
<1>8. CASE OcrValidate
  <2>1. /\ UNCHANGED <<jobs, st, vin, fin>> /\ ocr.pc = "validate"
        /\ ocr'.pc = "signal" /\ ocr'.ok = (ocr.sid # None /\ Accepts(ocr.sid))
        /\ ocr'.vin = ocr.vin /\ ocr'.sid = ocr.sid /\ ocr'.of = ocr.of
    BY <1>1, <1>8 DEF OcrValidate, OcrType
  <2>2. OwnJobs'
    BY <1>2, <2>1 DEF OwnJobs, OwnCrops
  <2>3. ocr'.ok => st'[ocr'.sid] # "NONE"
    BY <2>1 DEF Accepts
  <2> QED BY <1>2, <1>3, <1>4, <2>1, <2>2, <2>3 DEF Deliveries
<1>9. CASE OcrSignal
  <2>1. /\ UNCHANGED <<jobs, st, vin, fin>> /\ ocr.pc = "signal"
        /\ ocr'.pc \in {"store", "manual", "idle"} /\ (ocr'.pc = "store" => ocr.ok)
        /\ \/ ocr' = IdleOcr
           \/ ocr'.vin = ocr.vin /\ ocr'.sid = ocr.sid /\ ocr'.of = ocr.of
    BY <1>1, <1>9 DEF OcrSignal, OcrType, IdleOcr
  <2>2. OwnJobs'
    BY <1>2, <1>5, <2>1 DEF OwnJobs, OwnCrops
  <2>3. ocr'.pc = "store" => st'[ocr'.sid] # "NONE"
    BY <1>5, <2>1 DEF Deliveries
  <2> QED BY <1>2, <1>3, <1>4, <2>1, <2>2, <2>3 DEF Deliveries
<1>10. CASE OcrStore
  <2>1. /\ UNCHANGED <<jobs, st, fin>> /\ ocr.pc = "store" /\ ocr.sid \in Session
        /\ ocr'.pc \in {"complete", "idle"}
        /\ \/ ocr' = IdleOcr
           \/ ocr'.vin = ocr.vin /\ ocr'.sid = ocr.sid /\ ocr'.of = ocr.of
    BY <1>1, <1>10 DEF OcrStore, OcrType, IdleOcr
  <2>2. vin' = vin \/ vin' = [vin EXCEPT ![ocr.sid] = ocr.vin]
    BY <1>10 DEF OcrStore
  <2>3. ocr.vin = ocr.sid
    BY <2>1, Sets DEF OwnJobs, OwnCrops
  <2>4. \A s \in Session :
          vin'[s] = vin[s] \/ (s = ocr.sid /\ vin'[s] = s /\ s # NoVin)
    BY <1>1, <2>1, <2>2, <2>3, Sets DEF NoVin
  <2>5. OwnVin'
    BY <1>2, <2>1, <2>4 DEF OwnVin
  <2>6. starter[ocr.sid].pc \notin {"none"} \cup BeforeCamera
    BY <2>1 DEF DarkBefore, Dark, Deliveries, IInv, Progress
  <2>7. Opening'
    BY <1>2, <2>1, <2>4, <2>6 DEF Opening, Starting
  <2>8. Deliveries'
    BY <1>2, <1>5, <2>1, <2>4 DEF Deliveries
  <2>9. Running'
    BY <1>2, <2>1 DEF Running
  <2>10. OwnJobs'
    BY <1>2, <1>5, <2>1 DEF OwnJobs, OwnCrops
  <2> QED BY <1>3, <2>5, <2>7, <2>8, <2>9, <2>10
<1>11. CASE OcrManualRecord \/ OcrComplete \/ OcrFail \/ OcrUnlock
  <2>1. /\ UNCHANGED <<jobs, st, vin, fin>>
        /\ ocr'.pc \in {"idle", "finalize", "unlock"}
        /\ \/ ocr' = IdleOcr
           \/ ocr'.vin = ocr.vin /\ ocr'.sid = ocr.sid /\ ocr'.of = ocr.of
    <3>1. CASE OcrManualRecord \/ OcrUnlock
      BY <1>5, <3>1 DEF OcrManualRecord, OcrUnlock
    <3>2. CASE OcrComplete
      BY <1>1, <1>5, <3>2 DEF OcrComplete, OcrType
    <3>3. CASE OcrFail
      <4>1. /\ UNCHANGED <<jobs, st, vin, fin>>
            /\ \/ ocr' = IdleOcr
               \/ ocr' = [ocr EXCEPT !.pc = "finalize"]
               \/ ocr' = [ocr EXCEPT !.pc = "unlock"]
        BY <3>3 DEF OcrFail
      <4> QED BY <1>1, <1>5, <4>1 DEF OcrType
    <3> QED BY <1>11, <3>1, <3>2, <3>3
  <2>2. OwnJobs'
    BY <1>2, <1>5, <2>1 DEF OwnJobs, OwnCrops
  <2> QED BY <1>2, <1>3, <1>4, <2>1, <2>2 DEF Deliveries
<1>12. CASE OcrFinalize
  <2>1. /\ UNCHANGED <<jobs, vin>> /\ ocr.pc = "finalize" /\ ocr' = IdleOcr
        /\ ocr.sid \in Session /\ BeginFinalize(ocr.sid, "ocr", "none", FALSE)
    BY <1>1, <1>12 DEF OcrFinalize, OcrType
  <2>2. /\ \A r \in Session \ {ocr.sid} : fin'[r] = fin[r]
        /\ \/ fin'[ocr.sid] = fin[ocr.sid]
           \/ /\ fin[ocr.sid].pc = "none" /\ fin'[ocr.sid].pc = "stop"
              /\ (owner = ocr.sid => fin'[ocr.sid].owns)
              /\ fin'[ocr.sid].vin = NoVin
    BY <2>1, BegunFin
  <2>3. \A r \in Session : starter[r].pc \notin BeforeCamera
    BY <2>1 DEF DarkBefore, Dark
  <2>4. Opening'
    BY <1>2, <2>1, <2>3 DEF Opening, Starting
  <2>5. Deliveries'
    BY <1>2, <1>5, <2>1 DEF Deliveries
  <2>6. Running'
    <3>1. ASSUME processing', stopping'.pc = "no"
          PROVE  /\ owner # None
                 /\ \/ fin'[owner].pc = "none"
                    \/ fin'[owner].pc = "stop" /\ fin'[owner].owns
      <4>1. /\ owner \in Session /\ owner # None
            /\ \/ fin[owner].pc = "none"
               \/ fin[owner].pc = "stop" /\ fin[owner].owns
        BY <1>2, <3>1, CoreTypes, Sets DEF Running, IInv
      <4>2. CASE fin'[owner] = fin[owner]
        BY <4>1, <4>2
      <4>3. CASE fin'[owner] # fin[owner]
        BY <2>2, <4>1, <4>3
      <4> QED BY <4>2, <4>3
    <3> QED BY <1>2, <3>1 DEF Running
  <2>7. OwnJobs'
    BY <1>2, <1>5, <2>1 DEF OwnJobs, OwnCrops
  <2>8. OwnVin'
    BY <1>2, <2>1, <2>2 DEF OwnVin
  <2> QED BY <1>3, <2>4, <2>5, <2>6, <2>7, <2>8
<1> QED BY <1>6, <1>7, <1>8, <1>9, <1>10, <1>11, <1>12 DEF OcrThread

(* The process begins to stop, ends and comes back. *)
LEMMA CaptureProcess ==
  ASSUME IInv, CaptureInv, DarkBefore',
         \/ ShutdownBegin \/ ShutdownStop \/ Restart \/ IntervalElapses
         \/ UNCHANGED vars
         \/ \E s \in Session : ShutdownCancel(s)
  PROVE  CaptureInv'
<1> USE DEF procVars, triggerVars, factVars, sessionVars, ownerVars, camVars,
            ocrVars, rfidVars, shared, threads
<1>1. \A r \in Session : row[r].vin \in {NoVin, r} /\ fin[r].vin \in {NoVin, r}
  BY DEF CaptureInv, OwnVin
<1>2. CASE ShutdownBegin
  <2>1. stopping'.pc # "no"
    BY <1>2 DEF ShutdownBegin
  <2> QED BY <1>1, <1>2, <2>1, Dimming DEF ShutdownBegin
<1>3. CASE ShutdownStop
  <2>1. stopping'.pc # "no"
    BY <1>3 DEF ShutdownStop, IInv, TypeOK, ProcTypes
  <2> QED BY <1>1, <1>3, <2>1, Dimming DEF ShutdownStop, StopProcessing
<1>4. CASE Restart
  <2>1. \A r \in Session : row'[r].vin = row[r].vin
    BY <1>4, CoreTypes DEF Restart, Recovered, IInv, RowType
  <2> QED BY <1>1, <1>4, <2>1, Dimming DEF Restart
<1>5. CASE IntervalElapses \/ UNCHANGED vars
  BY <1>1, <1>5, Dimming DEF IntervalElapses, vars
<1>6. ASSUME NEW s \in Session, ShutdownCancel(s) PROVE CaptureInv'
  <2>1. stopping'.pc # "no" /\ BeginFinalize(s, "shutdown", "CANCELLED", TRUE)
    BY <1>6 DEF ShutdownCancel, IInv, TypeOK, ProcTypes
  <2> QED BY <1>6, <2>1, CaptureBegun DEF ShutdownCancel
<1> QED BY <1>2, <1>3, <1>4, <1>5, <1>6

(* A process that ends leaves the rows and nothing else. *)
LEMMA CaptureGone ==
  ASSUME IInv, CaptureInv, ProcessGone
  PROVE  CaptureInv'
<1> USE DEF ProcessGone
<1>1. /\ IdleInfer.pc = "idle" /\ IdleOcr.pc = "idle" /\ IdleOcr.sid = None
      /\ NoStarter.pc = "none" /\ NoFin.pc = "none" /\ NoFin.vin = NoVin
      /\ NoReader.pc = "none" /\ IdlePlc.pc = "idle"
  BY DEF IdleInfer, IdleOcr, NoStarter, NoFin, NoReader, IdlePlc
<1>2. DarkBefore'
  BY <1>1 DEF DarkBefore, Dark, BeforeCamera, Starting
<1>3. Opening'
  BY <1>1 DEF Opening, BeforeCamera, Starting
<1>4. Deliveries' /\ Running'
  BY <1>1 DEF Deliveries, Running
<1>5. OneCapture' /\ OwnJobs'
  BY <1>1 DEF OneCapture, OwnJobs, OwnCrops
<1>6. OwnVin'
  BY <1>1 DEF CaptureInv, OwnVin
<1> QED BY <1>2, <1>3, <1>4, <1>5, <1>6 DEF CaptureInv

-----------------------------------------------------------------------------
(* The theorems. *)

(* The invariant holds when the process starts. *)
LEMMA CaptureInit == Init => CaptureInv
<1> SUFFICES ASSUME Init PROVE CaptureInv
  OBVIOUS
<1> USE DEF Init, Boot
<1>1. /\ IdleInfer.pc = "idle" /\ IdleOcr.pc = "idle" /\ IdleOcr.sid = None
      /\ NoStarter.pc = "none" /\ NoFin.pc = "none" /\ NoFin.vin = NoVin
      /\ NoReader.pc = "none" /\ IdlePlc.pc = "idle" /\ NoRow.vin = NoVin
  BY DEF IdleInfer, IdleOcr, NoStarter, NoFin, NoReader, IdlePlc, NoRow
<1>2. DarkBefore
  BY <1>1 DEF DarkBefore, Dark, BeforeCamera, Starting
<1>3. Opening
  BY <1>1 DEF Opening, BeforeCamera, Starting
<1>4. Deliveries /\ Running
  BY <1>1 DEF Deliveries, Running
<1>5. OneCapture /\ OwnJobs
  BY <1>1 DEF OneCapture, OwnJobs, OwnCrops
<1>6. OwnVin
  BY <1>1 DEF OwnVin
<1> QED BY <1>2, <1>3, <1>4, <1>5, <1>6 DEF CaptureInv

(* Every step keeps it. *)
LEMMA CaptureStep ==
  ASSUME IInv, OneAtATime, CaptureInv, [Next]_vars PROVE CaptureInv'
<1>1. CASE ProcessGone
  BY <1>1, CaptureGone
<1>2. CASE ~ProcessGone
  <2>1. DarkBefore'
    BY <1>2, DarkBeforeKept
  <2>2. CASE PlcThread
    BY <2>1, <2>2, CapturePlcOn, CapturePlcOff DEF PlcThread
  <2>3. CASE OcrThread
    BY <2>1, <2>3, CaptureOcr
  <2>4. CASE InferThread
    BY <2>1, <2>4, CaptureFrames, CaptureSubmit, CapturePlateExit DEF InferThread
  <2>5. CASE Process \/ IntervalElapses \/ UNCHANGED vars
    BY <1>2, <2>1, <2>5, CaptureProcess DEF Process, ShutdownExit, Crash
  <2>6. ASSUME NEW s \in Session,
               \/ Start(s) \/ Watch(s) \/ Finish(s) \/ Search(s) \/ Reader(s)
               \/ DeadlinePasses(s) \/ ShutdownCancel(s)
        PROVE  CaptureInv'
    <3>1. CASE Start(s) \/ Watch(s) \/ Search(s) \/ DeadlinePasses(s)
      BY <2>1, <3>1, CaptureStart, CaptureWatch
    <3>2. CASE Finish(s)
      BY <2>1, <3>2, CaptureFinish, CaptureCommit DEF Finish
    <3>3. CASE Reader(s) \/ ShutdownCancel(s)
      BY <2>1, <3>3, CaptureReader, CaptureProcess
    <3> QED BY <2>6, <3>1, <3>2, <3>3
  <2> QED BY <2>2, <2>3, <2>4, <2>5, <2>6 DEF Next
<1> QED BY <1>1, <1>2

(* With one body at a time the invariant holds. *)
THEOREM OneCaptureInvariance == Spec => [](OneAtATime => CaptureInv)
<1>1. Init => (OneAtATime => CaptureInv)
  BY CaptureInit
<1>2. IInv /\ (OneAtATime => CaptureInv) /\ [Next]_vars => (OneAtATime => CaptureInv)'
  BY CaptureStep DEF OneAtATime
<1> QED BY <1>1, <1>2, Invariance, PTL DEF Spec

(* The VIN of a record was read from frames taken while its session owned  *)
(* the capture, whatever crops, OCR jobs and finalizers were in flight.    *)
THEOREM RecordsOwnCapture == Spec => [](OneAtATime => RecordIsFromItsCapture)
<1>1. (OneAtATime => CaptureInv) => (OneAtATime => RecordIsFromItsCapture)
  BY DEF CaptureInv, OwnVin, RecordIsFromItsCapture
<1> QED BY <1>1, OneCaptureInvariance, PTL

(* When the minimum body interval is over, the camera pipeline is off. *)
THEOREM CameraOff == Spec => [](OneAtATime => CameraOffBetweenBodies)
<1>1. IInv /\ (OneAtATime => CaptureInv) => (OneAtATime => CameraOffBetweenBodies)
  BY OffWhenQuiescent DEF CaptureInv, CameraOffBetweenBodies
<1> QED BY <1>1, OneCaptureInvariance, Invariance, PTL
=============================================================================
