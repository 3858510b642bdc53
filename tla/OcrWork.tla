------------------------------- MODULE OcrWork -------------------------------
(***************************************************************************)
(* OCRWorker (ai/ocr_worker.py): the queue of jobs, the thread that reads  *)
(* one job at a time in up to three batches of image variants, the         *)
(* decision, the callbacks; and around it what decides that a job is sent: *)
(* Pipeline._submit_ocr_frames with the plate lock and OCRRetryGuard.      *)
(*                                                                         *)
(* A session is the number of its body. A read is the VIN it spells; one   *)
(* that has not 17 characters counts for nothing here. VinFusion says what *)
(* fuse() makes of reads; here it is any verdict that VinFusion allows.    *)
(***************************************************************************)
EXTENDS Naturals, Sequences, FiniteSets

CONSTANTS
  Jobs,         \* bound: jobs submitted
  Bodies,       \* bound: body cycles
  QueueMax,     \* ocr.queue_maxsize
  MaxAttempts,  \* detection.ocr_session_max_triggers
  Vins,         \* what a plate can spell
  Profiles      \* settings: "production" is settings.yaml; the others read
                \* without detection first and have the slot recognizer in
                \* the mode of that name, and verify position 5

ASSUME WorkConstants ==
  /\ Jobs \in Nat /\ Bodies \in Nat \ {0} /\ QueueMax \in Nat \ {0}
  /\ MaxAttempts \in Nat
  /\ Profiles \subseteq {"production", "shadow", "assist", "enforce"}

Job == 1 .. Jobs
Body == 1 .. Bodies
NoVin == "none"
Fault == {"error", "timeout", "unavailable"}   \* a crash counts as an error

VARIABLES
  set,       \* settings of the run, chosen at the start
  body,      \* the session that owns the capture, 0 before the first
  plate,     \* is its plate in view
  sub,       \* _submit_ocr_frames: where it is, and its job
  sent,      \* jobs submitted
  of,        \* the session of a job
  attempts,  \* _ocr_attempts
  locked,    \* _plate_locked
  inflight,  \* _ocr_inflight_session
  waits,     \* the in-flight event of a session is clear
  got,       \* session.vin
  guard,     \* OCRRetryGuard._states
  queue,     \* OCRWorker._queue
  enabled,   \* OCRWorker._enabled
  running,   \* OCRWorker._running
  dropped,   \* OCRWorker._dropped
  wk,        \* the worker thread: where it is, and its job
  ev,        \* what the batches of that job read
  last,      \* _last_vin, _last_vin_session
  said,      \* history: the VIN a job was decided with
  pool,      \* the process pool: made or not, circuit open or not
  fate,      \* what became of a job
  told,      \* the callbacks made for a job
  stopping   \* shutdown()

gate == <<body, plate, sub, sent, of, attempts, locked, inflight, waits, got, guard>>
line == <<queue, enabled, running, dropped>>
decided == <<last, said>>
vars == <<set, gate, line, wk, ev, decided, pool, fate, told, stopping>>

NoEvidence == [reads |-> {}, sure |-> NoVin]
NoJob(pc) == [pc |-> pc, job |-> 0, vin |-> NoVin]
Unseen == [sig |-> 0, quality |-> 0, over |-> FALSE]
Over == [Unseen EXCEPT !.over = TRUE]      \* what was seen is of no use then

Init ==
  /\ set \in [profile : Profiles, overlap : BOOLEAN]
  /\ body = 0 /\ plate = FALSE /\ sub = [pc |-> "idle", job |-> 0]
  /\ sent = 0 /\ of = [j \in Job |-> 0] /\ attempts = 0 /\ locked = FALSE
  /\ inflight = 0 /\ waits = [s \in Body |-> FALSE]
  /\ got = [s \in Body |-> NoVin] /\ guard = [s \in Body |-> Unseen]
  /\ queue = << >> /\ enabled = TRUE /\ running = FALSE /\ dropped = 0
  /\ wk = NoJob("off") /\ ev = NoEvidence
  /\ last = [vin |-> NoVin, body |-> 0] /\ said = [j \in Job |-> NoVin]
  /\ pool = [made |-> FALSE, circuit |-> FALSE]
  /\ fate = [j \in Job |-> "none"] /\ told = [j \in Job |-> << >>]
  /\ stopping = "no"

(***************************************************************************)
(* The pipeline: a body arrives, its plate is seen, and leaves.            *)
(***************************************************************************)
(* _ensure_pool: the pool there is, or a new one, or an exception          *)
EnsurePool == IF pool.made THEN {pool}
              ELSE {[made |-> TRUE, circuit |-> FALSE], pool}

(* warmup_models at the start of the server: a preload that fails opens the *)
(* circuit; without a GPU the server goes on all the same.                 *)
Preload ==
  /\ body = 0 /\ stopping = "no" /\ ~pool.made
  /\ pool' \in [made : {TRUE}, circuit : BOOLEAN]
  /\ UNCHANGED <<set, gate, line, wk, ev, decided, fate, told, stopping>>

OnItsWay(j) == fate[j] \in {"sending", "queued", "reading"}

(* _start_session and start_processing with OCRWorker.start. Without       *)
(* overlap the minimum interval (90 s) outlasts every job.                 *)
StartBody ==
  /\ body < Bodies /\ ~plate /\ sub.pc = "idle" /\ stopping = "no"
  /\ set.overlap \/ (wk.pc \in {"off", "ready"} /\ \A j \in Job : ~OnItsWay(j))
  /\ body' = body + 1 /\ plate' = TRUE
  /\ attempts' = 0 /\ locked' = FALSE /\ inflight' = 0
  /\ enabled' = TRUE
  /\ pool' \in EnsurePool
  /\ IF wk.pc = "off" THEN running' = TRUE /\ wk' = [wk EXCEPT !.pc = "start"]
                      ELSE UNCHANGED <<running, wk>>
  /\ UNCHANGED <<set, sub, sent, of, waits, got, guard, queue, dropped, ev, decided,
                 fate, told, stopping>>

(* Plate exit: _reset_event, stop_processing, _release_capture, which      *)
(* tells the guard that the plate has gone.                                *)
PlateLeaves ==
  /\ plate /\ sub.pc = "idle"
  /\ plate' = FALSE /\ locked' = FALSE /\ enabled' = FALSE
  /\ guard' = [guard EXCEPT ![body] = Over]
  /\ UNCHANGED <<set, body, sub, sent, of, attempts, inflight, waits, got, queue,
                 running, dropped, wk, ev, decided, pool, fate, told, stopping>>

(* OCRWorker.stop from another thread, or the operator's switch: the       *)
(* queue is kept                                                           *)
Pause ==
  /\ enabled /\ plate
  /\ enabled' = FALSE
  /\ UNCHANGED <<set, gate, queue, running, dropped, wk, ev, decided, pool, fate,
                 told, stopping>>

(***************************************************************************)
(* OCRRetryGuard.evaluate and _submit_ocr_frames.                          *)
(***************************************************************************)
AllowsResurrected(s, sig, quality) ==   \* mutant: new evidence before the reason
  \/ sig # guard[s].sig
  \/ ~guard[s].over /\ quality > guard[s].quality

(* New evidence, or the same with a better picture                         *)
Allows(s, sig, quality) ==
  ~guard[s].over /\ (sig # guard[s].sig \/ quality > guard[s].quality)

(* Too little time is left: the session gets no further attempt.           *)
BudgetIsShort ==
  /\ plate /\ sub.pc = "idle" /\ ~locked /\ ~guard[body].over
  /\ guard' = [guard EXCEPT ![body] = Over]
  /\ UNCHANGED <<set, body, plate, sub, sent, of, attempts, locked, inflight, waits,
                 got, line, wk, ev, decided, pool, fate, told, stopping>>

(* The section under _session_lock; the number of the job is the next one. *)
Admit ==
  /\ plate /\ sub.pc = "idle" /\ ~locked /\ sent < Jobs
  /\ attempts < MaxAttempts /\ got[body] = NoVin
  /\ \E sig, quality \in 1 .. 2 :
       /\ Allows(body, sig, quality)
       /\ guard' = [guard EXCEPT ![body].sig = sig, ![body].quality = quality]
  /\ attempts' = attempts + 1 /\ sent' = sent + 1
  /\ of' = [of EXCEPT ![sent + 1] = body]
  /\ fate' = [fate EXCEPT ![sent + 1] = "sending"]
  /\ inflight' = body /\ waits' = [waits EXCEPT ![body] = TRUE]
  /\ sub' = [pc |-> "put", job |-> sent + 1]
  /\ UNCHANGED <<set, body, plate, locked, got, line, wk, ev, decided, pool, told, stopping>>

(* submit_frames: a paused worker takes nothing and says nothing.          *)
PutRefused ==
  /\ sub.pc = "put" /\ ~enabled
  /\ fate' = [fate EXCEPT ![sub.job] = "refused"]
  /\ sub' = [sub EXCEPT !.pc = "lock"]
  /\ UNCHANGED <<set, body, plate, sent, of, attempts, locked, inflight, waits, got,
                 guard, line, wk, ev, decided, pool, told, stopping>>

PutQueued ==
  /\ sub.pc = "put" /\ enabled /\ Len(queue) < QueueMax
  /\ queue' = Append(queue, sub.job)
  /\ fate' = [fate EXCEPT ![sub.job] = "queued"]
  /\ sub' = [sub EXCEPT !.pc = "lock"]
  /\ UNCHANGED <<set, body, plate, sent, of, attempts, locked, inflight, waits, got,
                 guard, enabled, running, dropped, wk, ev, decided, pool, told, stopping>>

PutFull ==
  /\ sub.pc = "put" /\ enabled /\ Len(queue) >= QueueMax
  /\ sub' = [sub EXCEPT !.pc = "full"]
  /\ UNCHANGED <<set, body, plate, sent, of, attempts, locked, inflight, waits, got,
                 guard, line, wk, ev, decided, pool, fate, told, stopping>>

(* After queue.Full: the oldest job makes room. Meanwhile the worker may   *)
(* have emptied the queue: then the new job is the one that is lost.       *)
Swap ==
  /\ sub.pc = "full"
  /\ \/ /\ queue # << >>
        /\ queue' = Append(Tail(queue), sub.job)
        /\ fate' = [fate EXCEPT ![Head(queue)] = "dropped", ![sub.job] = "queued"]
        /\ dropped' = dropped + 1
     \/ /\ queue = << >>
        /\ fate' = [fate EXCEPT ![sub.job] = "lost"]
        /\ UNCHANGED <<queue, dropped>>
  /\ sub' = [sub EXCEPT !.pc = "lock"]
  /\ UNCHANGED <<set, body, plate, sent, of, attempts, locked, inflight, waits, got,
                 guard, enabled, running, wk, ev, decided, pool, told, stopping>>

LockPlateLater ==                   \* mutant: the plate stays open until a result
  /\ sub.pc = "lock"
  /\ sub' = [pc |-> "idle", job |-> 0]
  /\ UNCHANGED <<set, body, plate, sent, of, attempts, locked, inflight, waits, got,
                 guard, line, wk, ev, decided, pool, fate, told, stopping>>

(* The plate lock is set after the job has been handed over.               *)
LockPlate ==
  /\ sub.pc = "lock"
  /\ locked' = TRUE /\ sub' = [pc |-> "idle", job |-> 0]
  /\ UNCHANGED <<set, body, plate, sent, of, attempts, inflight, waits, got,
                 guard, line, wk, ev, decided, pool, fate, told, stopping>>

(***************************************************************************)
(* The worker thread: _loop and _process_job.                              *)
(***************************************************************************)
Reading(pc) == wk.pc = pc
GoOn(pc) == wk' = [wk EXCEPT !.pc = pc]
JobOver(pc) == wk' = NoJob(pc) /\ ev' = NoEvidence

(* _loop begins: without a pool the thread ends.                           *)
LoopStarts ==
  /\ Reading("start")
  /\ pool' \in EnsurePool
  /\ IF pool'.made THEN GoOn("ready") /\ UNCHANGED running
                   ELSE GoOn("off") /\ running' = FALSE
  /\ UNCHANGED <<set, gate, queue, enabled, dropped, ev, decided, fate, told, stopping>>

LoopEnds ==
  /\ Reading("ready") /\ ~running
  /\ GoOn("off")
  /\ UNCHANGED <<set, gate, line, ev, decided, pool, fate, told, stopping>>

TakeJob ==
  /\ Reading("ready") /\ running /\ queue # << >>
  /\ queue' = Tail(queue)
  /\ wk' = [pc |-> "taken", job |-> Head(queue), vin |-> NoVin]
  /\ fate' = [fate EXCEPT ![Head(queue)] = "reading"]
  /\ UNCHANGED <<set, gate, enabled, running, dropped, ev, decided, pool, told, stopping>>

TellFailKeepsMark(j) ==             \* mutant: the in-flight event is not set
  LET again == of[j] = body /\ plate /\ got[body] = NoVin /\ attempts < MaxAttempts
  IN /\ told' = [told EXCEPT ![j] = Append(@, "fail")]
     /\ fate' = [fate EXCEPT ![j] = "told"]
     /\ JobOver(IF again THEN "unlock" ELSE "ready")
     /\ UNCHANGED <<body, plate, sub, sent, of, attempts, locked, inflight, waits,
                    got, guard>>

(* _on_ocr_fail, reached from _emit_fail: the in-flight mark goes; the     *)
(* plate is unlocked, outside the lock, if another attempt makes sense.    *)
TellFail(j) ==
  LET s == of[j]
      again == s = body /\ plate /\ got[s] = NoVin /\ attempts < MaxAttempts
  IN /\ told' = [told EXCEPT ![j] = Append(@, "fail")]
     /\ fate' = [fate EXCEPT ![j] = "told"]
     /\ inflight' = IF inflight = s THEN 0 ELSE inflight
     /\ waits' = [waits EXCEPT ![s] = FALSE]
     /\ JobOver(IF again THEN "unlock" ELSE "ready")
     /\ UNCHANGED <<body, plate, sub, sent, of, attempts, locked, got, guard>>

Unlock ==
  /\ Reading("unlock")
  /\ locked' = FALSE /\ GoOn("ready")
  /\ UNCHANGED <<set, body, plate, sub, sent, of, attempts, inflight, waits, got,
                 guard, line, ev, decided, pool, fate, told, stopping>>

PoolForJob ==
  /\ Reading("taken")
  /\ pool' \in EnsurePool
  /\ IF pool'.made THEN GoOn("primary") /\ UNCHANGED <<gate, ev, fate, told>>
                   ELSE TellFail(wk.job)
  /\ UNCHANGED <<set, line, decided, stopping>>

RaisesKills ==                      \* mutant: an exception ends the thread
  /\ wk.pc \in {"primary", "retry", "det"}
  /\ JobOver("off")
  /\ UNCHANGED <<set, gate, line, decided, pool, fate, told, stopping>>

(* An exception anywhere in _process_job (a picture cv2 cannot take, a     *)
(* pool that shutdown has removed) is caught in _loop and told as failure. *)
Raises ==
  /\ wk.pc \in {"primary", "retry", "det"}
  /\ TellFail(wk.job)
  /\ UNCHANGED <<set, line, decided, pool, stopping>>

(* _read_pool: the texts and the fault of one batch. An open circuit gives *)
(* nothing else than "unavailable".                                        *)
Batch(reads, faults) ==
  /\ pool.made
  /\ pool.circuit => reads = {} /\ faults = {"unavailable"}
  /\ pool' = [pool EXCEPT !.circuit = @ \/ "unavailable" \in faults]
  /\ ev' = [ev EXCEPT !.reads = @ \cup reads]

Broken(faults) == faults \cap {"timeout", "unavailable"} # {}

AtMostOne(S) == {{}} \cup {{x} : x \in S}
Reads == AtMostOne(Vins)        \* of a batch; is_valid_vin keeps nothing else

(* _run_variant_cascade, first batch: raw and CLAHE. Two independent exact *)
(* reads end it, and so do a timeout and an unusable engine.               *)
PrimaryBatch ==
  /\ Reading("primary")
  /\ \/ \E reads \in Reads, faults \in AtMostOne(Fault) :
          /\ Batch(reads, faults)
          /\ GoOn(IF Broken(faults) THEN "decide" ELSE "retry")
     \/ \E v \in Vins :
          /\ pool.made /\ ~pool.circuit
          /\ ev' = [reads |-> {v}, sure |-> v]
          /\ GoOn("decide") /\ UNCHANGED pool
  /\ UNCHANGED <<set, gate, line, decided, fate, told, stopping>>

(* The remaining variants. When they read without detection, a pass with   *)
(* detection follows if they gave less than two different full texts.      *)
RetryBatch ==
  /\ Reading("retry")
  /\ \E reads \in Reads, faults \in AtMostOne(Fault), timeLeft \in BOOLEAN :
       /\ Batch(reads, faults)
       /\ GoOn(IF set.profile # "production" /\ timeLeft /\ ~Broken(faults)
                  /\ Cardinality(ev'.reads) < 2 THEN "det" ELSE "decide")
  /\ UNCHANGED <<set, gate, line, decided, fate, told, stopping>>

DetBatch ==
  /\ Reading("det")
  /\ \E reads \in Reads, faults \in AtMostOne(Fault) : Batch(reads, faults)
  /\ GoOn("decide")
  /\ UNCHANGED <<set, gate, line, decided, fate, told, stopping>>

(* _vin_slot_predict, with _slot_usable                                    *)
Predictions ==
  IF set.profile = "production" THEN {[vin |-> NoVin, usable |-> FALSE]}
  ELSE [vin : Vins, usable : BOOLEAN] \cup {[vin |-> NoVin, usable |-> FALSE]}

(* _try_accept_slot_fallback up to the look for a duplicate                *)
SlotTakes(p) ==
  /\ set.profile \in {"assist", "enforce"} /\ p.usable
  /\ set.profile = "enforce" \/ p.vin \in ev.reads

(* _slot_assist_paddle_accept                                              *)
SlotRejects(p, v) == set.profile = "enforce" /\ p.usable /\ p.vin # v

(* What fuse() may say of the reads (VinFusion); fatal errors, timeouts    *)
(* and crashes count only when nothing was read.                           *)
Accepted ==
  IF ev.sure # NoVin THEN {ev.sure}
  ELSE IF ev.reads = {} THEN {NoVin} ELSE Vins \cup {NoVin}

DuplicateAnySession(j, v) ==        \* mutant: the session is not compared
  last.vin = v
DuplicateAnyVin(j, v) ==            \* mutant: the VIN is not compared
  last.vin # NoVin /\ last.body = of[j]
(* _is_duplicate; duplicate_window_sec outlasts a session.                 *)
Duplicate(j, v) == last.vin = v /\ last.body = of[j]

Report(j, v, pc) ==
  /\ said' = [said EXCEPT ![j] = v]
  /\ IF Duplicate(j, v)
       THEN /\ fate' = [fate EXCEPT ![j] = "duplicate"]
            /\ JobOver("ready") /\ UNCHANGED last
       ELSE /\ last' = [vin |-> v, body |-> of[j]]
            /\ wk' = [wk EXCEPT !.pc = pc, !.vin = v]
            /\ UNCHANGED <<fate, ev>>
  /\ UNCHANGED <<gate, told>>

(* Pos5Verifier.verify of the cell of the fifth character: no cell or a    *)
(* prediction that raises passes, so does no model.                        *)
Pos5Cell == {"none", "other", "faint", "clear"}
Pos5Passes(cell) == set.profile = "production" \/ cell \notin {"other", "faint"}

(* The rest of _process_job: the order of its returns is that of the code. *)
Decide ==
  /\ Reading("decide")
  /\ \E p \in Predictions, v \in Accepted, cell \in Pos5Cell :
       \/ /\ v = NoVin /\ SlotTakes(p)
          /\ Report(wk.job, p.vin, "slot")
       \/ /\ v # NoVin /\ Pos5Passes(cell) /\ ~SlotRejects(p, v)
          /\ Report(wk.job, v, "deliver")
       \/ /\ IF v = NoVin THEN ~SlotTakes(p) ELSE ~Pos5Passes(cell) \/ SlotRejects(p, v)
          /\ TellFail(wk.job) /\ UNCHANGED decided
  /\ UNCHANGED <<set, line, pool, stopping>>

DeliverUncaught ==                  \* mutant: the callback's exception reaches _loop
  /\ wk.pc \in {"deliver", "again", "slot"}
  /\ told' = [told EXCEPT ![wk.job] = Append(Append(@, "result"), "fail")]
  /\ fate' = [fate EXCEPT ![wk.job] = "told"]
  /\ waits' = [waits EXCEPT ![of[wk.job]] = FALSE]
  /\ JobOver("ready")
  /\ UNCHANGED <<set, body, plate, sub, sent, of, attempts, locked, inflight, got,
                 guard, line, decided, pool, stopping>>

Store(s) == IF got[s] = NoVin THEN wk.vin ELSE got[s]

(* on_result is _on_ocr_result. It may raise before or after it has stored *)
(* the VIN; _deliver_result takes any TypeError for a wrong signature and  *)
(* calls it again; every other exception is logged.                        *)
Deliver ==
  /\ wk.pc \in {"deliver", "again", "slot"}
  /\ LET j == wk.job
         s == of[j]
     IN \E effect \in BOOLEAN, how \in {"returns", "TypeError", "raises"} :
          /\ how = "returns" => effect
          /\ told' = [told EXCEPT ![j] = Append(@, "result")]
          /\ IF effect THEN /\ inflight' = IF inflight = s THEN 0 ELSE inflight
                            /\ waits' = [waits EXCEPT ![s] = FALSE]
                            /\ got' = [got EXCEPT ![s] = Store(s)]
                       ELSE UNCHANGED <<inflight, waits, got>>
          /\ IF how = "TypeError" /\ wk.pc = "deliver"
               THEN GoOn("again") /\ UNCHANGED <<fate, ev>>
               ELSE /\ JobOver("ready")
                    /\ fate' = [fate EXCEPT ![j] = IF how = "returns" THEN "told"
                                                                      ELSE "raised"]
  /\ UNCHANGED <<set, body, plate, sub, sent, of, attempts, locked, guard, line,
                 decided, pool, stopping>>

(***************************************************************************)
(* shutdown                                                                *)
(***************************************************************************)
ShutdownBegin ==
  /\ stopping = "no" /\ body > 0
  /\ stopping' = "join" /\ running' = FALSE /\ enabled' = FALSE
  /\ fate' = [j \in Job |-> IF fate[j] = "queued" THEN "drained" ELSE fate[j]]
  /\ queue' = << >>
  /\ UNCHANGED <<set, gate, dropped, wk, ev, decided, pool, told>>

(* join(timeout=2.0) has returned, the worker may still be reading.        *)
ShutdownPool ==
  /\ stopping = "join"
  /\ stopping' = "done"
  /\ pool' = [made |-> FALSE, circuit |-> FALSE]
  /\ UNCHANGED <<set, gate, line, wk, ev, decided, fate, told>>

Submitter == Admit \/ PutRefused \/ PutQueued \/ PutFull \/ Swap \/ LockPlate
Worker ==
  \/ LoopStarts \/ LoopEnds \/ TakeJob \/ PoolForJob \/ Raises \/ PrimaryBatch
  \/ RetryBatch \/ DetBatch \/ Decide \/ Deliver \/ Unlock
Environment == Preload \/ StartBody \/ PlateLeaves \/ Pause \/ BudgetIsShort
               \/ ShutdownBegin \/ ShutdownPool

Next == Submitter \/ Worker \/ Environment

Spec == Init /\ [][Next]_vars

(* The worker thread runs on: every batch has a deadline (OcrPool), every  *)
(* callback returns or raises.                                             *)
FairSpec == Spec /\ WF_vars(Worker)
=============================================================================
