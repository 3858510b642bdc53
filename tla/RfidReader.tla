----------------------------- MODULE RfidReader -----------------------------
(***************************************************************************)
(* The RFID channel: RFIDService, whose worker threads read the one reader *)
(* until the session's deadline (rfid_service.py), R700Reader with its     *)
(* REST client, event stream and tag cache (rfid_reader.py, r700_*.py,     *)
(* tag_cache.py), and the binding of the answer to the session             *)
(* (pipeline.py).                                                          *)
(*                                                                         *)
(* The tag of body s is s; tag 0 is a label that is not the factory's and  *)
(* always in the field.                                                    *)
(***************************************************************************)
EXTENDS Naturals, Sequences, FiniteSets

CONSTANTS
  Sessions,  \* bound: bodies that come to the station
  Modes      \* rfid.mode: "r700", "simulator"

ASSUME RfidConstants == Sessions \in Nat /\ Modes \subseteq {"r700", "simulator"}

Session == 1 .. Sessions
Tag == 0 .. Sessions
NoTag == Sessions + 1     \* "NO_TAG"
NoRead == Sessions + 2    \* "NO_READ"
NoAnswer == Sessions + 3

VARIABLES
  set,      \* rfid.mode; whether bodies keep the minimum interval
  bodies,   \* bodies that have come
  field,    \* the body at the antennas, 0 for none
  busy,     \* RFIDService._busy
  pc,       \* where the worker of a read is
  tries,    \* of a read under way: an attempt ended well, an attempt raised
  found,    \* what its last attempt returned, then what it answers
  halted,   \* the stop event of a read
  expired,  \* its deadline has passed
  on,       \* the reader takes inventory
  fault,    \* a request has failed since the reader was last told to stop
  stream,   \* the event stream is connected
  cache,    \* TagCache: tags heard of within a window's length
  told,     \* how many answers a session was given
  open,     \* the session takes results
  stored,   \* session.rfid_epc
  service   \* "new", "up", "stopped"

world == <<set, bodies, field>>
reader == <<on, fault>>
feed == <<stream, cache>>
worker == <<busy, pc, tries, found>>
clock == <<halted, expired>>
result == <<told, open, stored>>
vars == <<world, worker, clock, reader, feed, result, service>>

(* build_reader chooses the reader; spaced: bodies keep the minimum interval *)
Settings == [mode : Modes, spaced : BOOLEAN]

(* A reader left running by a process that ended is met at the start.      *)
Init ==
  /\ set \in Settings
  /\ bodies = 0 /\ field = 0
  /\ busy = FALSE /\ pc = [s \in Session |-> "idle"]
  /\ tries = [s \in Session |-> {}] /\ found = [s \in Session |-> NoTag]
  /\ halted = [s \in Session |-> FALSE] /\ expired = [s \in Session |-> FALSE]
  /\ on \in BOOLEAN /\ fault = on
  /\ stream = FALSE /\ cache = {}
  /\ told = [s \in Session |-> 0] /\ open = [s \in Session |-> FALSE]
  /\ stored = [s \in Session |-> NoAnswer]
  /\ service = "new"

At(r, where) == pc[r] = where
Goto(r, where) == pc' = [pc EXCEPT ![r] = where]

(***************************************************************************)
(* The reader's REST interface (r700_client.py). A request that fails may  *)
(* have been executed: the answer can be lost.                             *)
(***************************************************************************)
(* stop_all_profiles                                                       *)
Stopped == on' = FALSE /\ fault' = FALSE
StopFailed == on' \in {on, FALSE} /\ fault' = TRUE

(* start_inventory_preset, start_inventory_transient: a reader that runs   *)
(* answers 409 and is stopped first.                                       *)
Started == on' = TRUE /\ fault' = FALSE
StartFailed == on' \in BOOLEAN /\ fault' = TRUE

(***************************************************************************)
(* The stream and the cache (r700_stream.py, tag_cache.py)                 *)
(***************************************************************************)
Visible == {0} \cup {field}

(* run_forever: connected, lost, connected again after a second            *)
StreamTurns ==
  /\ service = "up" /\ set.mode = "r700"
  /\ stream' = ~stream
  /\ UNCHANGED <<world, worker, clock, reader, cache, result, service>>

(* _process_possible_json, upsert: the hit is dated when it arrives.       *)
Upsert(t) == cache' = cache \cup {t}

TagSeen ==
  /\ on /\ stream
  /\ \E t \in Visible : Upsert(t)
  /\ UNCHANGED <<world, worker, clock, reader, stream, result, service>>

(* 250 ms pass without a window that would still count the hits.           *)
Ages ==
  /\ cache # {} /\ cache' = {}
  /\ \A r \in Session : ~At(r, "window")
  /\ UNCHANGED <<world, worker, clock, reader, stream, result, service>>

AnyEpc(t) == TRUE                   \* mutant: a label of anything will do

(* _factory_epc_ok                                                         *)
FactoryEpcOk(t) == t # 0

(* get_best_in_window; the signal may be strongest for any of them.        *)
Best == {t \in cache : FactoryEpcOk(t)}

(***************************************************************************)
(* RFIDService                                                             *)
(***************************************************************************)
(* R700Reader.start, initialize: whatever runs is stopped.                 *)
Initialize == Stopped \/ StopFailed

(* start: the service is up even if the reader's start raised.             *)
ServiceStart ==
  /\ service = "new" /\ service' = "up"
  /\ Initialize
  /\ UNCHANGED <<world, worker, clock, feed, result>>

(* R700Reader.stop                                                         *)
ReaderStop == stream' = FALSE /\ (Stopped \/ StopFailed)

(* stop: its stop event is not the one the sessions' reads have.           *)
ServiceStop ==
  /\ service = "up" /\ service' = "stopped"
  /\ ReaderStop
  /\ UNCHANGED <<world, worker, clock, cache, result>>

(* trigger_read                                                            *)
Accept(r) ==
  IF busy THEN UNCHANGED <<busy, pc>>
          ELSE busy' = TRUE /\ Goto(r, "attempt")

(* A body comes to the station and its session starts the read. Spaced:    *)
(* min_session_interval_sec outlasts the reads of the session before.      *)
SessionStarts ==
  /\ service = "up" /\ bodies < Sessions /\ field = 0
  /\ set.spaced => /\ cache = {} /\ \A s \in Session : pc[s] \in {"idle", "done"}
  /\ bodies' = bodies + 1 /\ field' = bodies + 1
  /\ open' = [open EXCEPT ![bodies + 1] = TRUE]
  /\ Accept(bodies + 1)
  /\ UNCHANGED <<set, tries, found, clock, reader, feed, told, stored, service>>

BodyLeaves ==
  /\ field # 0 /\ field' = 0
  /\ UNCHANGED <<set, bodies, worker, clock, reader, feed, result, service>>

(* _finalize_session sets the session's stop event.                        *)
SessionEnds(s) ==
  /\ open[s] /\ open' = [open EXCEPT ![s] = FALSE]
  /\ halted' = [halted EXCEPT ![s] = TRUE]
  /\ UNCHANGED <<world, worker, expired, reader, feed, told, stored, service>>

DeadlinePasses(r) ==
  /\ pc[r] \notin {"idle", "done"} /\ ~expired[r]
  /\ expired' = [expired EXCEPT ![r] = TRUE]
  /\ UNCHANGED <<world, worker, halted, reader, feed, result, service>>

(***************************************************************************)
(* One attempt: R700Reader.read_tag; RFIDSimulator.read_tag gives the      *)
(* operator's EPC, whatever body is there.                                 *)
(***************************************************************************)
Note(r, how) == tries' = [tries EXCEPT ![r] = @ \cup {how}]

Simulated(r) ==
  /\ set.mode = "simulator" /\ At(r, "attempt")
  /\ \E t \in {NoTag} \cup (IF halted[r] THEN {} ELSE {0}) :
       found' = [found EXCEPT ![r] = t]
  /\ Note(r, "ok")
  /\ Goto(r, IF found'[r] = NoTag THEN "gap" ELSE "answer")
  /\ UNCHANGED <<world, busy, clock, reader, feed, result, service>>

StartInventory(r) ==
  /\ set.mode = "r700" /\ At(r, "attempt")
  /\ \/ Started /\ Goto(r, "warm") /\ UNCHANGED tries
     \/ StartFailed /\ Goto(r, "gap") /\ Note(r, "err")
  /\ UNCHANGED <<world, busy, found, clock, feed, result, service>>

WarmUpSkipsStop(r) ==               \* mutant: no finally around the warm-up
  /\ At(r, "warm")
  /\ IF halted[r] \/ expired[r] THEN Goto(r, "gap") /\ Note(r, "ok")
                                ELSE Goto(r, "window") /\ UNCHANGED tries
  /\ UNCHANGED <<world, busy, found, clock, reader, feed, result, service>>

WarmUp(r) ==
  /\ At(r, "warm")
  /\ IF halted[r] \/ expired[r] THEN Goto(r, "stop") /\ Note(r, "ok")
                                ELSE Goto(r, "window") /\ UNCHANGED tries
  /\ UNCHANGED <<world, busy, found, clock, reader, feed, result, service>>

(* The window ends at its time, at the deadline at the latest, or with the *)
(* stop event; that one gives nothing.                                     *)
WindowEnds(r) ==
  /\ At(r, "window")
  /\ \E t \in IF halted[r] \/ Best = {} THEN Best \cup {NoTag} ELSE Best :
       found' = [found EXCEPT ![r] = t]
  /\ Note(r, "ok") /\ Goto(r, "stop")
  /\ UNCHANGED <<world, busy, clock, reader, feed, result, service>>

(* finally: a failure is logged.                                           *)
StopInventory(r) ==
  /\ At(r, "stop")
  /\ Stopped \/ StopFailed
  /\ Goto(r, IF found[r] = NoTag THEN "gap" ELSE "answer")
  /\ UNCHANGED <<world, busy, tries, found, clock, feed, result, service>>

(***************************************************************************)
(* _read_until_deadline and _do_read                                       *)
(***************************************************************************)
(* No window at all and an error: the exception is raised, NO_READ.        *)
NothingFound(r) == IF "ok" \notin tries[r] /\ "err" \in tries[r] THEN NoRead ELSE NoTag

GapForEver(r) ==                    \* mutant: the deadline does not end the reading
  /\ At(r, "gap")
  /\ \/ ~halted[r] /\ Goto(r, "attempt") /\ UNCHANGED found
     \/ /\ halted[r] /\ Goto(r, "answer")
        /\ found' = [found EXCEPT ![r] = NothingFound(r)]
  /\ UNCHANGED <<world, busy, tries, clock, reader, feed, result, service>>

(* A stop event during the pause is NO_TAG whatever happened before.       *)
Gap(r) ==
  /\ At(r, "gap")
  /\ \/ ~halted[r] /\ ~expired[r] /\ Goto(r, "attempt") /\ UNCHANGED found
     \/ /\ halted[r] \/ expired[r]
        /\ Goto(r, "answer")
        /\ \E answer \in {NothingFound(r)} \cup (IF halted[r] THEN {NoTag} ELSE {}) :
             found' = [found EXCEPT ![r] = answer]
  /\ UNCHANGED <<world, busy, tries, clock, reader, feed, result, service>>

(* The lock is free before the answer is given.                            *)
Release(r) ==
  /\ At(r, "answer")
  /\ busy' = FALSE
  /\ Goto(r, "call")
  /\ tries' = [tries EXCEPT ![r] = {}]
  /\ UNCHANGED <<world, found, clock, reader, feed, result, service>>

(* _on_rfid_result: _validate_result_session, then _reject_stale_rfid,     *)
(* which never rejects: first_seen_at is when the worker began, after the  *)
(* session had noted its rfid_read_started_at. An exception is logged.     *)
Answer(s) ==
  /\ At(s, "call") /\ Goto(s, "done")
  /\ told' = [told EXCEPT ![s] = @ + 1]
  /\ \/ open[s] /\ stored' = [stored EXCEPT ![s] = found[s]]
     \/ UNCHANGED stored
  /\ found' = [found EXCEPT ![s] = NoTag]
  /\ UNCHANGED <<world, busy, tries, clock, reader, feed, open, service>>

(***************************************************************************)
Works(r) ==
  \/ Simulated(r) \/ StartInventory(r) \/ WarmUp(r) \/ WindowEnds(r)
  \/ StopInventory(r) \/ Gap(r) \/ Release(r) \/ Answer(r)

Next ==
  \/ ServiceStart \/ ServiceStop \/ SessionStarts \/ BodyLeaves
  \/ StreamTurns \/ TagSeen \/ Ages
  \/ \E s \in Session : SessionEnds(s)
  \/ \E r \in Session : Works(r) \/ DeadlinePasses(r)

Spec == Init /\ [][Next]_vars

(* Every wait of a worker has a timeout, so has every request; time passes. *)
FairSpec ==
  Spec /\ \A r \in Session : WF_vars(Works(r)) /\ WF_vars(DeadlinePasses(r))
=============================================================================
