----------------------------- MODULE RfidProofs -----------------------------
(***************************************************************************)
(* The three safety properties of RfidSafety, for any number of sessions.  *)
(***************************************************************************)
EXTENDS RfidSafety, TLAPS

Place == {"idle", "attempt", "warm", "window", "stop", "gap", "answer", "call", "done"}
Outcome == Tag \cup {NoTag, NoRead}

Types ==
  /\ set \in Settings /\ bodies \in 0 .. Sessions /\ field \in {0, bodies}
  /\ busy \in BOOLEAN /\ pc \in [Session -> Place]
  /\ tries \in [Session -> SUBSET {"ok", "err"}] /\ found \in [Session -> Outcome]
  /\ halted \in [Session -> BOOLEAN] /\ expired \in [Session -> BOOLEAN]
  /\ on \in BOOLEAN /\ fault \in BOOLEAN /\ stream \in BOOLEAN /\ cache \subseteq Tag
  /\ told \in [Session -> Nat] /\ open \in [Session -> BOOLEAN]
  /\ stored \in [Session -> Outcome \cup {NoAnswer}]
  /\ service \in {"new", "up", "stopped"}

(* A body that has not come reads nothing.                                 *)
Unborn == \A s \in Session : s > bodies => pc[s] = "idle"

(* With the minimum interval only the last body's read can be under way,   *)
(* and the cache holds no other body's tag.                                *)
Spaced == set.mode = "r700" /\ set.spaced
LastReads == Spaced => \A s \in Session : Reading(s) => s = bodies
CacheIsFresh == Spaced => cache \subseteq {0, bodies}
FoundIsOwn == Spaced => \A s \in Session : found[s] \in {NoTag, NoRead, s}

IInv ==
  /\ Types /\ Unborn /\ BusyHasWorker /\ OnOnlyWhileReading
  /\ LastReads /\ CacheIsFresh /\ FoundIsOwn /\ TagIsOfItsBody

USE RfidConstants DEF Session, Tag, NoTag, NoRead, NoAnswer, Settings

LEMMA InitOk == Init => IInv
<1> SUFFICES ASSUME Init PROVE IInv
  OBVIOUS
<1>1. Types
  <2>1. bodies \in 0 .. Sessions /\ found \in [Session -> Outcome] /\ told \in [Session -> Nat]
        /\ stored \in [Session -> Outcome \cup {NoAnswer}] /\ cache \subseteq Tag
    BY DEF Init, Outcome
  <2>2. /\ halted \in [Session -> BOOLEAN] /\ expired \in [Session -> BOOLEAN]
        /\ open \in [Session -> BOOLEAN]
    BY DEF Init
  <2>3. /\ pc \in [Session -> Place] /\ tries \in [Session -> SUBSET {"ok", "err"}]
        /\ set \in Settings /\ field \in {0, bodies} /\ service \in {"new", "up", "stopped"}
    BY DEF Init, Place
  <2>4. busy \in BOOLEAN /\ on \in BOOLEAN /\ fault \in BOOLEAN /\ stream \in BOOLEAN
    BY DEF Init
  <2> QED
    BY <2>1, <2>2, <2>3, <2>4 DEF Types
<1>2. Unborn /\ BusyHasWorker /\ LastReads
  BY DEF Init, Unborn, BusyHasWorker, LastReads, Reading
<1>3. OnOnlyWhileReading /\ CacheIsFresh /\ FoundIsOwn /\ TagIsOfItsBody
  BY DEF Init, OnOnlyWhileReading, CacheIsFresh, FoundIsOwn, TagIsOfItsBody
<1> QED
  BY <1>1, <1>2, <1>3 DEF IInv

(* The steps of a read and the deadline's.                                 *)
LEMMA TypesOfReads ==
  ASSUME Types, NEW r \in Session, Works(r) \/ DeadlinePasses(r) PROVE Types'
<1> USE DEF Types, At, Goto, Note, Place, Outcome, world, worker, clock, reader, feed, result
<1>1. CASE Simulated(r)
  BY <1>1 DEF Simulated
<1>2. CASE StartInventory(r)
  <2>1. pc' \in [Session -> Place]
    BY <1>2 DEF StartInventory
  <2>2. tries' \in [Session -> SUBSET {"ok", "err"}]
    BY <1>2 DEF StartInventory
  <2> QED
    BY <1>2, <2>1, <2>2 DEF StartInventory, Started, StartFailed
<1>3. CASE WarmUp(r)
  <2>1. pc' \in [Session -> Place]
    BY <1>3 DEF WarmUp
  <2>2. tries' \in [Session -> SUBSET {"ok", "err"}]
    BY <1>3 DEF WarmUp
  <2> QED
    BY <1>3, <2>1, <2>2 DEF WarmUp
<1>4. CASE WindowEnds(r)
  BY <1>4 DEF WindowEnds, Best, FactoryEpcOk
<1>5. CASE StopInventory(r)
  BY <1>5 DEF StopInventory, Stopped, StopFailed
<1>6. CASE Gap(r)
  <2>1. pc' \in [Session -> Place] /\ found' \in [Session -> Outcome]
    <3>1. NothingFound(r) \in Outcome /\ NoTag \in Outcome
      BY DEF NothingFound
    <3>2. pc' \in [Session -> Place]
      BY <1>6 DEF Gap
    <3>3. ASSUME NEW answer \in Outcome, found' = [found EXCEPT ![r] = answer]
          PROVE  found' \in [Session -> Outcome]
      BY <3>3
    <3> QED
      BY <1>6, <3>1, <3>2, <3>3 DEF Gap
  <2> QED
    BY <1>6, <2>1 DEF Gap
<1>7. CASE Release(r)
  BY <1>7 DEF Release
<1>8. CASE Answer(r)
  BY <1>8 DEF Answer
<1>9. CASE DeadlinePasses(r)
  BY <1>9 DEF DeadlinePasses
<1> QED
  BY <1>1, <1>2, <1>3, <1>4, <1>5, <1>6, <1>7, <1>8, <1>9 DEF Works

Outside ==
  \/ ServiceStart \/ ServiceStop \/ SessionStarts \/ BodyLeaves
  \/ StreamTurns \/ TagSeen \/ Ages \/ \E s \in Session : SessionEnds(s)

LEMMA TypesOfOthers == ASSUME Types, Outside PROVE Types'
<1> USE DEF Types, Place, Outcome, world, worker, clock, reader, feed, result
<1>1. CASE ServiceStart
  BY <1>1 DEF ServiceStart, Initialize, Stopped, StopFailed
<1>2. CASE ServiceStop
  BY <1>2 DEF ServiceStop, ReaderStop, Stopped, StopFailed
<1>3. CASE SessionStarts
  <2>1. pc' \in [Session -> Place] /\ busy' \in BOOLEAN
    BY <1>3 DEF SessionStarts, Accept, Goto
  <2>2. /\ bodies' \in 0 .. Sessions /\ field' \in {0, bodies'}
        /\ open' \in [Session -> BOOLEAN]
    BY <1>3 DEF SessionStarts
  <2> QED
    BY <1>3, <2>1, <2>2 DEF SessionStarts
<1>4. CASE BodyLeaves
  BY <1>4 DEF BodyLeaves
<1>5. CASE StreamTurns
  BY <1>5 DEF StreamTurns
<1>6. CASE TagSeen
  BY <1>6 DEF TagSeen, Visible, Upsert
<1>7. CASE Ages
  BY <1>7 DEF Ages
<1>8. CASE \E s \in Session : SessionEnds(s)
  BY <1>8 DEF SessionEnds
<1> QED
  BY <1>1, <1>2, <1>3, <1>4, <1>5, <1>6, <1>7, <1>8 DEF Outside

LEMMA Steps ==
  ASSUME Next
  PROVE  Outside \/ \E r \in Session : Works(r) \/ DeadlinePasses(r)
  BY DEF Next, Outside

(* What happens outside a read opens at most one, when the lock is free,   *)
(* and the cache hears only the body in the field.                         *)
LEMMA OthersKeep == ASSUME IInv, Outside PROVE IInv'
<1>1. Types' /\ Types
  BY TypesOfOthers DEF IInv
<1> USE DEF Types
<1>2. CASE SessionStarts
  <2> DEFINE b == bodies + 1
  <2>0. b \in Session /\ bodies' = b /\ pc[b] = "idle" /\ set' = set
    BY <1>1, <1>2 DEF SessionStarts, IInv, Unborn
  <2>1. CASE busy
    <3>1. UNCHANGED <<busy, pc>>
      BY <1>2, <2>1 DEF SessionStarts, Accept
    <3>2. Unborn'
      BY <1>1, <2>0, <3>1 DEF IInv, Unborn
    <3>3. BusyHasWorker' /\ OnOnlyWhileReading'
      BY <1>2, <3>1 DEF IInv, BusyHasWorker, OnOnlyWhileReading, Reading, SessionStarts, reader
    <3>4. ~Spaced
      BY <1>2, <2>1 DEF SessionStarts, Spaced, IInv, BusyHasWorker, Reading
    <3>5. LastReads' /\ CacheIsFresh' /\ FoundIsOwn' /\ TagIsOfItsBody'
      BY <2>0, <3>4 DEF LastReads, CacheIsFresh, FoundIsOwn, TagIsOfItsBody, Spaced
    <3> QED
      BY <1>1, <3>2, <3>3, <3>5 DEF IInv
  <2>2. CASE ~busy
    <3>1. busy' = TRUE /\ pc' = [pc EXCEPT ![b] = "attempt"]
      BY <1>2, <2>2 DEF SessionStarts, Accept, Goto
    <3>2. \A s \in Session : ~Reading(s)
      BY <2>2 DEF IInv, BusyHasWorker
    <3>2a. ASSUME NEW s \in Session PROVE Reading(s)' <=> s = b
      BY <1>1, <2>0, <3>1, <3>2 DEF Reading
    <3>3. BusyHasWorker' /\ LastReads'
      BY <2>0, <3>1, <3>2a DEF BusyHasWorker, LastReads
    <3>4. Unborn'
      BY <1>1, <2>0, <3>1 DEF IInv, Unborn
    <3>5. OnOnlyWhileReading'
      BY <1>1, <1>2, <2>0, <3>1 DEF IInv, OnOnlyWhileReading, SessionStarts, reader
    <3>6. CacheIsFresh' /\ FoundIsOwn' /\ TagIsOfItsBody'
      BY <1>2, <2>0 DEF IInv, CacheIsFresh, FoundIsOwn, TagIsOfItsBody, Spaced,
                        SessionStarts, feed
    <3> QED
      BY <1>1, <3>3, <3>4, <3>5, <3>6 DEF IInv
  <2> QED
    BY <2>1, <2>2
<1>3. ASSUME UNCHANGED <<set, bodies, pc, busy, found, stored>>,
             on' /\ ~fault' => on /\ ~fault, cache' \subseteq cache \cup {0, field}
      PROVE  IInv'
  <2>1. Unborn' /\ BusyHasWorker' /\ LastReads' /\ OnOnlyWhileReading'
    BY <1>1, <1>3 DEF IInv, Unborn, BusyHasWorker, LastReads, OnOnlyWhileReading, Reading,
                     Spaced
  <2>2. CacheIsFresh' /\ FoundIsOwn' /\ TagIsOfItsBody'
    BY <1>1, <1>3 DEF IInv, CacheIsFresh, FoundIsOwn, TagIsOfItsBody, Spaced
  <2> QED
    BY <1>1, <2>1, <2>2 DEF IInv
<1>4. CASE ServiceStart
  BY <1>3, <1>4 DEF ServiceStart, Initialize, Stopped, StopFailed, world, worker, feed, result
<1>5. CASE ServiceStop
  BY <1>3, <1>5 DEF ServiceStop, ReaderStop, Stopped, StopFailed, world, worker, result
<1>6. CASE BodyLeaves \/ StreamTurns \/ Ages \/ \E s \in Session : SessionEnds(s)
  BY <1>3, <1>6 DEF BodyLeaves, StreamTurns, Ages, SessionEnds, world, worker, reader, feed,
                   result
<1>7. CASE TagSeen
  BY <1>3, <1>7 DEF TagSeen, Visible, Upsert, world, worker, reader, result
<1> QED
  BY <1>2, <1>4, <1>5, <1>6, <1>7 DEF Outside

(* A step of a read moves only its own worker; what is left to show of it  *)
(* is where it goes, what it does to the reader, and what it has found.    *)
InRead == {"attempt", "warm", "window", "stop", "gap", "answer"}

LEMMA ReadsKeep ==
  ASSUME IInv, NEW r \in Session, Works(r) \/ DeadlinePasses(r) PROVE IInv'
<1>1. Types /\ Types'
  BY TypesOfReads DEF IInv
<1> USE DEF Types, At, Goto
<1>2. UNCHANGED <<set, bodies, cache>>
  BY DEF Works, DeadlinePasses, Simulated, StartInventory, WarmUp, WindowEnds, StopInventory,
         Gap, Release, Answer, world, feed
<1>3. ASSUME NEW place \in InRead, pc' = [pc EXCEPT ![r] = place], Reading(r),
             UNCHANGED <<busy, stored>>,
             on' /\ ~fault' =>
               place \in {"warm", "window", "stop"}
               \/ (on /\ ~fault /\ pc[r] \notin {"warm", "window", "stop"}),
             Spaced => found'[r] \in {NoTag, NoRead, r},
             \A s \in Session \ {r} : found'[s] = found[s]
      PROVE  IInv'
  <2>1. Unborn'
    BY <1>1, <1>2, <1>3 DEF IInv, Unborn, Reading
  <2>2. ASSUME NEW s \in Session PROVE Reading(s)' <=> Reading(s)
    BY <1>1, <1>3 DEF Reading, InRead
  <2>3. BusyHasWorker' /\ LastReads'
    BY <1>2, <1>3, <2>2 DEF IInv, BusyHasWorker, LastReads, Spaced
  <2>4. OnOnlyWhileReading'
    <3>1. ASSUME on', ~fault' PROVE \E s \in Session : pc'[s] \in {"warm", "window", "stop"}
      <4>1. CASE place \in {"warm", "window", "stop"}
        BY <1>1, <1>3, <4>1
      <4>2. CASE place \notin {"warm", "window", "stop"}
        <5>1. PICK s \in Session : pc[s] \in {"warm", "window", "stop"}
          BY <1>3, <3>1, <4>2 DEF IInv, OnOnlyWhileReading
        <5>2. s # r
          BY <1>3, <3>1, <4>2, <5>1
        <5> QED
          BY <1>1, <1>3, <5>1, <5>2
      <4> QED
        BY <4>1, <4>2
    <3> QED
      BY <3>1 DEF OnOnlyWhileReading
  <2>5. CacheIsFresh' /\ FoundIsOwn' /\ TagIsOfItsBody'
    BY <1>2, <1>3 DEF IInv, CacheIsFresh, FoundIsOwn, TagIsOfItsBody, Spaced
  <2> QED
    BY <1>1, <2>1, <2>3, <2>4, <2>5 DEF IInv
<1>4. Spaced => found[r] \in {NoTag, NoRead, r}
  BY DEF IInv, FoundIsOwn
<1> DEFINE Outcomes ==
      \A s \in Session \ {r} : found'[s] = found[s]
<1>5. CASE Simulated(r)
  <2>1. ~Spaced /\ Reading(r) /\ pc[r] = "attempt" /\ UNCHANGED <<busy, stored, on, fault>>
    BY <1>5 DEF Simulated, Spaced, Reading, reader, result
  <2>2. PICK place \in {"gap", "answer"} : pc' = [pc EXCEPT ![r] = place]
    BY <1>5 DEF Simulated
  <2>3. Outcomes
    BY <1>1, <1>5 DEF Simulated
  <2> QED
    BY <1>3, <2>1, <2>2, <2>3 DEF InRead
<1>6. CASE StartInventory(r)
  <2>1. Reading(r) /\ UNCHANGED <<busy, stored, found>>
    BY <1>6 DEF StartInventory, Reading, result
  <2>2. CASE Started /\ pc' = [pc EXCEPT ![r] = "warm"]
    BY <1>3, <1>4, <2>1, <2>2 DEF InRead
  <2>3. CASE StartFailed /\ pc' = [pc EXCEPT ![r] = "gap"]
    BY <1>3, <1>4, <2>1, <2>3 DEF InRead, StartFailed
  <2> QED
    BY <1>6, <2>2, <2>3 DEF StartInventory
<1>7. CASE WarmUp(r)
  <2>1. Reading(r) /\ UNCHANGED <<busy, stored, found, on, fault>>
    BY <1>7 DEF WarmUp, Reading, result, reader
  <2>2. PICK place \in {"stop", "window"} : pc' = [pc EXCEPT ![r] = place]
    BY <1>7 DEF WarmUp
  <2> QED
    BY <1>3, <1>4, <2>1, <2>2 DEF InRead
<1>8. CASE WindowEnds(r)
  <2>1. Reading(r) /\ UNCHANGED <<busy, stored, on, fault>>
        /\ pc' = [pc EXCEPT ![r] = "stop"]
    BY <1>8 DEF WindowEnds, Reading, result, reader
  <2>2. PICK t \in Best \cup {NoTag} : found' = [found EXCEPT ![r] = t]
    BY <1>8 DEF WindowEnds
  <2>3. Spaced => t \in {NoTag, r}
    BY <2>1, <2>2 DEF IInv, CacheIsFresh, LastReads, Best, FactoryEpcOk
  <2> QED
    BY <1>1, <1>3, <2>1, <2>2, <2>3 DEF InRead
<1>9. CASE StopInventory(r)
  <2>1. Reading(r) /\ UNCHANGED <<busy, stored, found>> /\ ~(on' /\ ~fault')
    BY <1>9 DEF StopInventory, Reading, result, Stopped, StopFailed
  <2>2. PICK place \in {"gap", "answer"} : pc' = [pc EXCEPT ![r] = place]
    BY <1>9 DEF StopInventory
  <2> QED
    BY <1>3, <1>4, <2>1, <2>2 DEF InRead
<1>10. CASE Gap(r)
  <2>1. Reading(r) /\ pc[r] = "gap" /\ UNCHANGED <<busy, stored, on, fault>>
    BY <1>10 DEF Gap, Reading, result, reader
  <2>2. PICK place \in {"attempt", "answer"} : pc' = [pc EXCEPT ![r] = place]
    BY <1>10 DEF Gap
  <2>3. found' = found \/ \E t \in {NoTag, NoRead} : found' = [found EXCEPT ![r] = t]
    BY <1>10 DEF Gap, NothingFound
  <2>4. Outcomes /\ (Spaced => found'[r] \in {NoTag, NoRead, r})
    BY <1>1, <1>4, <2>3
  <2> QED
    BY <1>3, <2>1, <2>2, <2>4 DEF InRead
<1>11. CASE Release(r) \/ Answer(r)
  <2>1. PICK place \in {"call", "done"} :
          /\ pc' = [pc EXCEPT ![r] = place]
          /\ pc[r] \in {"answer", "call"} /\ UNCHANGED <<on, fault>>
    BY <1>11 DEF Release, Answer, reader
  <2>2. ASSUME NEW s \in Session PROVE Reading(s)' <=> Reading(s) /\ s # r
    BY <1>1, <2>1 DEF Reading
  <2>3. BusyHasWorker'
    <3>1. CASE Release(r)
      BY <2>2, <3>1 DEF Release, IInv, BusyHasWorker, Reading
    <3>2. CASE Answer(r)
      BY <2>2, <3>2 DEF Answer, IInv, BusyHasWorker, Reading
    <3> QED
      BY <1>11, <3>1, <3>2
  <2>4. Unborn'
    BY <1>1, <1>2, <2>1 DEF IInv, Unborn
  <2>5. LastReads'
    BY <1>2, <2>2 DEF IInv, LastReads, Spaced
  <2>6. OnOnlyWhileReading'
    BY <1>1, <2>1 DEF IInv, OnOnlyWhileReading
  <2>7. \A s \in Session : found'[s] \in {found[s], NoTag} /\ stored'[s] \in {found[s], stored[s]}
    BY <1>1, <1>11 DEF Release, Answer, result
  <2>8. CacheIsFresh' /\ FoundIsOwn' /\ TagIsOfItsBody'
    BY <1>2, <2>7 DEF IInv, CacheIsFresh, FoundIsOwn, TagIsOfItsBody, Spaced
  <2> QED
    BY <1>1, <2>3, <2>4, <2>5, <2>6, <2>8 DEF IInv
<1>12. CASE DeadlinePasses(r)
  <2>1. UNCHANGED <<pc, busy, on, fault, found, stored>>
    BY <1>12 DEF DeadlinePasses, worker, reader, result
  <2> QED
    BY <1>1, <1>2, <2>1 DEF IInv, Unborn, BusyHasWorker, OnOnlyWhileReading, LastReads,
                            CacheIsFresh, FoundIsOwn, TagIsOfItsBody, Spaced, Reading
<1> QED
  BY <1>5, <1>6, <1>7, <1>8, <1>9, <1>10, <1>11, <1>12 DEF Works

LEMMA Inductive == Spec => []IInv
<1>1. IInv /\ [Next]_vars => IInv'
  <2> SUFFICES ASSUME IInv, [Next]_vars PROVE IInv'
    OBVIOUS
  <2>1. CASE Next
    BY <2>1, Steps, OthersKeep, ReadsKeep
  <2>2. CASE UNCHANGED vars
    BY <2>2 DEF IInv, Types, Unborn, BusyHasWorker, OnOnlyWhileReading, LastReads,
                CacheIsFresh, FoundIsOwn, TagIsOfItsBody, Spaced, Reading,
                vars, world, worker, clock, reader, feed, result
  <2> QED
    BY <2>1, <2>2
<1> QED
  BY InitOk, <1>1, PTL DEF Spec

(* One worker at a time has the reader, and the lock is held only for it.  *)
THEOREM LockIsOfItsRead == Spec => []BusyHasWorker
<1>1. IInv => BusyHasWorker
  BY DEF IInv
<1> QED
  BY Inductive, <1>1, PTL

(* The reader radiates only during a read, but for requests that failed.   *)
THEOREM OffBetweenReads == Spec => []OnOnlyWhileReading
<1>1. IInv => OnOnlyWhileReading
  BY DEF IInv
<1> QED
  BY Inductive, <1>1, PTL

(* With the minimum interval no session stores the tag of another body.    *)
THEOREM OwnTag == Spec => []TagIsOfItsBody
<1>1. IInv => TagIsOfItsBody
  BY DEF IInv
<1> QED
  BY Inductive, <1>1, PTL
=============================================================================
