----------------------------- MODULE RfidSafety -----------------------------
(***************************************************************************)
(* What the RFID channel promises the session.                             *)
(***************************************************************************)
EXTENDS RfidReader

Reading(r) == pc[r] \in {"attempt", "warm", "window", "stop", "gap", "answer"}

(* A number bound to a session is the tag of its own body, not one left in *)
(* the cache or still being heard from the body before, if bodies keep the *)
(* minimum interval and the stream is not delayed.                         *)
TagIsOfItsBody ==
  set.mode = "r700" /\ set.spaced
    => \A s \in Session : stored[s] \in {NoAnswer, NoTag, NoRead, s}

(* One worker at a time has the reader, and the lock is held by nobody     *)
(* else: a read that failed, was stopped or raised never makes the next    *)
(* session go without RFID.                                                *)
BusyHasWorker ==
  /\ busy <=> \E r \in Session : Reading(r)
  /\ \A r, q \in Session : Reading(r) /\ Reading(q) => q = r

(* The reader radiates only between the start and the stop of an attempt,  *)
(* however the attempt ended, unless a request to it has failed since.     *)
OnOnlyWhileReading ==
  on /\ ~fault => \E r \in Session : pc[r] \in {"warm", "window", "stop"}

(* Every read that was accepted answers, and answers once, even if the     *)
(* reader never does, the session is not closed and the callback raises.   *)
ReadAnswers ==
  \A s \in Session : Reading(s) ~> At(s, "done") /\ told[s] = 1
=============================================================================
