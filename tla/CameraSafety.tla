---------------------------- MODULE CameraSafety ----------------------------
(***************************************************************************)
(* What the camera's threads promise.                                      *)
(***************************************************************************)
EXTENDS CameraWatchdog

Busy(t) == pc[t] \notin {"idle", "dead"}
CallersDone == \A t \in {Plc, Operator} : ~Busy(t)

(* A dial that outlived its join has succeeded since the last disconnect.   *)
Revived == \E r \in outlived : pc[r] \in {"spawn", "dead"}

(* When a disconnect_camera has returned and nobody has asked for the       *)
(* camera since, no reconnect thread is left but those that were dialling   *)
(* longer than the 5 s of their join, whatever died, retried or was         *)
(* scheduled meanwhile; and until such a dial succeeds every stream thread  *)
(* has been told to stop and there is no client.                            *)
ShutdownIsFinal ==
  shutting /\ CallersDone =>
    /\ \A r \in Retry : Busy(r) => r \in outlived
    /\ \/ Revived
       \/ stopEvent /\ client = 0

(* What the last ack said of the connection in use is what the camera does: *)
(* no ack of an earlier command is taken for the answer to a later one, and *)
(* no unanswered command leaves a connection that behaves otherwise.        *)
AckIsTrue == link # 0 /\ link = client => acked[link] = pushing

(* The shutdown of the service ends: disconnect_camera returns and every    *)
(* reconnect thread ends, also one that outlived its join; unless that one  *)
(* has brought the camera back, so do the capture and inference threads.    *)
ShutdownEnds ==
  At(Operator, "leave")
    ~> /\ shutting /\ CallersDone /\ \A r \in Retry : ~Busy(r)
       /\ \/ Revived
          \/ \A c \in Stream : ~CaptureRuns(c) /\ c \notin inf
=============================================================================
