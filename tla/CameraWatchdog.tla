--------------------------- MODULE CameraWatchdog ---------------------------
(***************************************************************************)
(* The camera: the threads of Pipeline that connect it, read it, notice    *)
(* that it died and connect it again (pipeline.py), and the client that    *)
(* talks to it (camera/camera_client.py).                                  *)
(*                                                                         *)
(* The camera serves one connection. A caller is the PLC thread, whose     *)
(* trigger needs the stream, or the operator's HTTP thread. A connection   *)
(* and the capture and inference threads made for it share a number.       *)
(***************************************************************************)
EXTENDS Naturals, FiniteSets

CONSTANTS
  MaxStreams,   \* bound: connections that succeed
  MaxRetries,   \* bound: reconnect threads alive at once
  MaxAsked,     \* bound: triggers of the PLC and orders of the operator
  Orders        \* what the operator may order: "connect", "disconnect",
                \* or "shutdown", which follows the end of the PLC thread

ASSUME CameraConstants ==
  /\ MaxStreams \in Nat /\ MaxRetries \in Nat /\ MaxAsked \in Nat
  /\ Orders \subseteq {"connect", "disconnect", "shutdown"}

Stream == 1 .. MaxStreams
Plc == <<"plc", 0>>
Operator == <<"operator", 0>>
Retry == {"retry"} \X (1 .. MaxRetries)
Thread == {Plc, Operator} \cup Retry
NoThread == <<"none", 0>>

VARIABLES
  state,       \* _camera_state
  connected,   \* _camera_connected
  threadAlive, \* _camera_thread_alive
  captureAlive,\* _capture_alive
  shutting,    \* _camera_shutting_down
  generation,  \* _camera_generation
  stopEvent,   \* _stop_event
  paused,      \* _capture_pause
  processing,  \* _processing
  pausing,     \* a thread is in pause_camera_stream, before its command
  client,      \* self.client, 0 for None
  made,        \* connections made
  link,        \* the connection the camera serves, 0 for none
  acked,       \* was the last command acked on each connection mLIStart
  pushing,     \* does the camera push frames on that connection
  late,        \* acks of earlier commands still under way on it
  cap,         \* capture threads: where, of which generation
  inf,         \* inference threads alive
  held,        \* _capture_thread and _inference_thread, 0 for None
  retryRef,    \* _reconnect_thread
  retryStop,   \* _reconnect_stop_event
  outlived,    \* history: reconnect threads whose join timed out, and that
               \* may yet connect or have connected since the last disconnect
  pc,          \* where a thread is
  job,         \* the call it is in: connect_camera or disconnect_camera
  hand,        \* the connection it has made and not yet published
  awaits,      \* the reconnect thread it joins
  asked        \* triggers and orders so far

flags == <<state, connected, threadAlive, captureAlive, shutting, generation>>
gates == <<stopEvent, paused, processing, pausing>>
wire == <<link, acked, pushing, late>>
crew == <<cap, inf, held>>
retries == <<retryRef, retryStop, outlived>>
calls == <<job, hand, awaits, asked>>
vars == <<flags, gates, client, made, wire, crew, retries, pc, calls>>

Init ==
  /\ state = "DISCONNECTED" /\ connected = FALSE /\ threadAlive = FALSE
  /\ captureAlive = FALSE /\ shutting = FALSE /\ generation = 0
  /\ stopEvent = FALSE /\ paused = FALSE /\ processing = FALSE
  /\ pausing = FALSE /\ outlived = {}
  /\ client = 0 /\ made = 0 /\ link = 0 /\ acked = [c \in Stream |-> FALSE]
  /\ pushing = FALSE /\ late = {}
  /\ cap = [c \in Stream |-> [pc |-> "none", gen |-> 0]] /\ inf = {} /\ held = 0
  /\ retryRef = NoThread /\ retryStop = FALSE
  /\ pc = [t \in Thread |-> IF t \in Retry THEN "dead" ELSE "idle"]
  /\ job = [t \in Thread |-> "connect"] /\ hand = [t \in Thread |-> 0]
  /\ awaits = [t \in Thread |-> NoThread] /\ asked = 0

At(t, where) == pc[t] = where
Goto(t, where) == pc' = [pc EXCEPT ![t] = where]
Alive(r) == r # NoThread /\ pc[r] # "dead"
CaptureRuns(c) == cap[c].pc \notin {"none", "dead"}
CapGoto(c, where) == cap' = [cap EXCEPT ![c].pc = where]

(***************************************************************************)
(* camera_client: one command, under _ctrl_lock. _live_active is left out: *)
(* it is set after the lock is released, and only disconnect reads it, to  *)
(* decide on one more mLIStop before it closes the sockets.                *)
(***************************************************************************)
(* Sockets closed: the camera sees the connection end.                     *)
Close(c) ==
  /\ acked' = [acked EXCEPT ![c] = FALSE]
  /\ IF link = c THEN link' = 0 /\ pushing' = FALSE /\ late' = {}
                 ELSE UNCHANGED <<link, pushing, late>>

LostKeepsLine(c, cmd) ==            \* mutant: the sockets stay after a timeout
  /\ late' = late \cup {cmd} /\ pushing' \in {pushing, cmd = "start"}
  /\ UNCHANGED <<link, acked>>

(* No ack within the time, or a transport error: _invalidate_connection.   *)
(* Whether the camera has acted no longer matters.                         *)
Lost(c, cmd) == Close(c)

(* An ack is known by its type and the command's name only.                *)
LateAck(cmd) == cmd \in late

(* _cola_exchange for mLIStart and mLIStop returns. _cola_recv takes the   *)
(* first ack of the command's name, be it late, and skips everything else. *)
Acked(c, cmd) ==
  /\ link = c
  /\ acked' = [acked EXCEPT ![c] = cmd = "start"]
  /\ \/ ~LateAck(cmd) /\ pushing' = (cmd = "start") /\ UNCHANGED <<link, late>>
     \/ LateAck(cmd) /\ late' = late \ {cmd} /\ pushing' \in {pushing, cmd = "start"}
        /\ UNCHANGED link

(* It raises: the camera refuses (sFA) or the connection is lost.          *)
Failed(c, cmd) ==
  \/ link = c /\ UNCHANGED wire
  \/ Lost(c, cmd)

Exchange(c, cmd) == Acked(c, cmd) \/ Failed(c, cmd)

(***************************************************************************)
(* connect_camera, _connect_camera_now, _ensure_camera_stream              *)
(***************************************************************************)
(* _camera_stream_healthy                                                  *)
Healthy == connected /\ captureAlive
           /\ (held # 0 => CaptureRuns(held) /\ held \in inf)

(* plc_on: _ensure_camera_stream looks once.                               *)
Trigger ==
  /\ At(Plc, "idle") /\ asked < MaxAsked /\ asked' = asked + 1
  /\ IF Healthy THEN Goto(Plc, "go") /\ UNCHANGED job
     ELSE IF connected THEN Goto(Plc, "leave") /\ job' = [job EXCEPT ![Plc] = "disconnect"]
     ELSE Goto(Plc, "ask") /\ job' = [job EXCEPT ![Plc] = "connect"]
  /\ UNCHANGED <<flags, gates, client, made, wire, crew, retries, hand, awaits>>

(* /api/camera/connect and /api/camera/disconnect; lifespan stops the PLC  *)
(* service before it disconnects the camera.                               *)
Order ==
  /\ At(Operator, "idle") /\ asked < MaxAsked
  /\ \E order \in Orders :
       /\ order = "shutdown" => At(Plc, "idle")
       /\ asked' = IF order = "shutdown" THEN MaxAsked ELSE asked + 1
       /\ job' = [job EXCEPT ![Operator] = IF order = "connect" THEN "connect"
                                                              ELSE "disconnect"]
       /\ Goto(Operator, IF order = "connect" THEN "ask" ELSE "leave")
  /\ UNCHANGED <<flags, gates, client, made, wire, crew, retries, hand, awaits>>

Connected(t) == Goto(t, IF t = Plc THEN "go" ELSE "idle")

(* connect_camera: nothing to do while a capture thread runs.              *)
Ask(t) ==
  /\ At(t, "ask")
  /\ IF threadAlive THEN Connected(t) /\ UNCHANGED shutting
                    ELSE Goto(t, "cancel") /\ shutting' = FALSE
  /\ UNCHANGED <<state, connected, threadAlive, captureAlive, generation, gates,
                 client, made, wire, crew, retries, calls>>

(* _cancel_reconnect_locked: the thread is taken over under the lock, the  *)
(* event is set and the thread joined outside it, for 5 s at most.         *)
Cancel(t) ==
  /\ At(t, "cancel") /\ Goto(t, "signal")
  /\ awaits' = [awaits EXCEPT ![t] = retryRef] /\ retryRef' = NoThread
  /\ UNCHANGED <<flags, gates, client, made, wire, crew, retryStop, outlived, job, hand,
                 asked>>

Signal(t) ==
  /\ At(t, "signal") /\ Goto(t, "join") /\ retryStop' = TRUE
  /\ UNCHANGED <<flags, gates, client, made, wire, crew, retryRef, outlived, calls>>

(* _connect_camera_now begins                                              *)
Dials(t) == Goto(t, "dial") /\ state' = "CONNECTING" /\ connected' = FALSE

(* What _cancel_reconnect_locked was called for goes on.                   *)
Cancelled(t) ==
  /\ awaits' = [awaits EXCEPT ![t] = NoThread]
  /\ IF job[t] = "connect" THEN Dials(t) ELSE Goto(t, "halt") /\ UNCHANGED <<state, connected>>
  /\ UNCHANGED <<threadAlive, captureAlive, shutting, generation, gates, client, made,
                 wire, crew, retryRef, retryStop, job, hand, asked>>

JoinsNobody(t) ==                   \* mutant: the cancelled thread is not joined
  At(t, "join") /\ Cancelled(t) /\ UNCHANGED outlived

(* join returns: the thread has ended, or is still dialling after 5 s      *)
(* (three attempts of 8 s and a handshake of commands take longer).        *)
Join(t) ==
  /\ At(t, "join") /\ Cancelled(t)
  /\ outlived' = IF Alive(awaits[t]) THEN outlived \cup {awaits[t]} ELSE outlived

(* client.connect(): control socket, handshake, BLOB socket. The camera    *)
(* takes no second connection.                                             *)
DialWorks(t) ==
  /\ At(t, "dial") /\ link = 0 /\ made < MaxStreams
  /\ made' = made + 1 /\ link' = made + 1
  /\ hand' = [hand EXCEPT ![t] = made + 1]
  /\ Goto(t, "publish")
  /\ UNCHANGED <<flags, gates, client, acked, pushing, late, crew, retries, job, awaits,
                 asked>>

(* The client of a working stream is forgotten too.                        *)
DialFails(t) ==
  /\ At(t, "dial") /\ Goto(t, "schedule")
  /\ client' = 0 /\ state' = "FAILED"
  /\ UNCHANGED <<connected, threadAlive, captureAlive, shutting, generation, gates,
                 made, wire, crew, retries, calls>>

Publish(t) ==
  /\ At(t, "publish") /\ Goto(t, "spawn")
  /\ client' = hand[t] /\ stopEvent' = FALSE /\ paused' = FALSE /\ captureAlive' = TRUE
  /\ UNCHANGED <<state, connected, threadAlive, shutting, generation, processing,
                 pausing, made, wire, crew, retries, calls>>

Spawn(t) ==
  /\ At(t, "spawn")
  /\ generation' = generation + 1 /\ threadAlive' = TRUE
  /\ cap' = [cap EXCEPT ![hand[t]] = [pc |-> "start", gen |-> generation + 1]]
  /\ inf' = inf \cup {hand[t]} /\ held' = hand[t]
  /\ hand' = [hand EXCEPT ![t] = 0]
  /\ IF t \in Retry THEN Goto(t, "dead") ELSE Connected(t)
  /\ UNCHANGED <<state, connected, captureAlive, shutting, gates, client, made, wire,
                 retries, job, awaits, asked>>

(* A client nobody refers to closes its sockets when it is collected.      *)
Collect ==
  /\ link # 0 /\ link # client /\ \A t \in Thread : hand[t] # link
  /\ Close(link)
  /\ UNCHANGED <<flags, gates, client, made, crew, retries, pc, calls>>

(***************************************************************************)
(* _schedule_reconnect and _reconnect_loop                                 *)
(***************************************************************************)
(* Under _reconnect_lock; go is the program counter of the rest.           *)
Schedule(go) ==
  IF shutting \/ Alive(retryRef) THEN pc' = go /\ UNCHANGED <<state, retries>>
  ELSE \E r \in Retry :
         /\ pc[r] = "dead" /\ \A t \in Thread : awaits[t] # r
         /\ state' = "RECONNECTING" /\ retryStop' = FALSE /\ retryRef' = r
         /\ outlived' = outlived \ {r}
         /\ pc' = [go EXCEPT ![r] = "loop"]

(* The rest of _connect_camera_now after a failure                         *)
ScheduleRetry(t) ==
  /\ At(t, "schedule")
  /\ Schedule([pc EXCEPT ![t] = IF t \in Retry THEN "loop" ELSE "idle"])
  /\ UNCHANGED <<connected, threadAlive, captureAlive, shutting, generation, gates,
                 client, made, wire, crew, calls>>

(* One round, at the end of its delay; reconnect_max_attempts is 0: it     *)
(* tries for ever.                                                         *)
RetryLoop(r) ==
  /\ At(r, "loop")
  /\ IF retryStop \/ shutting
       THEN Goto(r, "dead") /\ outlived' = outlived \ {r} /\ UNCHANGED <<state, connected>>
       ELSE Dials(r) /\ UNCHANGED outlived
  /\ UNCHANGED <<threadAlive, captureAlive, shutting, generation, gates, client, made,
                 wire, crew, retryRef, retryStop, calls>>

(***************************************************************************)
(* _stream_loop_wrapper with _capture_loop; _inference_loop                *)
(***************************************************************************)
(* start_stream; self.client may be None or closed by then.                *)
CaptureStarts(c) ==
  /\ cap[c].pc = "start"
  /\ \/ /\ client # 0 /\ Acked(client, "start")
        /\ CapGoto(c, "read") /\ UNCHANGED captureAlive
     \/ /\ IF client = 0 THEN UNCHANGED wire ELSE Failed(client, "start")
        /\ CapGoto(c, "wrap") /\ captureAlive' = FALSE
  /\ UNCHANGED <<state, connected, threadAlive, shutting, generation, gates, client,
                 made, inf, held, retries, pc, calls>>

Reads(c) == cap[c].pc = "read" /\ ~stopEvent /\ ~paused

(* read_stream_frame returns a payload                                     *)
Received == client # 0 /\ link = client /\ pushing

(* What a read may come to otherwise: nothing within 2 s, a socket that is *)
(* closed or out of step, a payload decode_payload makes nothing of        *)
Miss ==
  {"error"} \cup (IF client # 0 /\ link = client THEN {"timeout"} ELSE {})
            \cup (IF Received THEN {"undecodable"} ELSE {})

GoodFrame(c) ==
  /\ Reads(c) /\ Received
  /\ connected' = TRUE /\ state' = "CONNECTED"
  /\ UNCHANGED <<threadAlive, captureAlive, shutting, generation, gates, client, made,
                 wire, crew, retries, pc, calls>>

(* A timeout below the limit; other misses below it leave no trace here.   *)
MissedFrame(c) ==
  /\ Reads(c) /\ "timeout" \in Miss /\ state = "CONNECTED"
  /\ state' = "DEGRADED"
  /\ UNCHANGED <<connected, threadAlive, captureAlive, shutting, generation, gates,
                 client, made, wire, crew, retries, pc, calls>>

(* max_consecutive_timeouts misses of one kind                             *)
GiveUp(c) ==
  /\ Reads(c)
  /\ connected' = FALSE
  /\ \E miss \in Miss : state' = IF miss = "timeout" THEN "STALE" ELSE "FAILED"
  /\ CapGoto(c, "end")
  /\ UNCHANGED <<threadAlive, captureAlive, shutting, generation, gates, client, made,
                 wire, inf, held, retries, pc, calls>>

CaptureStopped(c) ==
  /\ cap[c].pc = "read" /\ stopEvent
  /\ CapGoto(c, "end")
  /\ UNCHANGED <<flags, gates, client, made, wire, inf, held, retries, pc, calls>>

(* After the loop: stop_stream, its failure ignored                        *)
CaptureEnds(c) ==
  /\ cap[c].pc = "end"
  /\ captureAlive' = FALSE
  /\ IF client = 0 THEN UNCHANGED wire ELSE Exchange(client, "stop")
  /\ CapGoto(c, "wrap")
  /\ UNCHANGED <<state, connected, threadAlive, shutting, generation, gates, client,
                 made, inf, held, retries, pc, calls>>

CaptureWraps(c) ==
  /\ cap[c].pc = "wrap"
  /\ captureAlive' = FALSE /\ threadAlive' = FALSE
  /\ IF cap[c].gen = generation
       THEN /\ connected' = FALSE
            /\ state' = IF shutting THEN "DISCONNECTED" ELSE "FAILED"
            /\ CapGoto(c, IF shutting THEN "dead" ELSE "schedule")
       ELSE CapGoto(c, "dead") /\ UNCHANGED <<connected, state>>
  /\ UNCHANGED <<shutting, generation, gates, client, made, wire, inf, held, retries,
                 pc, calls>>

CaptureSchedules(c) ==
  /\ cap[c].pc = "schedule"
  /\ Schedule(pc) /\ CapGoto(c, "dead")
  /\ UNCHANGED <<connected, threadAlive, captureAlive, shutting, generation, gates,
                 client, made, wire, inf, held, calls>>

InferenceEnds(c) ==
  /\ c \in inf /\ (stopEvent \/ ~captureAlive)
  /\ inf' = inf \ {c}
  /\ UNCHANGED <<flags, gates, client, made, wire, cap, held, retries, pc, calls>>

(***************************************************************************)
(* start_processing, and the end of a capture                              *)
(***************************************************************************)
GoNowhere ==
  /\ At(Plc, "go") /\ ~connected /\ ~captureAlive /\ Goto(Plc, "idle")
  /\ UNCHANGED <<flags, gates, client, made, wire, crew, retries, calls>>

Go ==
  /\ At(Plc, "go") /\ (connected \/ captureAlive)
  /\ IF paused THEN Goto(Plc, "resume") /\ UNCHANGED processing
               ELSE Goto(Plc, "idle") /\ processing' = TRUE
  /\ paused' = FALSE
  /\ UNCHANGED <<flags, stopEvent, pausing, client, made, wire, crew, retries, calls>>

(* resume_camera_stream: a failure is logged                               *)
Resume ==
  /\ At(Plc, "resume") /\ Goto(Plc, "idle")
  /\ IF client = 0 THEN UNCHANGED wire ELSE Exchange(client, "start")
  /\ processing' = TRUE
  /\ UNCHANGED <<flags, stopEvent, paused, pausing, client, made, crew, retries, calls>>

(* The plate leaves, the search times out or the session closes:           *)
(* stop_processing, and pause_camera_stream up to its command. A session   *)
(* needs a trigger. Bound: one thread at a time is in it.                  *)
CaptureReleased ==
  /\ asked > 0 /\ ~pausing /\ (processing \/ ~paused)
  /\ processing' = FALSE /\ paused' = TRUE /\ pausing' = ~paused
  /\ UNCHANGED <<flags, stopEvent, client, made, wire, crew, retries, pc, calls>>

StreamPauses ==
  /\ pausing /\ pausing' = FALSE
  /\ IF client = 0 THEN UNCHANGED wire ELSE Exchange(client, "stop")
  /\ UNCHANGED <<flags, stopEvent, paused, processing, client, made, crew, retries, pc,
                 calls>>

(***************************************************************************)
(* disconnect_camera: by the operator, by a trigger that found the stream  *)
(* dead, by the shutdown of the service                                    *)
(***************************************************************************)
Leave(t) ==
  /\ At(t, "leave") /\ Goto(t, "cancel")
  /\ shutting' = TRUE /\ state' = "STOPPING" /\ generation' = generation + 1
  /\ outlived' = {r \in outlived : pc[r] # "dead"}
  /\ UNCHANGED <<connected, threadAlive, captureAlive, gates, client, made, wire, crew,
                 retryRef, retryStop, calls>>

HaltSilently(t) ==                  \* mutant: the threads are not told to stop
  /\ At(t, "halt") /\ Goto(t, "threads")
  /\ processing' = FALSE
  /\ UNCHANGED <<flags, stopEvent, paused, pausing, client, made, wire, crew, retries,
                 calls>>

Halt(t) ==
  /\ At(t, "halt") /\ Goto(t, "threads")
  /\ processing' = FALSE /\ stopEvent' = TRUE
  /\ UNCHANGED <<flags, paused, pausing, client, made, wire, crew, retries, calls>>

(* Each thread is joined for 8 s at most, and forgotten then.              *)
JoinThreads(t) ==
  /\ At(t, "threads") /\ Goto(t, "close")
  /\ held' = 0
  /\ UNCHANGED <<flags, gates, client, made, wire, cap, inf, retries, calls>>

(* client.disconnect(): the commands may fail, the sockets are closed.     *)
CloseClient(t) ==
  /\ At(t, "close")
  /\ captureAlive' = FALSE /\ client' = 0
  /\ connected' = FALSE /\ threadAlive' = FALSE /\ state' = "DISCONNECTED"
  /\ IF client = 0 THEN UNCHANGED wire ELSE Close(client)
  /\ IF t = Plc THEN Goto(t, "ask") /\ job' = [job EXCEPT ![t] = "connect"]
                ELSE Goto(t, "idle") /\ UNCHANGED job
  /\ UNCHANGED <<shutting, generation, gates, made, crew, retries, hand, awaits, asked>>

(***************************************************************************)
Connects(t) ==
  \/ Ask(t) \/ Cancel(t) \/ Signal(t) \/ Join(t) \/ DialWorks(t)
  \/ DialFails(t) \/ Publish(t) \/ Spawn(t) \/ ScheduleRetry(t)
Disconnects(t) == Leave(t) \/ Halt(t) \/ JoinThreads(t) \/ CloseClient(t)
Captures(c) ==
  \/ CaptureStarts(c) \/ GiveUp(c) \/ CaptureStopped(c) \/ CaptureEnds(c)
  \/ CaptureWraps(c) \/ CaptureSchedules(c)
Works(t) == Connects(t) \/ Disconnects(t)

Next ==
  \/ Trigger \/ Order \/ Collect \/ GoNowhere \/ Go \/ Resume
  \/ CaptureReleased \/ StreamPauses
  \/ \E t \in Thread : Works(t)
  \/ \E r \in Retry : RetryLoop(r)
  \/ \E c \in Stream : Captures(c) \/ GoodFrame(c) \/ MissedFrame(c) \/ InferenceEnds(c)

Spec == Init /\ [][Next]_vars

(* Every thread that can take a step takes one; the camera does what it    *)
(* likes. Commands, dials and reads have timeouts.                         *)
FairSpec ==
  /\ Spec
  /\ \A t \in Thread : WF_vars(Works(t) \/ (t \in Retry /\ RetryLoop(t)))
  /\ \A c \in Stream : WF_vars(InferenceEnds(c))
  /\ \A c \in Stream : WF_vars(CaptureStarts(c) \/ CaptureStopped(c) \/ CaptureEnds(c)
                              \/ CaptureWraps(c) \/ CaptureSchedules(c))
=============================================================================
