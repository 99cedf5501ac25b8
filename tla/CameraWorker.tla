---------------------------- MODULE CameraWorker ----------------------------
(***************************************************************************)
(* CameraWorker (app/video/worker.py) with its LatestFrameBuffer           *)
(* (app/video/buffer.py): the life cycle of one camera's acquisition       *)
(* thread.                                                                 *)
(*                                                                         *)
(* Controllers call start() and stop(); every start() that takes effect    *)
(* makes a new thread, a member of Runs, that runs _run: open the source,  *)
(* read frames into the buffer, reconnect with a backoff when the stream   *)
(* is lost, give up after limit fruitless attempts (0: never), and close   *)
(* everything in its finally clause.  A consumer takes the newest frame.   *)
(*                                                                         *)
(* The source is reduced to what CaptureSource shows of it: an open call   *)
(* takes its time and then succeeds or raises, also when a close() came    *)
(* meanwhile, and reads yield no frame once the source is closed.          *)
(***************************************************************************)
EXTENDS Naturals, Sequences

CONSTANTS
    Starters,      \* controllers that call start() and stop()
    Stoppers,      \* threads that only call stop()
    Runs,          \* thread objects; a dead one nobody refers to is recycled
    None,          \* Python's None
    Limits,        \* the values max_reconnect_attempts is configured with
    BaseDelay,     \* reconnect_delay_s, in units of 50 ms
    MaxBuffer,     \* max_buffer_frames
    MaxFrames,     \* bound: frames a thread receives
    MaxReconnects  \* bound: reconnect attempts of one outage

ASSUME NoneAssumption   == None \notin Runs
ASSUME LimitsAssumption == Limits \subseteq Nat
ASSUME BoundsAssumption == /\ BaseDelay \in Nat /\ MaxBuffer \in Nat \ {0}
                           /\ MaxFrames \in Nat /\ MaxReconnects \in Nat

Controllers == Starters \cup Stoppers

VARIABLES
    limit,      \* _max_reconnect_attempts
    state,      \* _state
    stopEvent,  \* _stop_event
    thread,     \* _thread
    info,       \* _stream_info is set
    counts,     \* _frames_received and _reconnect_count
    buffer,     \* _buffer: [items, closed, dropped]
    run,        \* the threads: where each one is, and the locals of _run
    source,     \* the source holds an open session
    ctl,        \* the controllers: where each one is, its thread, its outcome
    tries,      \* history: reconnect calls since the last frame
    taken,      \* history: frames the consumer took from this buffer
    raised      \* history: an exception has failed the worker

object  == <<limit, state, stopEvent, thread, info, counts>>
history == <<tries, taken, raised>>
vars    == <<object, buffer, run, source, ctl, history>>

States == {"stopped", "starting", "running", "reconnecting", "failed", "stopping"}
LoopPcs == {"loop", "opening", "open", "schedule", "backoff", "reconnect", "failing",
            "read", "frame", "count", "put", "announce", "noframe", "lost", "closing"}

EmptyBuffer == [items |-> <<>>, closed |-> FALSE, dropped |-> 0]
ZeroCounts  == [frames |-> 0, reconnects |-> 0]
FreshRun(label) == [pc |-> label, connected |-> FALSE, initial |-> TRUE, awaiting |-> FALSE,
                    reconnecting |-> FALSE, grace |-> FALSE, attempts |-> 0, delay |-> 0]

Init ==
    /\ limit \in Limits
    /\ state = "stopped"
    /\ stopEvent = FALSE
    /\ thread = None
    /\ info = FALSE
    /\ counts = ZeroCounts
    /\ buffer = EmptyBuffer
    /\ run = [r \in Runs |-> FreshRun("dead")]
    /\ source = FALSE
    /\ ctl = [c \in Controllers |-> [pc |-> "idle", thread |-> None, outcome |-> "none"]]
    /\ tries = 0
    /\ taken = 0
    /\ raised = FALSE

-----------------------------------------------------------------------------
(* Operators.  Those named Bug... are plausible mistakes in the definition *)
(* that follows them; nothing here uses them.                              *)

\* threading.Thread.is_alive.
Alive(r) == run[r].pc \notin {"created", "dead"}

\* _set_state: what state becomes when the loop asks for s.
SetState(s) == IF state = "failed" \/ stopEvent THEN state ELSE s

BackoffFactors == <<1, 2, 3, 5, 5>>
MinDelay == 1
MaxDelay == 100

\* reconnect_delay_for_attempt, in units of 50 ms.
ReconnectDelay(base, n) ==
    LET factor == BackoffFactors[IF n < 5 THEN n ELSE 5]
        delay  == (IF base < MinDelay THEN MinDelay ELSE base) * factor
    IN IF base = 0 THEN MinDelay ELSE IF delay > MaxDelay THEN MaxDelay ELSE delay

BugPutUnbounded(b, f) == IF b.closed THEN b ELSE [b EXCEPT !.items = Append(@, f)]

\* LatestFrameBuffer.put: drop the oldest frames of a full buffer.
Put(b, f) ==
    IF b.closed THEN b
    ELSE [b EXCEPT !.items   = Append(IF Len(@) >= MaxBuffer THEN Tail(@) ELSE @, f),
                   !.dropped = IF Len(b.items) >= MaxBuffer THEN @ + 1 ELSE @]

\* LatestFrameBuffer.get_latest: the newest frame goes out, older ones drop.
TakeLatest(b) == [b EXCEPT !.items = <<>>, !.dropped = @ + Len(b.items) - 1]

Goto(r, label) == run' = [run EXCEPT ![r].pc = label]
CtlGoto(c, label) == ctl' = [ctl EXCEPT ![c].pc = label]
Return(c, outcome) == ctl' = [ctl EXCEPT ![c] = [pc |-> "idle", thread |-> None,
                                                 outcome |-> outcome]]

-----------------------------------------------------------------------------
(* start().  The application starts a worker only when no stop() of it is  *)
(* in progress in another thread: CameraRuntime makes both calls itself.   *)

StartAllowed(c) == /\ ctl[c].pc = "idle"
                   /\ \A d \in Controllers : ctl[d].pc = "idle"

BugStartIgnoresThread == state \notin {"failed", "stopping"}

StartProceeds == /\ state \notin {"failed", "stopping"}
                 /\ ~(thread /= None /\ Alive(thread))

\* The early exits, in the order of the code: a failed worker raises, a
\* live thread makes the call a no-op, and only then STOPPING raises.
StartRefused(c) ==
    /\ StartAllowed(c)
    /\ ~StartProceeds
    /\ Return(c, IF state /= "failed" /\ thread /= None /\ Alive(thread)
                   THEN "ignored" ELSE "raised")
    /\ UNCHANGED <<object, buffer, run, source, history>>

StartLocked(c) ==
    /\ StartAllowed(c)
    /\ StartProceeds
    /\ \E r \in Runs :
         /\ run[r].pc = "dead" /\ r /= thread
         /\ thread' = r
         /\ run' = [run EXCEPT ![r] = FreshRun("created")]
         /\ ctl' = [ctl EXCEPT ![c] = [pc |-> "launch", thread |-> r, outcome |-> "none"]]
    /\ buffer' = EmptyBuffer
    /\ stopEvent' = FALSE
    /\ info' = FALSE
    /\ counts' = ZeroCounts
    /\ state' = "starting"
    /\ tries' = 0 /\ taken' = 0 /\ raised' = FALSE
    /\ UNCHANGED <<limit, source>>

\* thread.start(), after the lock was released.
StartLaunch(c) ==
    /\ ctl[c].pc = "launch"
    /\ Goto(ctl[c].thread, "loop")
    /\ Return(c, "started")
    /\ UNCHANGED <<object, buffer, source, history>>

-----------------------------------------------------------------------------
(* stop().                                                                 *)

StopLocked(c) ==
    /\ ctl[c].pc = "idle"
    /\ IF thread = None
         THEN /\ buffer' = [buffer EXCEPT !.closed = TRUE]
              /\ state' = IF state = "failed" THEN state ELSE "stopped"
              /\ Return(c, "stopped")
              /\ UNCHANGED stopEvent
         ELSE /\ state' = IF state = "failed" THEN state ELSE "stopping"
              /\ stopEvent' = TRUE
              /\ ctl' = [ctl EXCEPT ![c] = [pc |-> "close", thread |-> thread,
                                            outcome |-> "none"]]
              /\ UNCHANGED buffer
    /\ UNCHANGED <<limit, thread, info, counts, run, source, history>>

StopClosesSource(c) ==
    /\ ctl[c].pc = "close"
    /\ source' = FALSE
    /\ CtlGoto(c, "join")
    /\ UNCHANGED <<object, buffer, run, history>>

\* thread.join(timeout): it returns when the thread is dead or the timeout
\* passes, and raises for a thread that start() has not launched yet.
StopJoin(c) ==
    /\ ctl[c].pc = "join"
    /\ IF run[ctl[c].thread].pc = "created" THEN Return(c, "raised")
                                            ELSE CtlGoto(c, "finish")
    /\ UNCHANGED <<object, buffer, run, source, history>>

BugStopTrustsJoin(c) ==
    /\ ctl[c].pc = "finish"
    /\ state' = IF state /= "failed" THEN "stopped" ELSE state
    /\ Return(c, "stopped")
    /\ UNCHANGED <<limit, stopEvent, thread, info, counts, buffer, run, source, history>>

\* After the join: STOPPED only if it found the thread dead.
StopFinish(c) ==
    /\ ctl[c].pc = "finish"
    /\ state' = IF ~Alive(ctl[c].thread) /\ state /= "failed" THEN "stopped" ELSE state
    /\ Return(c, "stopped")
    /\ UNCHANGED <<limit, stopEvent, thread, info, counts, buffer, run, source, history>>

-----------------------------------------------------------------------------
(* _run.                                                                   *)

\* The head of the loop: only a look at the stop event and at the locals.
Loop(r) ==
    /\ run[r].pc = "loop"
    /\ Goto(r, IF stopEvent THEN "finally"
               ELSE IF run[r].connected THEN "read"
               ELSE IF run[r].initial THEN "opening"
               ELSE IF limit > 0 /\ run[r].attempts >= limit THEN "failing"
               ELSE "schedule")
    /\ UNCHANGED <<object, buffer, source, ctl, history>>

AnnounceStarting(r) ==
    /\ run[r].pc = "opening"
    /\ state' = SetState("starting")
    /\ Goto(r, "open")
    /\ UNCHANGED <<limit, stopEvent, thread, info, counts, buffer, source, ctl, history>>

\* Announce RECONNECTING and work out the delay of the next attempt.
Schedule(r) ==
    /\ run[r].pc = "schedule"
    /\ state' = SetState("reconnecting")
    /\ run' = [run EXCEPT ![r].pc = "backoff",
                          ![r].delay = ReconnectDelay(BaseDelay, run[r].attempts + 1)]
    /\ UNCHANGED <<limit, stopEvent, thread, info, counts, buffer, source, ctl, history>>

\* _fail: reconnect attempts exhausted.
Fail(r) ==
    /\ run[r].pc = "failing"
    /\ state' = "failed"
    /\ Goto(r, "finally")
    /\ UNCHANGED <<limit, stopEvent, thread, info, counts, buffer, source, ctl, history>>

Connected(r, isInitial, attempts) ==
    /\ source' = TRUE
    /\ info' = TRUE
    /\ run' = [run EXCEPT ![r] = [@ EXCEPT !.pc = "loop", !.connected = TRUE,
                 !.awaiting = TRUE, !.grace = TRUE, !.reconnecting = ~isInitial,
                 !.attempts = attempts]]

\* The initial open returns a stream or raises.
Open(r) ==
    /\ run[r].pc = "open"
    /\ \/ Connected(r, TRUE, 0)
       \/ /\ run' = [run EXCEPT ![r].pc = "lost", ![r].initial = FALSE]
          /\ source' = FALSE
          /\ UNCHANGED info
    /\ UNCHANGED <<limit, state, stopEvent, thread, counts, buffer, ctl, history>>

\* The backoff ends: stop() interrupts it, or the delay has passed.
Backoff(r) ==
    /\ run[r].pc = "backoff"
    /\ IF stopEvent
         THEN Goto(r, "finally") /\ UNCHANGED <<counts, tries>>
         ELSE /\ run[r].attempts < MaxReconnects
              /\ run' = [run EXCEPT ![r].pc = "reconnect", ![r].attempts = @ + 1,
                                        ![r].delay = 0]
              /\ counts' = [counts EXCEPT !.reconnects = @ + 1]
              /\ tries' = tries + 1
    /\ UNCHANGED <<limit, state, stopEvent, thread, info, buffer, source, ctl, taken, raised>>

BugConnectResetsAttempts(r) ==
    /\ run[r].pc = "reconnect"
    /\ \/ Connected(r, FALSE, 0)
       \/ /\ Goto(r, "lost")
          /\ source' = FALSE
          /\ UNCHANGED info
    /\ UNCHANGED <<limit, state, stopEvent, thread, counts, buffer, ctl, history>>

\* A reconnect attempt returns a stream or raises; it is the first frame,
\* not the connection, that ends the outage.
Reconnect(r) ==
    /\ run[r].pc = "reconnect"
    /\ \/ Connected(r, FALSE, run[r].attempts)
       \/ /\ Goto(r, "lost")
          /\ source' = FALSE
          /\ UNCHANGED info
    /\ UNCHANGED <<limit, state, stopEvent, thread, counts, buffer, ctl, history>>

\* source.read() yields a frame, another status, or raises.
Read(r) ==
    /\ run[r].pc = "read"
    /\ \/ source /\ counts.frames < MaxFrames /\ Goto(r, "frame")
       \/ Goto(r, "noframe")
    /\ UNCHANGED <<object, buffer, source, ctl, history>>

\* A frame arrived.  The stop event is looked at, ...
Frame(r) ==
    /\ run[r].pc = "frame"
    /\ Goto(r, IF stopEvent THEN "finally" ELSE "count")
    /\ UNCHANGED <<object, buffer, source, ctl, history>>

\* ... the frame is counted, under the worker's lock, ...
CountFrame(r) ==
    /\ run[r].pc = "count"
    /\ counts' = [counts EXCEPT !.frames = @ + 1]
    /\ Goto(r, "put")
    /\ UNCHANGED <<limit, state, stopEvent, thread, info, buffer, source, ctl, history>>

\* ... and goes into the buffer, under the buffer's.
PutFrame(r) ==
    /\ run[r].pc = "put"
    /\ buffer' = Put(buffer, counts.frames)
    /\ Goto(r, IF run[r].awaiting THEN "announce" ELSE "loop")
    /\ tries' = 0
    /\ UNCHANGED <<object, source, ctl, taken, raised>>

\* The first frame of a session ends the outage: RUNNING, and after a
\* reconnect the failed attempts are forgotten.
Announce(r) ==
    /\ run[r].pc = "announce"
    /\ state' = SetState("running")
    /\ run' = [run EXCEPT ![r].pc = "loop", ![r].awaiting = FALSE,
                          ![r].attempts = IF run[r].reconnecting THEN 0 ELSE @]
    /\ UNCHANGED <<limit, stopEvent, thread, info, counts, buffer, source, ctl, history>>

\* No frame: within the startup grace try again, else the stream is lost.
NoFrame(r) ==
    /\ run[r].pc = "noframe"
    /\ IF stopEvent
         THEN Goto(r, "finally")
         ELSE IF run[r].awaiting /\ run[r].grace
                THEN Goto(r, "loop")
                ELSE run' = [run EXCEPT ![r].pc = "lost", ![r].connected = FALSE,
                                        ![r].initial = FALSE]
    /\ UNCHANGED <<object, buffer, source, ctl, history>>

\* Time passes: startup_deadline.
GraceExpires(r) ==
    /\ run[r].grace
    /\ run' = [run EXCEPT ![r].grace = FALSE]
    /\ UNCHANGED <<object, buffer, source, ctl, history>>

\* _mark_disconnected: the state and the stream info, then the source.
MarkDisconnected(r) ==
    /\ run[r].pc = "lost"
    /\ state' = SetState("reconnecting")
    /\ info' = FALSE
    /\ Goto(r, "closing")
    /\ UNCHANGED <<limit, stopEvent, thread, counts, buffer, source, ctl, history>>

CloseForReconnect(r) ==
    /\ run[r].pc = "closing"
    /\ source' = FALSE
    /\ Goto(r, "loop")
    /\ UNCHANGED <<object, buffer, ctl, history>>

\* What is raised outside the inner try statements (put() raises nothing) ends
\* the loop; the guard of the outer one looks at the stop event, ...
LoopRaises(r) ==
    /\ run[r].pc \in LoopPcs \ {"open", "reconnect", "read", "put"}
    /\ Goto(r, IF stopEvent THEN "finally" ELSE "raised")
    /\ UNCHANGED <<object, buffer, source, ctl, history>>

\* ... and then fails the worker, which a stop() may have been asked for by now.
GuardFails(r) ==
    /\ run[r].pc = "raised"
    /\ state' = "failed" /\ raised' = TRUE
    /\ Goto(r, "finally")
    /\ UNCHANGED <<limit, stopEvent, thread, info, counts, buffer, source, ctl, tries, taken>>

BugFinallyTrustsStop(r) ==
    /\ run[r].pc = "finally"
    /\ source' = (source /\ stopEvent)
    /\ Goto(r, "shutdown")
    /\ UNCHANGED <<object, buffer, ctl, history>>

\* The finally clause: close the source, ...
FinallyClose(r) ==
    /\ run[r].pc = "finally"
    /\ source' = FALSE
    /\ Goto(r, "shutdown")
    /\ UNCHANGED <<object, buffer, ctl, history>>

BugShutdownForgetsFailure(r) ==
    /\ run[r].pc = "shutdown"
    /\ buffer' = [buffer EXCEPT !.closed = TRUE]
    /\ state' = "stopped"
    /\ Goto(r, "exiting")
    /\ UNCHANGED <<limit, stopEvent, thread, info, counts, source, ctl, history>>

\* ... close the buffer and publish STOPPED, unless the worker failed.
Shutdown(r) ==
    /\ run[r].pc = "shutdown"
    /\ buffer' = [buffer EXCEPT !.closed = TRUE]
    /\ state' = IF state = "failed" THEN state ELSE "stopped"
    /\ Goto(r, "exiting")
    /\ UNCHANGED <<limit, stopEvent, thread, info, counts, source, ctl, history>>

\* The thread is alive until the interpreter has taken it down.
Exit(r) ==
    /\ run[r].pc = "exiting"
    /\ run' = [run EXCEPT ![r] = FreshRun("dead")]
    /\ UNCHANGED <<object, buffer, source, ctl, history>>

-----------------------------------------------------------------------------
\* get_latest, from whichever thread consumes the frames.
GetLatest ==
    /\ buffer.items /= <<>>
    /\ buffer' = TakeLatest(buffer)
    /\ taken' = taken + 1
    /\ UNCHANGED <<object, run, source, ctl, tries, raised>>

-----------------------------------------------------------------------------
Start(c) == StartRefused(c) \/ StartLocked(c)

StopStep(c) == StopClosesSource(c) \/ StopJoin(c) \/ StopFinish(c)

RunStep(r) == \/ Loop(r) \/ AnnounceStarting(r) \/ Open(r) \/ Schedule(r) \/ Backoff(r)
              \/ Reconnect(r) \/ Fail(r) \/ Read(r) \/ Frame(r) \/ CountFrame(r) \/ PutFrame(r)
              \/ Announce(r) \/ LoopRaises(r) \/ GuardFails(r) \/ NoFrame(r) \/ MarkDisconnected(r) \/ CloseForReconnect(r)
              \/ FinallyClose(r) \/ Shutdown(r) \/ Exit(r)

Next ==
    \/ \E c \in Starters : Start(c) \/ StartLaunch(c)
    \/ \E c \in Controllers : StopLocked(c) \/ StopStep(c)
    \/ \E r \in Runs : RunStep(r) \/ GraceExpires(r)
    \/ GetLatest

(* A call in progress goes on, a launched thread runs, time passes, and    *)
(* the source's calls return (CaptureSource shows under what fairness).    *)
(* Nothing is assumed about the network, the controllers' calls or the     *)
(* consumer.                                                               *)
Fairness ==
    /\ \A c \in Controllers : WF_vars(StartLaunch(c)) /\ WF_vars(StopStep(c))
    /\ \A r \in Runs : WF_vars(RunStep(r)) /\ WF_vars(GraceExpires(r))

Spec == Init /\ [][Next]_vars /\ Fairness

-----------------------------------------------------------------------------
(* Properties.                                                             *)

\* The type of every variable; the frame buffer never outgrows its bound.
TypeOK ==
    /\ limit \in Limits
    /\ state \in States
    /\ stopEvent \in BOOLEAN
    /\ thread \in Runs \cup {None}
    /\ info \in BOOLEAN
    /\ counts \in [frames : Nat, reconnects : Nat]
    /\ buffer \in [items : Seq(Nat), closed : BOOLEAN, dropped : Nat]
    /\ Len(buffer.items) <= MaxBuffer
    /\ run \in [Runs -> [pc : LoopPcs \cup {"created", "raised", "finally", "shutdown",
                                            "exiting", "dead"},
                         connected : BOOLEAN, initial : BOOLEAN, awaiting : BOOLEAN,
                         reconnecting : BOOLEAN, grace : BOOLEAN, attempts : Nat,
                         delay : Nat]]
    /\ source \in BOOLEAN
    /\ ctl \in [Controllers -> [pc : {"idle", "launch", "close", "join", "finish"},
                                thread : Runs \cup {None},
                                outcome : {"none", "raised", "ignored", "started",
                                           "stopped"}]]
    /\ tries \in Nat
    /\ taken \in Nat
    /\ raised \in BOOLEAN

\* "Own one source, one control thread": no two threads are in _run at
\* once, whatever the timing of stop, its join timeout and the next start.
OneThread ==
    \A r, q \in Runs : Alive(r) /\ Alive(q) => r = q

\* The state tells the truth about the source.  RUNNING is never shown over
\* one that is closed: stop() announces STOPPING before it closes it, and the
\* loop leaves RUNNING first.  STOPPED means that the thread is out of its
\* loop, the source closed and consumers released.
StateIsTrue ==
    /\ state = "running" =>
         /\ thread /= None /\ source
         /\ run[thread].pc \in {"loop", "read", "frame", "count", "put", "noframe", "lost", "raised"}
    /\ state = "stopped" /\ thread /= None =>
         run[thread].pc \in {"exiting", "dead"} /\ ~source /\ buffer.closed

\* The retry budget: the reconnects since the last frame, however their
\* sessions went, never exceed the limit, and each one waited for the delay
\* that belongs to its rank in the outage.  But for an exception that nobody
\* expected a worker fails only when it has used them all, and with limit 0
\* it retries for ever.
RetryBudget ==
    /\ limit > 0 => tries <= limit
    /\ state = "failed" => raised \/ (limit > 0 /\ tries = limit)
    /\ \A r \in Runs : run[r].pc = "backoff" =>
         run[r].delay = ReconnectDelay(BaseDelay, tries + 1)

\* Every frame counted by the worker is taken, dropped, still buffered, or in
\* the thread's hand on its way from the count to the buffer.
FramesAccounted ==
    counts.frames = taken + buffer.dropped + Len(buffer.items)
                      + (IF \E r \in Runs : run[r].pc = "put" THEN 1 ELSE 0)

\* What the worker counts is what happened: the tries of the outage against
\* its limit, and every frame.
CountersAreTrue == RetryBudget /\ FramesAccounted

\* A failed worker stays failed: neither its own finally clause nor a late
\* stop() turns FAILED into STOPPED, and start() never revives it.
FailedIsFinal == [][state = "failed" => state' = "failed"]_vars

\* stop() and failure release everything in the end: the thread dies, the
\* source is closed and the buffer refuses frames (or the worker, by then
\* stopped, was started again).
Released == \A r \in Runs : ~Alive(r) /\ run[r].pc /= "created"

WorkerReleases ==
    (stopEvent \/ state = "failed")
        ~> ((Released /\ ~source /\ buffer.closed) \/ (~stopEvent /\ state /= "failed"))

\* worker.py:163, 'CameraWorker is still stopping': a start() that meets a
\* worker in STOPPING raises, so that the caller knows it did not start.
StartWhileStoppingRaises ==
    [][\A c \in Starters : StartRefused(c) /\ state = "stopping"
         => ctl'[c].outcome = "raised"]_vars
=============================================================================
