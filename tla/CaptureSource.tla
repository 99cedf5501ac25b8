--------------------------- MODULE CaptureSource ---------------------------
(***************************************************************************)
(* OpenCVVideoSource (app/video/opencv_source.py): one camera stream,      *)
(* decoded by a reader thread, behind a bounded queue of recent frames.    *)
(*                                                                         *)
(* The threads that meet in it:                                            *)
(*   - Owner, the CameraWorker thread, which opens, reads, reconnects and  *)
(*     finally closes the source;                                          *)
(*   - Closers, threads inside CameraWorker.stop(), which only call close; *)
(*   - one construction thread per open attempt, inside the OpenCV backend *)
(*     for as long as the backend likes;                                   *)
(*   - one reader thread per installed capture.                            *)
(*                                                                         *)
(* An attempt constructs at most one capture, and a capture has at most    *)
(* one reader, so the three share an identity, a member of Attempts.       *)
(* Every action is the code between two points where another thread can    *)
(* interfere: a block under _state_lock, or a call made outside it.        *)
(***************************************************************************)
EXTENDS Naturals, Sequences

CONSTANTS
    Owner,          \* the thread that owns the source
    Closers,        \* the threads that may call close() at any time
    Attempts,       \* identities of constructions (bound: how many there are)
    None,           \* Python's None
    MaxBuffer,      \* max_buffer_frames
    MaxGeneration,  \* bound: no call starts at or above this generation
    MaxFrames       \* bound: frames the backend decodes

ASSUME ThreadsAssumption == Owner \notin Closers
ASSUME NoneAssumption    == None \notin Attempts
ASSUME BufferAssumption  == MaxBuffer \in Nat \ {0}
ASSUME BoundsAssumption  == MaxGeneration \in Nat /\ MaxFrames \in Nat

Threads == {Owner} \cup Closers

VARIABLES
    generation,  \* _session_generation
    stopEvent,   \* _stop_event
    capture,     \* _capture (and _reader_thread, set and cleared with it)
    connected,   \* _connected
    deadline,    \* _startup_deadline_monotonic: none, armed or passed
    queue,       \* _queue of frame packets
    events,      \* _pending_events: the terminal statuses readers published
    sequence,    \* _sequence
    pending,     \* _pending_open
    attempt,     \* the _CaptureOpenAttempt records
    device,      \* what became of each attempt's capture object
    reader,      \* the reader threads
    pc,          \* where each calling thread is
    mode,        \* per thread: which close is running, what follows it
    toRelease,   \* per thread: captures _close took and has not released
    mine,        \* Owner's locals: generation, attempt and read()'s snapshot
    session,     \* the Owner believes its last open succeeded
    delivered    \* history: the last result read() handed to the Owner

shared  == <<generation, stopEvent, capture, connected, deadline>>
buffers == <<queue, events, sequence>>
opening == <<pending, attempt, device>>
locals  == <<pc, mode, toRelease, mine, session>>
vars    == <<shared, buffers, opening, reader, locals, delivered>>

Packet   == [gen : Nat, seq : Nat]
Modes    == {"close", "close_for_reconnect", "open", "reconnect"}
OwnerPcs == {"arm", "start", "wait", "inspect", "install", "read"}
ClosePcs == {"close", "release", "drain", "clear"}

Init ==
    /\ generation = 0
    /\ stopEvent = FALSE
    /\ capture = None
    /\ connected = FALSE
    /\ deadline = "none"
    /\ queue = <<>>
    /\ events = <<>>
    /\ sequence = 0
    /\ pending = None
    /\ attempt = [a \in Attempts |->
                    [phase |-> "unused", cancelled |-> FALSE, claimed |-> FALSE]]
    /\ device = [a \in Attempts |-> "none"]
    /\ reader = [a \in Attempts |-> [pc |-> "none", gen |-> 0]]
    /\ pc = [t \in Threads |-> "idle"]
    /\ mode = [t \in Threads |-> "close"]
    /\ toRelease = [t \in Threads |-> {}]
    /\ mine = [gen |-> 0, attempt |-> None, up |-> FALSE]
    /\ session = FALSE
    /\ delivered = [kind |-> "none", gen |-> 0, seq |-> 0]

-----------------------------------------------------------------------------
(* The operators named Bug... are plausible mistakes in the definition that *)
(* follows them; nothing here uses them.                                   *)

BugActiveUnlessStopped(a) == ~stopEvent

\* _session_is_active_locked(capture, generation), for reader a.
SessionActive(a) ==
    /\ reader[a].gen = generation
    /\ capture = a
    /\ ~stopEvent

Release(S) == [a \in Attempts |-> IF a \in S /\ device[a] = "live"
                                    THEN "released" ELSE device[a]]

BugPushOffByOne(q, p) == Append(IF Len(q) > MaxBuffer THEN Tail(q) ELSE q, p)

\* put_nowait into the frame queue; a full queue drops its oldest frame.
Push(q, p) == Append(IF Len(q) = MaxBuffer THEN Tail(q) ELSE q, p)

BugRestartSequence == IF deadline = "none" THEN sequence + 1 ELSE 1

NextSequence == sequence + 1

BugLooksOpen == session

\* What read() remembers of the connection before it waits for a frame.
LooksOpen == connected /\ capture /= None

BugAlwaysCurrent == TRUE

\* No close() came between the start of this open and its end.
OpenIsCurrent == mine.gen = generation /\ ~stopEvent

Goto(t, label) == pc' = [pc EXCEPT ![t] = label]

-----------------------------------------------------------------------------
(* Calls. Every public operation but read() starts with _close. The Owner  *)
(* follows CameraWorker._run: open first, then read while the session      *)
(* lasts, close_for_reconnect and reconnect when it is lost, and close in  *)
(* the finally clause; a Closer calls close from CameraWorker.stop.        *)

BeginClose(t, m) ==
    /\ pc[t] = "idle"
    /\ Goto(t, "close")
    /\ mode' = [mode EXCEPT ![t] = m]
    /\ UNCHANGED <<toRelease, mine>>

CallOpen ==
    /\ ~session /\ ~connected
    /\ generation < MaxGeneration
    /\ \E m \in {"open", "reconnect"} : BeginClose(Owner, m)
    /\ UNCHANGED <<shared, buffers, opening, reader, session, delivered>>

CallCloseForReconnect ==
    /\ generation < MaxGeneration
    /\ BeginClose(Owner, "close_for_reconnect")
    /\ session' = FALSE
    /\ UNCHANGED <<shared, buffers, opening, reader, delivered>>

\* The finally clause of the worker: always possible, whatever the bounds.
CallFinalClose ==
    /\ BeginClose(Owner, "close")
    /\ session' = FALSE
    /\ UNCHANGED <<shared, buffers, opening, reader, delivered>>

CallStopClose(t) ==
    /\ generation < MaxGeneration
    /\ BeginClose(t, "close")
    /\ UNCHANGED <<shared, buffers, opening, reader, session, delivered>>

\* A stopped worker is started again: CameraWorker.start() needs the old
\* thread to be dead, and stop() has returned by then.
Restart ==
    /\ pc[Owner] = "done"
    /\ \A t \in Closers : pc[t] = "idle"
    /\ generation < MaxGeneration
    /\ Goto(Owner, "idle")
    /\ UNCHANGED <<shared, buffers, opening, reader, mode, toRelease, mine, session,
                   delivered>>

-----------------------------------------------------------------------------
(* _close: one block under the lock, then the slow part outside it.        *)

Cancels(t) == mode[t] = "close" /\ pending /= None

BugTakesUnfinished(t) == Cancels(t)

\* close() takes the capture of an attempt that has completed unclaimed.
TakesPending(t) == /\ Cancels(t)
                   /\ attempt[pending].phase = "completed"
                   /\ ~attempt[pending].claimed

CloseLocked(t) ==
    /\ pc[t] = "close"
    /\ generation' = generation + 1
    /\ stopEvent' = TRUE
    /\ capture' = None
    /\ connected' = FALSE
    /\ deadline' = "none"
    /\ toRelease' = [toRelease EXCEPT ![t] =
         ({capture} \cup (IF TakesPending(t) THEN {pending} ELSE {})) \ {None}]
    /\ attempt' = IF Cancels(t)
                    THEN [attempt EXCEPT ![pending].cancelled = TRUE,
                                         ![pending].claimed = @ \/ TakesPending(t)]
                    ELSE attempt
    /\ pending' = IF TakesPending(t) THEN None ELSE pending
    /\ Goto(t, "release")
    /\ UNCHANGED <<buffers, device, reader, mode, mine, session, delivered>>

\* Both releases, then reader.join: it is bounded, so the reader may or may
\* not have exited when it returns and nothing waits for it here.
CloseRelease(t) ==
    /\ pc[t] = "release"
    /\ device' = Release(toRelease[t])
    /\ toRelease' = [toRelease EXCEPT ![t] = {}]
    /\ Goto(t, "drain")
    /\ UNCHANGED <<shared, buffers, pending, attempt, reader, mode, mine, session,
                   delivered>>

CloseDrain(t) ==
    /\ pc[t] = "drain"
    /\ queue' = <<>>
    /\ Goto(t, "clear")
    /\ UNCHANGED <<shared, events, sequence, opening, reader, mode, toRelease, mine,
                   session, delivered>>

\* _pending_events.clear(), and what the caller of _close does next: open
\* goes on to arm the session, reconnect calls open, which closes again.
CloseClear(t) ==
    /\ pc[t] = "clear"
    /\ events' = <<>>
    /\ Goto(t, CASE mode[t] = "open" -> "arm"
                 [] mode[t] = "reconnect" -> "close"
                 [] mode[t] = "close" /\ t = Owner -> "done"
                 [] OTHER -> "idle")
    /\ mode' = [mode EXCEPT ![t] = IF @ = "reconnect" THEN "open" ELSE @]
    /\ UNCHANGED <<shared, queue, sequence, opening, reader, toRelease, mine, session,
                   delivered>>

-----------------------------------------------------------------------------
(* open: after its close_for_reconnect.                                    *)

\* Read the generation this open belongs to and clear the stop event.
OpenArm ==
    /\ pc[Owner] = "arm"
    /\ mine' = [mine EXCEPT !.gen = generation]
    /\ stopEvent' = FALSE
    /\ Goto(Owner, "start")
    /\ UNCHANGED <<generation, capture, connected, deadline, buffers, opening, reader,
                   mode, toRelease, session, delivered>>

\* Reuse the pending construction, or start one.
OpenStart ==
    /\ pc[Owner] = "start"
    /\ \/ /\ pending /= None
          /\ mine' = [mine EXCEPT !.attempt = pending]
          /\ UNCHANGED <<pending, attempt>>
       \/ /\ pending = None
          /\ \E a \in Attempts :
               /\ attempt[a].phase = "unused"
               /\ attempt' = [attempt EXCEPT ![a].phase = "running"]
               /\ pending' = a
               /\ mine' = [mine EXCEPT !.attempt = a]
    /\ Goto(Owner, "wait")
    /\ UNCHANGED <<shared, buffers, device, reader, mode, toRelease, session, delivered>>

\* Bound: with every attempt used the open fails as on a refused connection.
OpenStartExhausted ==
    /\ pc[Owner] = "start"
    /\ pending = None
    /\ \A a \in Attempts : attempt[a].phase /= "unused"
    /\ Goto(Owner, "idle")
    /\ UNCHANGED <<shared, buffers, opening, reader, mode, toRelease, mine, session,
                   delivered>>

\* attempt.completed.wait timed out: the attempt stays pending.
OpenTimeout ==
    /\ pc[Owner] = "wait"
    /\ attempt[mine.attempt].phase = "running"
    /\ Goto(Owner, "idle")
    /\ UNCHANGED <<shared, buffers, opening, reader, mode, toRelease, mine, session,
                   delivered>>

\* The attempt completed: claim its result under the lock, or find that a
\* close or the construction thread claimed it first.
OpenClaim ==
    LET a == mine.attempt IN
    /\ pc[Owner] = "wait"
    /\ attempt[a].phase \in {"completed", "discarding"}
    /\ \/ /\ attempt[a].claimed
          /\ Goto(Owner, "idle")
          /\ UNCHANGED opening
       \/ /\ ~attempt[a].claimed
          /\ attempt' = [attempt EXCEPT ![a].claimed = TRUE]
          /\ pending' = IF pending = a THEN None ELSE pending
          /\ device' = IF attempt[a].cancelled THEN Release({a}) ELSE device
          /\ Goto(Owner, IF device'[a] = "live" THEN "inspect" ELSE "idle")
    /\ UNCHANGED <<shared, buffers, reader, mode, toRelease, mine, session,
                   delivered>>

\* isOpened, configuration and stream info: any of them may reject it.
OpenInspect ==
    /\ pc[Owner] = "inspect"
    /\ \/ /\ Goto(Owner, "install")
          /\ UNCHANGED device
       \/ /\ device' = Release({mine.attempt})
          /\ Goto(Owner, "idle")
    /\ UNCHANGED <<shared, buffers, pending, attempt, reader, mode, toRelease, mine,
                   session, delivered>>

\* Install the capture and start its reader, unless a close intervened.
OpenInstall ==
    /\ pc[Owner] = "install"
    /\ OpenIsCurrent
    /\ capture' = mine.attempt
    /\ connected' = TRUE
    /\ deadline' = "armed"
    /\ events' = <<>>
    /\ reader' = [reader EXCEPT ![mine.attempt] = [pc |-> "check", gen |-> mine.gen]]
    /\ session' = TRUE
    /\ Goto(Owner, "idle")
    /\ UNCHANGED <<generation, stopEvent, queue, sequence, opening, mode, toRelease, mine,
                   delivered>>

BugDiscardLeaks ==
    /\ pc[Owner] = "install"
    /\ ~OpenIsCurrent
    /\ Goto(Owner, "idle")
    /\ UNCHANGED <<shared, buffers, opening, reader, mode, toRelease, mine, session,
                   delivered>>

\* A close() came first: release the capture, raise open_cancelled.
OpenDiscard ==
    /\ pc[Owner] = "install"
    /\ ~OpenIsCurrent
    /\ device' = Release({mine.attempt})
    /\ Goto(Owner, "idle")
    /\ UNCHANGED <<shared, buffers, pending, attempt, reader, mode, toRelease, mine,
                   session, delivered>>

-----------------------------------------------------------------------------
(* The construction thread: _start_capture_open_attempt.create.            *)

BugCompletesAlways(a) ==
    /\ attempt[a].phase = "running"
    /\ \E result \in {"live", "error"} : device' = [device EXCEPT ![a] = result]
    /\ attempt' = [attempt EXCEPT ![a].phase = "completed"]
    /\ UNCHANGED <<shared, buffers, pending, reader, locals, delivered>>

\* The factory returned or raised: publish the result, or keep it from a
\* source that was closed meanwhile.
ConstructionEnds(a) ==
    /\ attempt[a].phase = "running"
    /\ \E result \in {"live", "error"} : device' = [device EXCEPT ![a] = result]
    /\ IF attempt[a].cancelled
         THEN /\ attempt' = [attempt EXCEPT ![a].phase = "discarding", ![a].claimed = TRUE]
              /\ pending' = IF pending = a THEN None ELSE pending
         ELSE /\ attempt' = [attempt EXCEPT ![a].phase = "completed"]
              /\ UNCHANGED pending
    /\ UNCHANGED <<shared, buffers, reader, locals, delivered>>

ConstructionDiscards(a) ==
    /\ attempt[a].phase = "discarding"
    /\ device' = Release({a})
    /\ attempt' = [attempt EXCEPT ![a].phase = "completed"]
    /\ UNCHANGED <<shared, buffers, pending, reader, locals, delivered>>

-----------------------------------------------------------------------------
(* The reader thread: _reader_loop.                                        *)

ReaderGoto(a, label) == reader' = [reader EXCEPT ![a].pc = label]

ReaderCheck(a) ==
    /\ reader[a].pc = "check"
    /\ ReaderGoto(a, IF SessionActive(a) THEN "reading" ELSE "exiting")
    /\ UNCHANGED <<shared, buffers, opening, locals, delivered>>

\* capture.read() returns a frame, nothing, or raises.
ReaderRead(a) ==
    /\ reader[a].pc = "reading"
    /\ \/ sequence < MaxFrames /\ ReaderGoto(a, "frame")
       \/ ReaderGoto(a, "invalid")
    /\ UNCHANGED <<shared, buffers, opening, locals, delivered>>

ReaderPublish(a) ==
    /\ reader[a].pc = "frame"
    /\ IF SessionActive(a)
         THEN /\ deadline' = "none"
              /\ sequence' = NextSequence
              /\ queue' = Push(queue, [gen |-> reader[a].gen, seq |-> NextSequence])
              /\ ReaderGoto(a, "check")
         ELSE /\ ReaderGoto(a, "exiting")
              /\ UNCHANGED <<deadline, sequence, queue>>
    /\ UNCHANGED <<generation, stopEvent, capture, connected, events, opening, locals,
                   delivered>>

\* _wait_for_first_frame: within the startup grace a failed read is retried.
ReaderRetry(a) ==
    /\ reader[a].pc = "invalid"
    /\ SessionActive(a) /\ deadline = "armed"
    /\ ReaderGoto(a, "check")
    /\ UNCHANGED <<shared, buffers, opening, locals, delivered>>

\* Afterwards it ends the session: _publish_status(CORRUPT).
ReaderFail(a) ==
    /\ reader[a].pc = "invalid"
    /\ ~(SessionActive(a) /\ deadline = "armed")
    /\ IF SessionActive(a)
         THEN /\ events' = Append(events, [gen |-> reader[a].gen, seq |-> 0])
              /\ connected' = FALSE
         ELSE UNCHANGED <<events, connected>>
    /\ ReaderGoto(a, "exiting")
    /\ UNCHANGED <<generation, stopEvent, capture, deadline, queue, sequence, opening,
                   locals, delivered>>

ReaderExit(a) ==
    /\ reader[a].pc = "exiting"
    /\ connected' = (connected /\ ~SessionActive(a))
    /\ ReaderGoto(a, "exited")
    /\ UNCHANGED <<generation, stopEvent, capture, deadline, buffers, opening, locals,
                   delivered>>

\* Time passes: the startup grace runs out.
GraceExpires ==
    /\ deadline = "armed"
    /\ deadline' = "passed"
    /\ UNCHANGED <<generation, stopEvent, capture, connected, buffers, opening, reader,
                   locals, delivered>>

-----------------------------------------------------------------------------
(* read.                                                                   *)

Deliver(kind, gen, seq) == delivered' = [kind |-> kind, gen |-> gen, seq |-> seq]

\* Terminal statuses come first, before frames still in the queue.
PopEvent ==
    /\ events /= <<>>
    /\ Deliver("corrupt", Head(events).gen, delivered.seq)
    /\ events' = Tail(events)
    /\ UNCHANGED queue

ReadBegin ==
    /\ pc[Owner] = "idle" /\ session
    /\ \/ PopEvent /\ UNCHANGED <<pc, mine>>
       \/ /\ events = <<>>
          /\ mine' = [mine EXCEPT !.up = LooksOpen]
          /\ Goto(Owner, "read")
          /\ UNCHANGED <<queue, events, delivered>>
    /\ UNCHANGED <<shared, sequence, opening, reader, mode, toRelease, session>>

ReadFrame ==
    /\ pc[Owner] = "read"
    /\ queue /= <<>>
    /\ Deliver("frame", Head(queue).gen, Head(queue).seq)
    /\ queue' = Tail(queue)
    /\ Goto(Owner, "idle")
    /\ UNCHANGED <<shared, events, sequence, opening, reader, mode, toRelease, mine,
                   session>>

\* queue.get timed out: an event published meanwhile, else what the
\* connection looked like when the call began.
ReadEmpty ==
    /\ pc[Owner] = "read"
    /\ queue = <<>>
    /\ \/ PopEvent
       \/ /\ events = <<>>
          /\ Deliver(IF mine.up THEN "timeout" ELSE "disconnected", mine.gen, delivered.seq)
          /\ UNCHANGED <<queue, events>>
    /\ Goto(Owner, "idle")
    /\ UNCHANGED <<shared, sequence, opening, reader, mode, toRelease, mine, session>>

-----------------------------------------------------------------------------
\* Everything has stopped and the source is closed for good.
Terminated ==
    /\ pc[Owner] = "done"
    /\ \A t \in Closers : pc[t] = "idle"
    /\ \A a \in Attempts : /\ reader[a].pc \in {"none", "exited"}
                           /\ attempt[a].phase \in {"unused", "completed"}
    /\ UNCHANGED vars

CloseStep(t) == CloseLocked(t) \/ CloseRelease(t) \/ CloseDrain(t) \/ CloseClear(t)

OpenStep == \/ OpenArm \/ OpenStart \/ OpenStartExhausted \/ OpenTimeout \/ OpenClaim
            \/ OpenInspect \/ OpenInstall \/ OpenDiscard

ReadStep == ReadFrame \/ ReadEmpty

Construction(a) == ConstructionEnds(a) \/ ConstructionDiscards(a)

ReaderStep(a) == \/ ReaderCheck(a) \/ ReaderRead(a) \/ ReaderPublish(a)
                 \/ ReaderRetry(a) \/ ReaderFail(a) \/ ReaderExit(a)

OwnerCall == CallOpen \/ CallCloseForReconnect \/ CallFinalClose \/ Restart \/ ReadBegin

Next ==
    \/ OwnerCall
    \/ \E t \in Closers : CallStopClose(t)
    \/ \E t \in Threads : CloseStep(t)
    \/ OpenStep
    \/ ReadStep
    \/ \E a \in Attempts : Construction(a) \/ ReaderStep(a)
    \/ GraceExpires
    \/ Terminated

(* Every thread that has begun keeps running: a call in progress ends, a   *)
(* backend construction and a blocked capture.read eventually return (the  *)
(* FFmpeg timeouts _configure_capture sets), and time passes. The Owner    *)
(* reads in a loop for as long as it keeps its session; nothing is assumed *)
(* about when, or whether, it or the Closers make any other call.          *)
Fairness ==
    /\ WF_vars(ReadBegin)
    /\ \A t \in Threads : WF_vars(CloseStep(t))
    /\ WF_vars(OpenStep)
    /\ WF_vars(ReadStep)
    /\ \A a \in Attempts : WF_vars(Construction(a)) /\ WF_vars(ReaderStep(a))
    /\ WF_vars(GraceExpires)

Spec == Init /\ [][Next]_vars /\ Fairness

-----------------------------------------------------------------------------
(* Properties.                                                             *)

AttemptRecord == [phase : {"unused", "running", "discarding", "completed"},
                  cancelled : BOOLEAN, claimed : BOOLEAN]
ReaderRecord  == [pc : {"none", "check", "reading", "frame", "invalid", "exiting",
                        "exited"}, gen : Nat]
Results  == [kind : {"none", "frame", "corrupt", "timeout", "disconnected"},
             gen : Nat, seq : Nat]
Devices  == {"none", "live", "released", "error"}
Pcs      == {"idle", "done"} \cup OwnerPcs \cup ClosePcs

SharedType ==
    /\ generation \in Nat
    /\ stopEvent \in BOOLEAN
    /\ capture \in Attempts \cup {None}
    /\ connected \in BOOLEAN
    /\ deadline \in {"none", "armed", "passed"}

BuffersType ==
    /\ queue \in Seq(Packet) /\ Len(queue) <= MaxBuffer
    /\ events \in Seq(Packet)
    /\ sequence \in Nat

OpeningType ==
    /\ pending \in Attempts \cup {None}
    /\ attempt \in [Attempts -> AttemptRecord]
    /\ device \in [Attempts -> Devices]

LocalsType ==
    /\ pc \in [Threads -> Pcs]
    /\ mode \in [Threads -> Modes]
    /\ toRelease \in [Threads -> SUBSET Attempts]
    /\ mine \in [gen : Nat, attempt : Attempts \cup {None}, up : BOOLEAN]
    /\ session \in BOOLEAN

ReaderType == reader \in [Attempts -> ReaderRecord]

DeliveredType == delivered \in Results

\* The type of every variable; the frame queue never outgrows its bound.
TypeOK == /\ SharedType /\ BuffersType /\ OpeningType /\ LocalsType
          /\ ReaderType /\ DeliveredType

\* "Run at most one capture construction and reuse a late result"
\* (_create_capture_with_timeout): timeouts, cancellations and restarts never
\* put two constructions in the backend at once.
SingleConstruction ==
    \A a, b \in Attempts :
        attempt[a].phase = "running" /\ attempt[b].phase = "running" => a = b

(* Who must release the capture of attempt a: the attempt nobody has       *)
(* claimed, the construction thread that discards it, the Owner that has   *)
(* claimed and not installed it, the session it is installed in, or a      *)
(* thread that took it in _close.                                          *)
Keepers == ({"attempt", "construction", "open", "session"} \X {Owner})
           \cup ({"close"} \X Threads)

Keeps(k, a) ==
    CASE k[1] = "attempt"      -> pending = a /\ attempt[a].phase = "completed"
                                              /\ ~attempt[a].claimed
      [] k[1] = "construction" -> attempt[a].phase = "discarding"
      [] k[1] = "open"         -> pc[Owner] \in {"inspect", "install"} /\ mine.attempt = a
      [] k[1] = "session"      -> capture = a
      [] k[1] = "close"        -> a \in toRelease[k[2]]

\* No capture leaks and none is released twice or under its user: every
\* capture the backend made and nobody released has exactly one keeper, and
\* every other capture has none.
OneKeeper ==
    \A a \in Attempts :
        /\ device[a] = "live" =>
             \E k \in Keepers : \A j \in Keepers : Keeps(j, a) <=> j = k
        /\ device[a] = "released" => \A j \in Keepers : ~Keeps(j, a)

\* A session that calls itself connected has a reader that still runs: the
\* Owner cannot time out forever on a stream nobody decodes.
ConnectedHasReader ==
    connected => /\ capture /= None
                 /\ reader[capture].pc \notin {"none", "exited"}
                 /\ reader[capture].gen = generation

\* What read() hands out belongs to the session the Owner opened last: no
\* frame and no terminal status of a replaced stream crosses a reconnect.
FreshDelivery ==
    [][delivered' /= delivered => delivered'.gen = mine.gen]_vars

\* Frames come out in the order they were decoded, across reconnects and
\* restarts, and none comes out twice.
FramesInOrder ==
    [][delivered'.kind = "frame" /\ delivered' /= delivered
         => delivered'.seq > delivered.seq]_vars

\* Once the Owner has run its final close, every capture is released and
\* every reader exits, unless the worker is started again meanwhile.
Quiet == \A a \in Attempts : /\ device[a] /= "live"
                             /\ attempt[a].phase /= "running"
                             /\ reader[a].pc \in {"none", "exited"}

ClosedSourceGoesQuiet == pc[Owner] = "done" ~> (Quiet \/ pc[Owner] /= "done")

\* A session that is lost, because its reader gave up or somebody closed the
\* source, is reported: the Owner is not left with timeouts, which it would
\* take for a slow camera.
Reported == delivered.gen = mine.gen /\ delivered.kind \in {"corrupt", "disconnected"}

LostSessionIsReported == (session /\ ~connected) ~> (Reported \/ ~session)
=============================================================================
