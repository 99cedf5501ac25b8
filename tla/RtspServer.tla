----------------------------- MODULE RtspServer -----------------------------
(***************************************************************************)
(* The RTSP server of one output: the accept thread, one request thread    *)
(* and one writer thread per client, the encoder thread that publishes     *)
(* access units, and the main thread that stops it all.                    *)
(*                                                                         *)
(* An access unit is its size and whether it is a key frame; a request is  *)
(* what its handler does.  A client is the connection it makes, and serves *)
(* again once nothing of the last one is left.                             *)
(***************************************************************************)
EXTENDS Integers, Sequences, FiniteSets

CONSTANTS Clients, Nobody,
          MaxClients,          \* MAX_CLIENTS
          Capacity,            \* DEFAULT_QUEUE_CAPACITY
          MaxQueueBytes,       \* DEFAULT_MAX_QUEUE_BYTES
          MaxSingleUnitBytes,  \* DEFAULT_MAX_SINGLE_UNIT_BYTES
          Units                \* the access units an encoder may publish

ASSUME RtspAssumption == /\ Nobody \notin Clients
                         /\ {MaxClients, Capacity, MaxQueueBytes, MaxSingleUnitBytes} \subseteq Nat \ {0}
                         /\ Units \subseteq [key : BOOLEAN, size : Nat \ {0}]

VARIABLES
    server,    \* "new", "listening", "closing", "joining" or "stopped"
    toClose,   \* the sessions that stop() has still to close
    accepting, \* the accept thread: "no", "listening", or the client it holds
    sessions, sinks,
    encoder,   \* the unit being published, the sinks still to be served, and the one in enqueue
    session    \* of each client

rtspVars == <<server, toClose, accepting, sessions, sinks, encoder, session>>

Idle == [unit |-> Nobody, todo |-> {}, at |-> Nobody]

\* request and writer are the threads; inside is what the holder of the buffer's
\* lock is at, lock who holds outputLock; seen says that the field writerThread
\* names the writer; late, that the last write is WRITER_STALL_NS ago.  Two are
\* history: whole says that the writer has taken the key frame of the unit at
\* the head of the queue, missed that the close found a writer that the field
\* did not name.
Fresh == [request |-> "none", setup |-> FALSE, playing |-> FALSE, closed |-> FALSE, closing |-> "no",
          queue |-> <<>>, bytes |-> 0, awaiting |-> TRUE, inside |-> "nobody", lock |-> "free",
          writer |-> "none", seen |-> FALSE, interrupted |-> FALSE, hand |-> Nobody, late |-> FALSE,
          whole |-> FALSE, missed |-> FALSE]

RtspInit ==
    /\ server = "new" /\ toClose = {} /\ accepting = "no"
    /\ sessions = {} /\ sinks = {}
    /\ encoder = Idle
    /\ session = [c \in Clients |-> Fresh]

Set(c, s) == session' = [session EXCEPT ![c] = s]

-----------------------------------------------------------------------------
(* LatestAccessUnitBuffer.                                                 *)

\* The bytes in a queue, each told by the unit's place and its own.
Bytes(queue) == Cardinality(UNION {{i} \X (1..queue[i].size) : i \in DOMAIN queue})

\* (queuedBytes - n).coerceAtLeast(0).
Less(bytes, n) == IF bytes > n THEN bytes - n ELSE 0

\* The lock keeps offer(), resetForPlayback() and clear() apart.  The writer
\* polls the queue without it, and may come between any two of their polls.
Unlocked(s) == s.inside = "nobody"

\* The oldest unit is dropped.
Polled(s) == [s EXCEPT !.queue = Tail(@), !.whole = @ /\ ~Head(s.queue).key]

\* clearLocked() has polled until nothing was left.
Cleared(s) == [s EXCEPT !.bytes = 0, !.whole = FALSE, !.inside = "nobody"]

Clearing == {"drops", "resets", "closes"}

TooBig(unit) == unit.size > MaxSingleUnitBytes \/ unit.size > MaxQueueBytes

\* Units go, the oldest first, until there is room.
NoRoom(s, unit) == s.queue /= <<>> /\ (s.bytes + unit.size > MaxQueueBytes \/ Len(s.queue) = Capacity)

\* A key frame that is dropped takes the others with it.
DropOldest(s) == [Polled(s) EXCEPT !.bytes = Less(@, Head(s.queue).size), !.awaiting = @ \/ Head(s.queue).key,
                                   !.inside = IF Head(s.queue).key THEN "drops" ELSE "offers"]

Refuses(s, unit) == s.awaiting /\ ~unit.key

\* The end of offer().
Accepts(s, unit) ==
    IF Refuses(s, unit) THEN s
    ELSE [s EXCEPT !.queue = Append(@, unit), !.bytes = @ + unit.size, !.awaiting = @ /\ ~unit.key]

-----------------------------------------------------------------------------
(* closeSink, by whichever thread comes first; the others go on at once.   *)

\* compareAndSet.
BeginClose(s) == IF s.closed THEN s ELSE [s EXCEPT !.closed = TRUE, !.closing = "sink"]

BugCloseInterruptsNobody(c) ==
    /\ session[c].closing = "writer"
    /\ Set(c, [session[c] EXCEPT !.closing = "socket"])
    /\ UNCHANGED <<server, toClose, accepting, sessions, sinks, encoder>>

\* No more units are offered.
CloseSink(c) ==
    /\ session[c].closing = "sink"
    /\ sinks' = sinks \ {c}
    /\ Set(c, [session[c] EXCEPT !.playing = FALSE, !.closing = "queue"])
    /\ UNCHANGED <<server, toClose, accepting, sessions, encoder>>

\* clear().
CloseLocks(c) ==
    /\ session[c].closing = "queue" /\ Unlocked(session[c])
    /\ Set(c, [session[c] EXCEPT !.closing = "clear", !.inside = "closes"])
    /\ UNCHANGED <<server, toClose, accepting, sessions, sinks, encoder>>

CloseClears(c) ==
    LET s == session[c] IN
    /\ s.closing = "clear"
    /\ Set(c, IF s.queue = <<>> THEN [Cleared(s) EXCEPT !.closing = "writer"] ELSE Polled(s))
    /\ UNCHANGED <<server, toClose, accepting, sessions, sinks, encoder>>

CloseWriter(c) ==
    LET s == session[c] IN
    /\ s.closing = "writer"
    /\ Set(c, [s EXCEPT !.closing = "socket", !.interrupted = s.seen,
                        !.missed = ~s.seen /\ s.writer \notin {"none", "dead"}])
    /\ UNCHANGED <<server, toClose, accepting, sessions, sinks, encoder>>

\* The socket is closed and the server told.
CloseSocket(c) ==
    /\ session[c].closing = "socket"
    /\ sessions' = sessions \ {c}
    /\ Set(c, [session[c] EXCEPT !.closing = "done"])
    /\ UNCHANGED <<server, toClose, accepting, sinks, encoder>>

SocketClosed(c) == session[c].closing = "done"

-----------------------------------------------------------------------------
(* The server.                                                             *)

\* start(): one that fails has left nothing.
StartServer(bound) ==
    /\ server = "new"
    /\ server' = IF bound THEN "listening" ELSE "new"
    /\ accepting' = IF bound THEN "listening" ELSE "no"
    /\ UNCHANGED <<toClose, sessions, sinks, encoder, session>>

\* A client from which nothing is left.
Free(c) ==
    LET s == session[c] IN
    /\ s.request \in {"none", "gone"} /\ s.writer \in {"none", "dead"} /\ s.closing \in {"no", "done"}
    /\ c \notin sessions \cup sinks \cup toClose \cup encoder.todo

Accept(c) ==
    /\ accepting = "listening" /\ server \in {"listening", "closing"} /\ Free(c)
    /\ accepting' = c
    /\ UNCHANGED <<server, toClose, sessions, sinks, encoder, session>>

\* The loop sees stopped, or accept() fails on the closed socket.
AcceptEnds ==
    /\ accepting = "listening" /\ server \in {"closing", "joining", "stopped"}
    /\ accepting' = "no"
    /\ UNCHANGED <<server, toClose, sessions, sinks, encoder, session>>

\* The monitor is stop()'s until it returns.
Monitor == server \notin {"closing", "joining"}

\* The client is served, or sent away.
Accepted ==
    LET c == accepting IN
    /\ c \in Clients /\ Monitor
    /\ accepting' = IF server = "stopped" THEN "no" ELSE "listening"
    /\ IF server = "stopped" \/ Cardinality(sessions) >= MaxClients
         THEN UNCHANGED <<sessions, session>>
         ELSE sessions' = sessions \cup {c} /\ Set(c, [Fresh EXCEPT !.request = "pooled"])
    /\ UNCHANGED <<server, toClose, sinks, encoder>>

StopServer ==
    /\ server = "listening"
    /\ server' = "closing" /\ toClose' = sessions
    /\ UNCHANGED <<accepting, sessions, sinks, encoder, session>>

\* One session after the other.
StopCloses(c) ==
    /\ server = "closing" /\ c \in toClose
    /\ IF session[c].closing = "no"
         THEN Set(c, BeginClose(session[c])) /\ UNCHANGED toClose
         ELSE UNCHANGED session /\ toClose' = toClose \ {c}
    /\ UNCHANGED <<server, accepting, sessions, sinks, encoder>>

\* sessions.clear() and the listening socket.
StopListener ==
    /\ server = "closing" /\ toClose = {}
    /\ server' = "joining" /\ sessions' = {}
    /\ UNCHANGED <<toClose, accepting, sinks, encoder, session>>

\* The join of the accept thread is bounded, and it may be waiting for the
\* monitor; shutdownNow drops the sessions that no thread had taken.
StopExecutor ==
    /\ server = "joining"
    /\ server' = "stopped"
    /\ session' = [c \in Clients |-> IF session[c].request = "pooled" THEN [session[c] EXCEPT !.request = "gone"]
                                                                       ELSE session[c]]
    /\ UNCHANGED <<toClose, accepting, sessions, sinks, encoder>>

-----------------------------------------------------------------------------
(* The encoder thread.                                                     *)

\* publish() goes through the sinks of this moment.
Publish(unit) ==
    /\ encoder = Idle /\ sinks /= {}
    /\ encoder' = [unit |-> unit, todo |-> sinks, at |-> Nobody]
    /\ UNCHANGED <<server, toClose, accepting, sessions, sinks, session>>

Served(c) == IF encoder.todo = {c} THEN Idle ELSE [encoder EXCEPT !.todo = @ \ {c}, !.at = Nobody]

\* enqueue() looks first.
EnqueueChecks(c) ==
    /\ c \in encoder.todo /\ encoder.at = Nobody
    /\ encoder' = IF session[c].playing /\ ~session[c].closed THEN [encoder EXCEPT !.at = c] ELSE Served(c)
    /\ UNCHANGED <<server, toClose, accepting, sessions, sinks, session>>

\* offer() takes the lock, and refuses at once what it cannot use.
EnqueueOffers ==
    LET c == encoder.at
        s == session[c]
    IN /\ c \in Clients /\ Unlocked(s)
       /\ IF Refuses(s, encoder.unit) \/ TooBig(encoder.unit)
            THEN UNCHANGED session /\ encoder' = Served(c)
            ELSE Set(c, [s EXCEPT !.inside = "offers"]) /\ UNCHANGED encoder
       /\ UNCHANGED <<server, toClose, accepting, sessions, sinks>>

\* The loop of offer(), which looks and then polls.
OfferLooks ==
    LET c == encoder.at
        s == session[c]
    IN /\ c \in Clients /\ s.inside = "offers" /\ NoRoom(s, encoder.unit)
       /\ Set(c, [s EXCEPT !.inside = "polls"])
       /\ UNCHANGED <<server, toClose, accepting, sessions, sinks, encoder>>

OfferPolls ==
    LET c == encoder.at
        s == session[c]
    IN /\ c \in Clients /\ s.inside = "polls"
       /\ Set(c, IF s.queue = <<>> THEN [s EXCEPT !.inside = "offers"] ELSE DropOldest(s))
       /\ UNCHANGED <<server, toClose, accepting, sessions, sinks, encoder>>

OfferClears ==
    LET c == encoder.at
        s == session[c]
    IN /\ c \in Clients /\ s.inside = "drops"
       /\ Set(c, IF s.queue = <<>> THEN [Cleared(s) EXCEPT !.inside = "offers"] ELSE Polled(s))
       /\ UNCHANGED <<server, toClose, accepting, sessions, sinks, encoder>>

OfferEnds ==
    LET c == encoder.at
        s == session[c]
    IN /\ c \in Clients /\ s.inside = "offers" /\ ~NoRoom(s, encoder.unit)
       /\ Set(c, [Accepts(s, encoder.unit) EXCEPT !.inside = "nobody"])
       /\ encoder' = Served(c)
       /\ UNCHANGED <<server, toClose, accepting, sessions, sinks>>

Offer == EnqueueOffers \/ OfferLooks \/ OfferPolls \/ OfferClears \/ OfferEnds

-----------------------------------------------------------------------------
(* The request thread.                                                     *)

\* Everything a request thread does is about its own client, but for the sinks.
Serves(c) == UNCHANGED <<server, toClose, accepting, sessions, encoder>>

Threads == {c \in Clients : session[c].request \notin {"none", "pooled", "gone"}}

\* A thread of the pool takes the session.
ServeBegins(c) ==
    /\ session[c].request = "pooled" /\ Cardinality(Threads) < MaxClients
    /\ Set(c, [session[c] EXCEPT !.request = "read"])
    /\ UNCHANGED sinks /\ Serves(c)

Reads(c) == session[c].request = "read" /\ ~session[c].closed

\* A request that is answered, whatever the answer, and after which the
\* connection stays or ends.
AnswerRequest(c, next) ==
    /\ Reads(c)
    /\ Set(c, [session[c] EXCEPT !.request = next])
    /\ UNCHANGED sinks /\ Serves(c)

Setup(c) ==
    /\ Reads(c)
    /\ Set(c, [session[c] EXCEPT !.request = "answer", !.setup = TRUE])
    /\ UNCHANGED sinks /\ Serves(c)

Play(c) ==
    /\ Reads(c) /\ session[c].setup
    /\ Set(c, [session[c] EXCEPT !.request = "play"])
    /\ UNCHANGED sinks /\ Serves(c)

PlayArms(c) ==
    /\ session[c].request = "play"
    /\ Set(c, [session[c] EXCEPT !.playing = TRUE, !.request = "reset"])
    /\ UNCHANGED sinks /\ Serves(c)

\* resetForPlayback().
PlayLocks(c) ==
    /\ session[c].request = "reset" /\ Unlocked(session[c])
    /\ Set(c, [session[c] EXCEPT !.request = "clear", !.inside = "resets"])
    /\ UNCHANGED sinks /\ Serves(c)

PlayClears(c) ==
    /\ session[c].request = "clear" /\ session[c].queue /= <<>>
    /\ Set(c, Polled(session[c]))
    /\ UNCHANGED sinks /\ Serves(c)

BugPlaysOnAnywhere(c) ==
    /\ session[c].request = "clear" /\ session[c].queue = <<>>
    /\ Set(c, [Cleared(session[c]) EXCEPT !.request = "armed"])
    /\ sinks' = sinks \cup {c}
    /\ Serves(c)

PlayJoins(c) ==
    /\ session[c].request = "clear" /\ session[c].queue = <<>>
    /\ Set(c, [Cleared(session[c]) EXCEPT !.awaiting = TRUE, !.request = "armed"])
    /\ sinks' = sinks \cup {c}
    /\ Serves(c)

\* The session may have been closed meanwhile.
PlayChecks(c) ==
    /\ session[c].request = "armed"
    /\ IF session[c].closed
         THEN sinks' = sinks \ {c} /\ Set(c, [session[c] EXCEPT !.request = "leave"])
         ELSE UNCHANGED sinks /\ Set(c, [session[c] EXCEPT !.request = "answer play"])
    /\ Serves(c)

Answers == {"answer", "answer last", "answer play"}

AfterAnswer(request) == CASE request = "answer"      -> "health"
                          [] request = "answer last" -> "leave"
                          [] request = "answer play" -> "start writer"

\* write() waits for the writer's unit to be out, and for the client to read.
AnswerBegins(c) ==
    /\ session[c].request \in Answers /\ session[c].lock = "free"
    /\ Set(c, [session[c] EXCEPT !.lock = "request"])
    /\ UNCHANGED sinks /\ Serves(c)

AnswerEnds(c) ==
    LET s == session[c] IN
    /\ s.lock = "request" /\ ~SocketClosed(c)
    /\ Set(c, [s EXCEPT !.lock = "free", !.request = AfterAnswer(s.request)])
    /\ UNCHANGED sinks /\ Serves(c)

\* The connection is lost, or its socket closed.
AnswerFails(c) ==
    /\ session[c].lock = "request"
    /\ Set(c, [session[c] EXCEPT !.lock = "free", !.request = "leave"])
    /\ UNCHANGED sinks /\ Serves(c)

StartWriter(c) ==
    LET s == session[c] IN
    /\ s.request = "start writer"
    /\ Set(c, IF s.writer \in {"none", "dead"} THEN [s EXCEPT !.writer = "loop", !.seen = FALSE, !.request = "name writer"]
                                               ELSE [s EXCEPT !.request = "health"])
    /\ UNCHANGED sinks /\ Serves(c)

\* The assignment of writerThread comes after the start of the thread.
NameWriter(c) ==
    /\ session[c].request = "name writer"
    /\ Set(c, [session[c] EXCEPT !.seen = TRUE, !.request = "health"])
    /\ UNCHANGED sinks /\ Serves(c)

Writing(s) == s.writer \in {"lock", "send"}

\* checkWriterHealth.
Unhealthy(s) == s.playing /\ ~s.closed /\ (s.writer \in {"none", "dead"} \/ (Writing(s) /\ s.late))

CheckHealth(c) ==
    LET s == session[c] IN
    /\ \/ s.request = "health"
       \/ Reads(c) /\ s.playing                    \* the read tick
    /\ Set(c, [s EXCEPT !.request = IF Unhealthy(s) THEN "leave" ELSE "read"])
    /\ UNCHANGED sinks /\ Serves(c)

\* No request in time without PLAY, the end of the connection, or an error.
GivesUp(c) ==
    /\ Reads(c)
    /\ Set(c, [session[c] EXCEPT !.request = "leave"])
    /\ UNCHANGED sinks /\ Serves(c)

\* The loop sees the session closed, or its read fails on the closed socket.
Interrupted(c) ==
    /\ session[c].request = "read" /\ session[c].closed
    /\ Set(c, [session[c] EXCEPT !.request = "leave"])
    /\ UNCHANGED sinks /\ Serves(c)

\* closeSink() of the finally clause, and the end of the thread.
Leave(c) ==
    LET s == session[c] IN
    /\ s.request = "leave"
    /\ Set(c, [BeginClose(s) EXCEPT !.request = IF s.closed THEN "gone" ELSE "closing"])
    /\ UNCHANGED sinks /\ Serves(c)

Left(c) ==
    /\ session[c].request = "closing" /\ session[c].closing = "done"
    /\ Set(c, [session[c] EXCEPT !.request = "gone"])
    /\ UNCHANGED sinks /\ Serves(c)

-----------------------------------------------------------------------------
(* The writer thread.                                                      *)

Writes(c) == UNCHANGED <<server, toClose, accepting, sessions, sinks, encoder>>

WriterLoop(c) ==
    LET s == session[c] IN
    /\ s.writer = "loop"
    /\ Set(c, [s EXCEPT !.writer = IF s.closed THEN "dead" ELSE "take"])
    /\ Writes(c)

\* queue.take() leaves by an interrupt, or with a unit, which the byte count
\* learns under the lock afterwards.
TakeUnit(c) ==
    LET s == session[c] IN
    /\ s.writer = "take" /\ ~s.interrupted /\ s.queue /= <<>>
    /\ Set(c, [s EXCEPT !.writer = "count", !.hand = Head(s.queue), !.queue = Tail(@),
                        !.whole = @ \/ Head(s.queue).key])
    /\ Writes(c)

TakeInterrupted(c) ==
    /\ session[c].writer = "take" /\ session[c].interrupted
    /\ Set(c, [session[c] EXCEPT !.writer = "dead"])
    /\ Writes(c)

CountUnit(c) ==
    LET s == session[c] IN
    /\ s.writer = "count" /\ Unlocked(s)
    /\ Set(c, [s EXCEPT !.writer = "lock", !.bytes = Less(@, s.hand.size), !.hand = Nobody])
    /\ Writes(c)

SendBegins(c) ==
    /\ session[c].writer = "lock" /\ session[c].lock = "free"
    /\ Set(c, [session[c] EXCEPT !.writer = "send", !.lock = "writer"])
    /\ Writes(c)

SendEnds(c) ==
    /\ session[c].writer = "send" /\ ~SocketClosed(c)
    /\ Set(c, [session[c] EXCEPT !.writer = "loop", !.lock = "free", !.late = FALSE])
    /\ Writes(c)

\* An IOException: the client has gone, or the socket is closed.
SendFails(c) ==
    /\ session[c].writer = "send"
    /\ Set(c, [session[c] EXCEPT !.writer = "close", !.lock = "free", !.late = FALSE])
    /\ Writes(c)

WriterCloses(c) ==
    LET s == session[c] IN
    /\ s.writer = "close"
    /\ Set(c, [BeginClose(s) EXCEPT !.writer = IF s.closed THEN "dead" ELSE "closing"])
    /\ Writes(c)

WriterDies(c) ==
    /\ session[c].writer = "closing" /\ session[c].closing = "done"
    /\ Set(c, [session[c] EXCEPT !.writer = "dead"])
    /\ Writes(c)

\* The last write is that of the unit before, so that it may be long ago as
\* soon as this one begins.
TimePasses(c) ==
    /\ Writing(session[c]) /\ ~session[c].late
    /\ Set(c, [session[c] EXCEPT !.late = TRUE])
    /\ Writes(c)

-----------------------------------------------------------------------------
Closing(c) == CloseSink(c) \/ CloseLocks(c) \/ CloseClears(c) \/ CloseWriter(c) \/ CloseSocket(c)

\* What a client may do, or not.
ClientActs(c) ==
    \/ \E next \in {"answer", "answer last"} : AnswerRequest(c, next)
    \/ Setup(c) \/ Play(c) \/ GivesUp(c)

\* What the request thread does by itself.
RequestThread(c) ==
    \/ ServeBegins(c) \/ PlayArms(c) \/ PlayLocks(c) \/ PlayClears(c) \/ PlayJoins(c) \/ PlayChecks(c)
    \/ AnswerBegins(c)
    \/ StartWriter(c) \/ NameWriter(c) \/ CheckHealth(c)
    \/ Interrupted(c) \/ Leave(c) \/ Left(c)

\* A write ends if the client reads, and fails if the connection is lost.
Peer(c) == AnswerEnds(c) \/ AnswerFails(c) \/ SendEnds(c) \/ SendFails(c)

WriterThread(c) ==
    \/ WriterLoop(c) \/ TakeUnit(c) \/ TakeInterrupted(c) \/ CountUnit(c)
    \/ SendBegins(c) \/ WriterCloses(c) \/ WriterDies(c)

EncoderThread == \/ \E unit \in Units : Publish(unit)
                 \/ \E c \in Clients : EnqueueChecks(c)
                 \/ Offer

AcceptThread == (\E c \in Clients : Accept(c)) \/ AcceptEnds \/ Accepted

MainThread == \/ \E bound \in BOOLEAN : StartServer(bound)
              \/ StopServer \/ StopListener \/ StopExecutor
              \/ \E c \in Clients : StopCloses(c)

\* What remains when a stopped server has ended.
RtspEnded ==
    /\ server = "stopped" /\ accepting = "no" /\ \A c \in Clients : session[c].request \in {"none", "gone"}
    /\ UNCHANGED rtspVars

RtspNext == \/ MainThread \/ AcceptThread \/ EncoderThread \/ RtspEnded
            \/ \E c \in Clients : \/ Closing(c) \/ ClientActs(c) \/ RequestThread(c) \/ Peer(c)
                                  \/ WriterThread(c) \/ TimePasses(c)

\* Threads run, time passes, and what waits for a closed socket fails.  The
\* encoder leaves the buffer's lock free from one unit to the next, for longer
\* than a thread that waits for it takes to get it.
RtspFairness ==
    /\ WF_rtspVars(StopListener) /\ WF_rtspVars(StopExecutor) /\ WF_rtspVars(AcceptEnds) /\ WF_rtspVars(Accepted)
    /\ \A c \in Clients :
         /\ WF_rtspVars(StopCloses(c)) /\ WF_rtspVars(Closing(c))
         /\ WF_rtspVars(RequestThread(c)) /\ SF_rtspVars(PlayLocks(c))
         /\ WF_rtspVars(WriterThread(c)) /\ WF_rtspVars(TimePasses(c))
         /\ WF_rtspVars(SocketClosed(c) /\ (AnswerFails(c) \/ SendFails(c)))
         /\ WF_rtspVars(EnqueueChecks(c) \/ Offer)

RtspSpec == RtspInit /\ [][RtspNext]_rtspVars /\ RtspFairness

-----------------------------------------------------------------------------
RtspTypeOK ==
    /\ server \in {"new", "listening", "closing", "joining", "stopped"}
    /\ toClose \cup sessions \cup sinks \cup encoder.todo \subseteq Clients
    /\ accepting \in Clients \cup {"no", "listening"}
    /\ \A c \in Clients :
         /\ session[c].queue \in Seq(Units) /\ Len(session[c].queue) <= Capacity
         /\ session[c].bytes \in 0..(2 * MaxQueueBytes)   \* a unit taken is not counted off at once

\* What the code keeps of the promise of LatestAccessUnitBuffer
\* (RtspSession.kt:386-391).  Memory is bounded, although a clear may come
\* between a take and its count, by one unit above the limit.  A unit whose key
\* frame was dropped from the queue does not stay: unless the session is being
\* closed it goes before the lock is released, so that the writer can take it
\* from a thread that is clearing the queue and at no other time.
QueueKeepsItsPromise ==
    \A c \in Clients :
      LET s == session[c]
          q == s.queue
      IN /\ Bytes(q) <= 2 * MaxQueueBytes
         /\ ~s.closed /\ s.inside \notin Clearing =>
              \A i \in DOMAIN q : ~q[i].key => s.whole \/ \E j \in 1..(i - 1) : q[j].key

\* Not so: "a lost key frame discards dependent frames until the next IDR"
\* (RtspSession.kt:390-391).  take() polls without the lock.
LostKeyDiscardsDependents ==
    [][\A c \in Clients :
         LET s == session[c]
             t == session'[c]
         IN ~s.closed /\ s.hand = Nobody /\ t.hand /= Nobody => t.hand.key \/ s.whole]_rtspVars

\* After stop() nothing remains of a client: no session, sink, open socket or
\* thread.  The one exception is a writer whose close came between its start
\* and the assignment of writerThread (missed): nobody interrupts it.
Released(c) ==
    LET s == session[c] IN
    /\ c \notin sessions \cup sinks /\ s.closing \in {"no", "done"}
    /\ s.request \in {"none", "gone"} /\ (s.writer \in {"none", "dead"} \/ s.missed)

\* A writer that waits for its client is noticed and its session closed, if
\* the request thread reads meanwhile and does not wait for the same lock.
Stalled(c) == session[c].writer = "send" /\ session[c].request \notin Answers

ClientsAreReleased ==
    \A c \in Clients : /\ server = "closing" ~> Released(c)
                       /\ Stalled(c) ~> ~Stalled(c)

\* Not so: the writer that nobody interrupts waits for ever.
NoWriterIsLeft == \A c \in Clients : server = "closing" ~> session[c].writer \in {"none", "dead"}
=============================================================================
