-------------------------------- MODULE Events --------------------------------
(***************************************************************************)
(* Event publication: EventManager (app/events/manager.py), which records  *)
(* known and unknown persons at most once per cooldown, EventStorage and   *)
(* the SnapshotWriter with its bounded queue and lazily started thread     *)
(* (app/events/storage.py), closed by any number of threads.               *)
(***************************************************************************)
EXTENDS Integers, Sequences

CONSTANTS
    EventKeys,    \* (camera, track, type) of an event
    Closers,      \* threads that call close()
    Nobody,       \* None
    Cooldown,     \* cooldown seconds
    QueueSize,    \* max_queue_size
    MaxEvents,    \* bound: events recorded
    MaxTime       \* bound: timestamps

ASSUME EventsAssumption == /\ Cooldown \in Nat /\ QueueSize \in Nat \ {0}
                           /\ MaxEvents \in Nat /\ MaxTime \in Nat
                           /\ Nobody \notin 0 .. MaxEvents

VARIABLES
    disk,     \* the events on disk, in the order of their publication
    last,     \* _last_events
    emit,     \* the emit() that holds the manager's lock: [pc, accepted]
    writer,   \* SnapshotWriter: [queue, unfinished, task, thread, closed, stopped]
    closing,  \* EventManager._closed
    closer    \* where each closing thread is

eventVars == <<disk, last, emit, writer, closing, closer>>

End == 0   \* the marker that ends the writer's thread, None in the code

FreshWriter == [queue |-> <<>>, unfinished |-> 0, task |-> Nobody, thread |-> "none",
                closed |-> FALSE, stopped |-> FALSE]

EventsInit ==
    /\ disk = <<>>
    /\ last = [k \in {} |-> 0]
    /\ emit = [pc |-> "idle", accepted |-> FALSE]
    /\ writer = FreshWriter
    /\ closing = FALSE
    /\ closer = [c \in Closers |-> "idle"]

-----------------------------------------------------------------------------
(* emit(), under the manager's lock from the test of the cooldown on.      *)

InCooldown(k, now) == k \in DOMAIN last /\ now - last[k] < Cooldown

\* The time is the frame's: the wall clock, which may be set back.
EmitMetadata(k, now) ==
    /\ emit.pc = "idle" /\ ~closing
    /\ ~InCooldown(k, now)
    /\ Len(disk) < MaxEvents
    /\ disk' = Append(disk, [key |-> k, time |-> now, snapshot |-> FALSE, image |-> "none"])
    /\ emit' = [pc |-> "submit", accepted |-> FALSE]
    /\ UNCHANGED <<last, writer, closing, closer>>

BugPromisesRefused ==
    /\ emit.pc = "submit"
    /\ IF writer.closed \/ Len(writer.queue) >= QueueSize
         THEN emit' = [emit EXCEPT !.pc = "rewrite"] /\ UNCHANGED writer
         ELSE /\ emit' = [pc |-> "rewrite", accepted |-> TRUE]
              /\ writer' = [writer EXCEPT !.queue = Append(@, Len(disk)),
                                          !.unfinished = @ + 1,
                                          !.thread = IF @ = "none" THEN "alive" ELSE @]
    /\ UNCHANGED <<disk, last, closing, closer>>

\* submit(): refused by a closed writer and by a full queue; the first task
\* starts the thread.
EmitSnapshot ==
    /\ emit.pc = "submit"
    /\ IF writer.closed THEN emit' = [emit EXCEPT !.pc = "record"] /\ UNCHANGED writer
       ELSE IF Len(writer.queue) >= QueueSize
         THEN /\ emit' = [emit EXCEPT !.pc = "record"]
              /\ writer' = [writer EXCEPT !.thread = IF @ = "none" THEN "alive" ELSE @]
         ELSE /\ emit' = [pc |-> "rewrite", accepted |-> TRUE]
              /\ writer' = [writer EXCEPT !.queue = Append(@, Len(disk)),
                                          !.unfinished = @ + 1,
                                          !.thread = IF @ = "none" THEN "alive" ELSE @]
    /\ UNCHANGED <<disk, last, closing, closer>>

\* The second write of the metadata, now with the snapshot's path, may fail.
EmitRewrite ==
    /\ emit.pc = "rewrite"
    /\ \E written \in BOOLEAN : disk' = [disk EXCEPT ![Len(disk)].snapshot = written]
    /\ emit' = [emit EXCEPT !.pc = "record"]
    /\ UNCHANGED <<last, writer, closing, closer>>

\* _last_events[key] = timestamp
LastWith(e) == [k \in DOMAIN last \cup {e.key} |-> IF k = e.key THEN e.time ELSE last[k]]

BugRecordNeedsSnapshot ==
    /\ emit.pc = "record"
    /\ last' = IF emit.accepted THEN LastWith(disk[Len(disk)]) ELSE last
    /\ emit' = [pc |-> "idle", accepted |-> FALSE]
    /\ UNCHANGED <<disk, writer, closing, closer>>

EmitRecord ==
    /\ emit.pc = "record"
    /\ last' = LastWith(disk[Len(disk)])
    /\ emit' = [pc |-> "idle", accepted |-> FALSE]
    /\ UNCHANGED <<disk, writer, closing, closer>>

-----------------------------------------------------------------------------
(* The writer's thread.                                                    *)

WriterGet ==
    /\ writer.thread = "alive" /\ writer.task = Nobody /\ writer.queue /= <<>>
    /\ writer' = [writer EXCEPT !.task = Head(writer.queue), !.queue = Tail(writer.queue)]
    /\ UNCHANGED <<disk, last, emit, closing, closer>>

BugTaskNeverDone ==
    /\ writer.task /= Nobody
    /\ writer' = [writer EXCEPT !.task = Nobody, !.thread = IF writer.task = End THEN "dead" ELSE @]
    /\ IF writer.task = End THEN UNCHANGED disk
       ELSE \E outcome \in {"written", "failed"} : disk' = [disk EXCEPT ![writer.task].image = outcome]
    /\ UNCHANGED <<last, emit, closing, closer>>

\* The end marker ends the thread; a snapshot is written, atomically, or the
\* exception is logged.
WriterWrite ==
    /\ writer.task /= Nobody
    /\ writer' = [writer EXCEPT !.task = Nobody, !.unfinished = @ - 1,
                                !.thread = IF writer.task = End THEN "dead" ELSE @]
    /\ IF writer.task = End THEN UNCHANGED disk
       ELSE \E outcome \in {"written", "failed"} : disk' = [disk EXCEPT ![writer.task].image = outcome]
    /\ UNCHANGED <<last, emit, closing, closer>>

-----------------------------------------------------------------------------
(* close().                                                                *)

CloserGoto(c, label) == closer' = [closer EXCEPT ![c] = label]

CloseManager(c) ==
    /\ closer[c] = "idle" /\ emit.pc = "idle"
    /\ closing' = TRUE
    /\ CloserGoto(c, "lock")
    /\ UNCHANGED <<disk, last, emit, writer>>

CloseWriter(c) ==
    /\ closer[c] = "lock"
    /\ writer' = [writer EXCEPT !.closed = TRUE]
    /\ CloserGoto(c, IF writer.stopped \/ writer.thread = "none" THEN "true" ELSE "flush")
    /\ UNCHANGED <<disk, last, emit, closing>>

\* flush(): all tasks done, or the timeout.
CloseFlush(c) ==
    /\ closer[c] = "flush"
    /\ \/ writer.unfinished = 0 /\ CloserGoto(c, "put")
       \/ writer.unfinished > 0 /\ CloserGoto(c, "false")
    /\ UNCHANGED <<disk, last, emit, writer, closing>>

\* put(None) waits for room.
ClosePut(c) ==
    /\ closer[c] = "put" /\ Len(writer.queue) < QueueSize
    /\ writer' = [writer EXCEPT !.queue = Append(@, End), !.unfinished = @ + 1]
    /\ CloserGoto(c, "join")
    /\ UNCHANGED <<disk, last, emit, closing>>

\* join(timeout): the answer says whether the thread is dead.
CloseJoin(c) ==
    /\ closer[c] = "join"
    /\ IF writer.thread = "dead"
         THEN CloserGoto(c, "true") /\ writer' = [writer EXCEPT !.stopped = TRUE]
         ELSE CloserGoto(c, "false") /\ UNCHANGED writer
    /\ UNCHANGED <<disk, last, emit, closing>>

EventsNext ==
    \/ \E k \in EventKeys, now \in 0 .. MaxTime : EmitMetadata(k, now)
    \/ EmitSnapshot \/ EmitRewrite \/ EmitRecord
    \/ WriterGet \/ WriterWrite
    \/ \E c \in Closers : \/ CloseManager(c) \/ CloseWriter(c) \/ CloseFlush(c)
                          \/ ClosePut(c) \/ CloseJoin(c)

EventsSpec == EventsInit /\ [][EventsNext]_eventVars

-----------------------------------------------------------------------------
(* Properties.                                                             *)

EventsTypeOK ==
    /\ \A i \in DOMAIN disk : disk[i].image \in {"none", "written", "failed"}
    /\ writer.queue \in Seq(End .. MaxEvents)
    /\ Len(writer.queue) <= QueueSize
    /\ writer.unfinished = Len(writer.queue) + (IF writer.task = Nobody THEN 0 ELSE 1)

Pending(i) == i = writer.task \/ \E n \in DOMAIN writer.queue : writer.queue[n] = i

\* Metadata that names a snapshot tells the truth: the image is there, or
\* will be, or could not be encoded; and a close() that answers True leaves
\* nothing unwritten, however many closers and publishers there are.
SnapshotPromiseKept ==
    /\ \A i \in DOMAIN disk : disk[i].snapshot =>
         Pending(i) \/ disk[i].image /= "none"
    /\ (\E c \in Closers : closer[c] = "true") =>
         \A i \in 1 .. MaxEvents : ~Pending(i)

\* Two events of one camera, track and type are a cooldown apart, by their
\* own timestamps, also when the clock is set back, a snapshot is refused or
\* the metadata cannot be updated.
RepeatsAreSpaced ==
    \A i, j \in DOMAIN disk :
        i < j /\ disk[i].key = disk[j].key => disk[j].time - disk[i].time >= Cooldown

=============================================================================
