--------------------------- MODULE CameraNodeProofs ---------------------------
(***************************************************************************)
(* What holds of the parts around the runtime, each for any constants of   *)
(* its own - the event manager, the person detectors, the face models and  *)
(* the gallery - and of the node that composes them.                       *)
(***************************************************************************)
EXTENDS MCCameraNode, CameraRuntimeProofs, FiniteSetTheorems, TLAPS

-----------------------------------------------------------------------------
(* The event manager.                                                      *)

Images == {"none", "written", "failed"}
EventRecords == [key : EventKeys, time : 0 .. MaxTime, snapshot : BOOLEAN, image : Images]
Tasks == 0 .. MaxEvents

Writers == [queue : Seq(Tasks), unfinished : Nat, task : Tasks \cup {Nobody},
            thread : {"none", "alive", "dead"}, closed : BOOLEAN, stopped : BOOLEAN]

DiskType == disk \in Seq(EventRecords) /\ Len(disk) <= MaxEvents

EmitType ==
    /\ emit \in [pc : {"idle", "submit", "rewrite", "record"}, accepted : BOOLEAN]
    /\ emit.pc /= "idle" => disk /= <<>>

WriterType ==
    /\ writer \in Writers
    /\ Len(writer.queue) <= QueueSize
    /\ writer.unfinished = Len(writer.queue) + (IF writer.task = Nobody THEN 0 ELSE 1)

CloserType ==
    /\ closing \in BOOLEAN
    /\ closer \in [Closers -> {"idle", "lock", "flush", "put", "join", "true", "false"}]

\* A task is the index of an event that is on disk.
TasksAreEvents ==
    /\ \A n \in DOMAIN writer.queue : writer.queue[n] <= Len(disk)
    /\ writer.task /= Nobody => writer.task <= Len(disk)

\* Every event but the one being emitted is known to the cooldown, which
\* holds a time of its key that is not earlier.
LastIsNewest ==
    \A i \in DOMAIN disk :
        emit.pc = "idle" \/ i < Len(disk) =>
          disk[i].key \in DOMAIN last /\ disk[i].time <= last[disk[i].key]

LastType == \A k \in DOMAIN last : last[k] \in 0 .. MaxTime

\* What the queue and the thread hold is nothing but end markers.
Drained == \A i \in 1 .. MaxEvents : ~Pending(i)

\* No emit() runs and none will, and no snapshot waits.
Quiet == closing /\ emit.pc = "idle" /\ Drained

PromisePending ==
    /\ \A i \in DOMAIN disk :
         disk[i].snapshot \/ (i = Len(disk) /\ emit.pc = "rewrite") =>
           Pending(i) \/ disk[i].image /= "none"

ClosingIsQuiet ==
    /\ closing => emit.pc = "idle"
    /\ \A c \in Closers : closer[c] /= "idle" => closing
    /\ writer.thread = "none" => writer.queue = <<>> /\ writer.task = Nobody
    /\ \A c \in Closers : closer[c] \in {"flush", "put", "join"} => writer.thread /= "none"
    /\ (\E c \in Closers : closer[c] \in {"put", "join", "true"}) => Quiet
    /\ Pending(End) \/ writer.thread = "dead" \/ writer.stopped => Quiet

EventsTypes == DiskType /\ EmitType /\ WriterType /\ CloserType /\ LastType
EventsInv == EventsTypes /\ TasksAreEvents /\ RepeatsAreSpaced /\ LastIsNewest
             /\ PromisePending /\ ClosingIsQuiet
-----------------------------------------------------------------------------
(* The queue: what appending a task and taking one do to what it holds.    *)

Holds(q, i) == \E n \in DOMAIN q : q[n] = i

LEMMA AppendHolds ==
    ASSUME NEW S, NEW q \in Seq(S), NEW x \in S
    PROVE  /\ Append(q, x) \in Seq(S) /\ Len(Append(q, x)) = Len(q) + 1
           /\ \A i : Holds(Append(q, x), i) <=> Holds(q, i) \/ i = x
<1>1. \A i : Holds(q, i) => Holds(Append(q, x), i)
  <2> SUFFICES ASSUME NEW i, Holds(q, i) PROVE Holds(Append(q, x), i)
    OBVIOUS
  <2> PICK n \in DOMAIN q : q[n] = i
    BY DEF Holds
  <2> n \in DOMAIN Append(q, x) /\ Append(q, x)[n] = i
    OBVIOUS
  <2> QED
    BY DEF Holds
<1>2. Holds(Append(q, x), x)
  <2> Len(q) + 1 \in DOMAIN Append(q, x) /\ Append(q, x)[Len(q) + 1] = x
    OBVIOUS
  <2> QED
    BY DEF Holds
<1>3. \A i : Holds(Append(q, x), i) => Holds(q, i) \/ i = x
  <2> SUFFICES ASSUME NEW i, NEW n \in DOMAIN Append(q, x), Append(q, x)[n] = i, i /= x
               PROVE  Holds(q, i)
    BY DEF Holds
  <2> n \in DOMAIN q /\ q[n] = i
    OBVIOUS
  <2> QED
    BY DEF Holds
<1> QED
  BY <1>1, <1>2, <1>3

LEMMA TakeHolds ==
    ASSUME NEW S, NEW q \in Seq(S), q /= <<>>
    PROVE  /\ Head(q) \in S /\ Tail(q) \in Seq(S) /\ Len(Tail(q)) = Len(q) - 1
           /\ \A i : Holds(q, i) <=> Holds(Tail(q), i) \/ i = Head(q)
<1>1. Head(q) \in S /\ Tail(q) \in Seq(S) /\ Len(Tail(q)) = Len(q) - 1
  OBVIOUS
<1>2. \A i : Holds(Tail(q), i) => Holds(q, i)
  <2> SUFFICES ASSUME NEW i, NEW n \in DOMAIN Tail(q), Tail(q)[n] = i PROVE Holds(q, i)
    BY DEF Holds
  <2> n + 1 \in DOMAIN q /\ q[n + 1] = i
    OBVIOUS
  <2> QED
    BY DEF Holds
<1>3. Holds(q, Head(q))
  <2> 1 \in DOMAIN q /\ q[1] = Head(q)
    OBVIOUS
  <2> QED
    BY DEF Holds
<1>4. \A i : Holds(q, i) => Holds(Tail(q), i) \/ i = Head(q)
  <2> SUFFICES ASSUME NEW i, NEW n \in DOMAIN q, q[n] = i, i /= Head(q)
               PROVE  Holds(Tail(q), i)
    BY DEF Holds
  <2> n - 1 \in DOMAIN Tail(q) /\ Tail(q)[n - 1] = i
    OBVIOUS
  <2> QED
    BY DEF Holds
<1> QED
  BY <1>1, <1>2, <1>3, <1>4

\* Tasks done are counted off the queue and the task in hand.
Undone(q, k) == Len(q) + (IF k = Nobody THEN 0 ELSE 1)

LEMMA UndoneSteps ==
    ASSUME NEW q \in Seq(Tasks), NEW p \in Seq(Tasks), NEW k
    PROVE  /\ Undone(q, k) \in Nat
           /\ Undone(q, k) = 0 => q = <<>> /\ k = Nobody
           /\ Len(p) = Len(q) + 1 => Undone(p, k) = Undone(q, k) + 1
           /\ k \in Tasks => Undone(q, Nobody) = Undone(q, k) - 1
           /\ k \in Tasks /\ Len(q) = Len(p) + 1 => Undone(p, k) = Undone(q, Nobody)
BY EventsAssumption DEF Undone, Tasks

LEMMA PendingHolds == \A i : Pending(i) <=> i = writer.task \/ Holds(writer.queue, i)
BY DEF Pending, Holds

-----------------------------------------------------------------------------
(* The invariant.                                                          *)

LEMMA EventsInitInv == EventsInit => EventsInv
<1> SUFFICES ASSUME EventsInit PROVE EventsInv
  OBVIOUS
<1>1. DiskType /\ EmitType /\ CloserType /\ LastType
  <2>1. <<>> \in Seq(EventRecords) /\ Len(<<>>) = 0 /\ DOMAIN [k \in {} |-> 0] = {}
    OBVIOUS
  <2>2. DiskType
    BY <2>1, EventsAssumption DEF EventsInit, DiskType
  <2>3. EmitType
    BY DEF EventsInit, EmitType
  <2>4. CloserType
    BY DEF EventsInit, CloserType
  <2>5. LastType
    BY <2>1 DEF EventsInit, LastType
  <2> QED
    BY <2>2, <2>3, <2>4, <2>5
<1>2. WriterType
  BY EventsAssumption DEF EventsInit, FreshWriter, WriterType, Writers
<1>3. TasksAreEvents
  BY DEF EventsInit, FreshWriter, TasksAreEvents
<1>4. RepeatsAreSpaced /\ LastIsNewest /\ PromisePending
  BY DEF EventsInit, RepeatsAreSpaced, LastIsNewest, PromisePending
<1>5. \A i : Pending(i) => i = Nobody
  BY DEF EventsInit, FreshWriter, Pending
<1>6. ~Pending(End)
  BY <1>5, EventsAssumption DEF End
<1>7. ClosingIsQuiet
  BY <1>6 DEF EventsInit, FreshWriter, ClosingIsQuiet
<1> QED
  BY <1>1, <1>2, <1>3, <1>4, <1>7 DEF EventsInv, EventsTypes

\* The fields of an event on disk that the second write of the metadata, and
\* the writer, leave alone.
LEMMA SnapshotField ==
    ASSUME NEW r \in EventRecords, NEW b \in BOOLEAN
    PROVE  /\ [r EXCEPT !.snapshot = b] \in EventRecords
           /\ [r EXCEPT !.snapshot = b].key = r.key
           /\ [r EXCEPT !.snapshot = b].time = r.time
           /\ [r EXCEPT !.snapshot = b].image = r.image
BY DEF EventRecords

LEMMA ImageField ==
    ASSUME NEW r \in EventRecords, NEW m \in Images
    PROVE  /\ [r EXCEPT !.image = m] \in EventRecords
           /\ [r EXCEPT !.image = m].key = r.key
           /\ [r EXCEPT !.image = m].time = r.time
           /\ [r EXCEPT !.image = m].snapshot = r.snapshot
           /\ [r EXCEPT !.image = m].image = m
BY DEF EventRecords

LEMMA ChangeEvent ==
    ASSUME NEW q \in Seq(EventRecords), NEW n \in DOMAIN q, NEW e \in EventRecords
    PROVE  /\ [q EXCEPT ![n] = e] \in Seq(EventRecords)
           /\ Len([q EXCEPT ![n] = e]) = Len(q) /\ DOMAIN [q EXCEPT ![n] = e] = DOMAIN q
           /\ [q EXCEPT ![n] = e][n] = e
           /\ \A i \in DOMAIN q : i /= n => [q EXCEPT ![n] = e][i] = q[i]
OBVIOUS

\* What a step leaves alone keeps its type.
LEMMA TypeFrame ==
    /\ DiskType /\ UNCHANGED disk => DiskType'
    /\ WriterType /\ UNCHANGED writer => WriterType'
    /\ CloserType /\ UNCHANGED <<closing, closer>> => CloserType'
    /\ LastType /\ UNCHANGED last => LastType'
BY DEF DiskType, WriterType, CloserType, LastType

\* The event that emit() records is a cooldown after every one of its key.
LEMMA MetadataInv ==
    ASSUME EventsInv, NEW k \in EventKeys, NEW now \in 0 .. MaxTime, EmitMetadata(k, now)
    PROVE  EventsInv'
<1> DEFINE e == [key |-> k, time |-> now, snapshot |-> FALSE, image |-> "none"]
<1>0. /\ emit.pc = "idle" /\ ~closing /\ ~InCooldown(k, now) /\ Len(disk) < MaxEvents
      /\ disk' = Append(disk, e) /\ emit' = [pc |-> "submit", accepted |-> FALSE]
      /\ UNCHANGED <<last, writer, closing, closer>>
  BY DEF EmitMetadata
<1>1. e \in EventRecords /\ e.key = k /\ e.time = now /\ e.snapshot = FALSE
  BY DEF EventRecords, Images
<1> HIDE DEF e
<1>2. disk \in Seq(EventRecords) /\ Len(disk) <= MaxEvents
  BY DEF EventsInv, EventsTypes, DiskType
<1>3. /\ disk' \in Seq(EventRecords) /\ Len(disk') = Len(disk) + 1 /\ disk' /= <<>>
      /\ \A i \in DOMAIN disk : disk'[i] = disk[i] /\ i \in DOMAIN disk' /\ i < Len(disk')
      /\ disk'[Len(disk')] = e
      /\ \A i \in DOMAIN disk' : i \in DOMAIN disk \/ i = Len(disk')
  BY <1>0, <1>1, <1>2
<1>4. EventsTypes'
  <2>1. DiskType'
    BY <1>0, <1>2, <1>3, EventsAssumption DEF DiskType
  <2>2. EmitType'
    BY <1>0, <1>3 DEF EmitType
  <2> QED
    BY <1>0, <2>1, <2>2, TypeFrame DEF EventsInv, EventsTypes
<1>5. TasksAreEvents'
  <2>1. TasksAreEvents /\ WriterType
    BY DEF EventsInv, EventsTypes
  <2>2. ASSUME NEW n \in DOMAIN writer.queue PROVE writer.queue[n] <= Len(disk')
    <3>1. writer.queue[n] \in Tasks /\ writer.queue[n] <= Len(disk)
      BY <2>1 DEF TasksAreEvents, WriterType, Writers
    <3> QED
      BY <1>2, <1>3, <3>1, EventsAssumption DEF Tasks
  <2>3. ASSUME writer.task /= Nobody PROVE writer.task <= Len(disk')
    BY <1>2, <1>3, <2>1, <2>3, EventsAssumption DEF TasksAreEvents, WriterType, Writers, Tasks
  <2> QED
    BY <1>0, <2>2, <2>3 DEF TasksAreEvents
<1>6. ASSUME NEW i \in DOMAIN disk, disk[i].key = k
      PROVE  now - disk[i].time >= Cooldown
  <2>1. k \in DOMAIN last /\ disk[i].time <= last[k]
    BY <1>0, <1>6 DEF EventsInv, LastIsNewest
  <2>2. disk[i].time \in 0 .. MaxTime /\ last[k] \in 0 .. MaxTime
    <3>1. disk[i] \in EventRecords
      BY <1>2
    <3>2. last[k] \in 0 .. MaxTime
      BY <2>1 DEF EventsInv, EventsTypes, LastType
    <3> QED
      BY <3>1, <3>2 DEF EventRecords
  <2>3. ~(now - last[k] < Cooldown)
    BY <1>0, <2>1 DEF InCooldown
  <2> QED
    BY <2>1, <2>2, <2>3, EventsAssumption
<1>7. RepeatsAreSpaced'
  <2> SUFFICES ASSUME NEW i \in DOMAIN disk', NEW j \in DOMAIN disk', i < j,
                      disk'[i].key = disk'[j].key
               PROVE  disk'[j].time - disk'[i].time >= Cooldown
    BY DEF RepeatsAreSpaced
  <2>1. i \in DOMAIN disk
    BY <1>2, <1>3
  <2>2. CASE j \in DOMAIN disk
    BY <1>3, <2>1, <2>2 DEF EventsInv, RepeatsAreSpaced
  <2>3. CASE j = Len(disk')
    BY <1>1, <1>3, <1>6, <2>1, <2>3
  <2> QED
    BY <1>3, <2>2, <2>3
<1>8. LastIsNewest'
  <2> SUFFICES ASSUME NEW i \in DOMAIN disk', emit'.pc = "idle" \/ i < Len(disk')
               PROVE  disk'[i].key \in DOMAIN last' /\ disk'[i].time <= last'[disk'[i].key]
    BY DEF LastIsNewest
  <2>1. i \in DOMAIN disk
    BY <1>0, <1>3
  <2> QED
    BY <1>0, <1>3, <2>1 DEF EventsInv, LastIsNewest
<1>9. PromisePending'
  <2> SUFFICES ASSUME NEW i \in DOMAIN disk', disk'[i].snapshot
               PROVE  Pending(i)' \/ disk'[i].image /= "none"
    BY <1>0 DEF PromisePending
  <2>1. i \in DOMAIN disk
    BY <1>1, <1>3
  <2> QED
    BY <1>0, <1>3, <2>1 DEF EventsInv, PromisePending, Pending
<1>10. ClosingIsQuiet'
  BY <1>0 DEF EventsInv, ClosingIsQuiet, Quiet, Drained, Pending
<1> QED
  BY <1>4, <1>5, <1>7, <1>8, <1>9, <1>10 DEF EventsInv

\* submit(): an accepted snapshot is in the queue, as the newest event's.
LEMMA SnapshotInv == ASSUME EventsInv, EmitSnapshot PROVE EventsInv'
<1>0. /\ emit.pc = "submit" /\ UNCHANGED <<disk, last, closing, closer>>
      /\ emit.pc /= "idle" /\ disk /= <<>>
  BY DEF EmitSnapshot, EventsInv, EventsTypes, EmitType
<1>1. /\ disk \in Seq(EventRecords) /\ Len(disk) \in Nat /\ Len(disk) >= 1 /\ Len(disk) <= MaxEvents
      /\ Len(disk) \in Tasks /\ Len(disk) /= End
  BY <1>0, EventsAssumption DEF EventsInv, EventsTypes, DiskType, Tasks, End
<1>2. WriterType /\ writer \in Writers /\ ~closing
  BY <1>0 DEF EventsInv, EventsTypes, WriterType, ClosingIsQuiet, CloserType
<1>3. writer.thread \in {"none", "alive", "dead"} /\ writer.queue \in Seq(Tasks)
  BY <1>2 DEF Writers
<1>4. CASE /\ emit' = [emit EXCEPT !.pc = "record"]
           /\ \/ UNCHANGED writer
              \/ writer' = [writer EXCEPT !.thread = IF @ = "none" THEN "alive" ELSE @]
  <2>1. /\ emit'.pc = "record" /\ emit' \in [pc : {"idle", "submit", "rewrite", "record"}, accepted : BOOLEAN]
    BY <1>4 DEF EventsInv, EventsTypes, EmitType
  <2>2. /\ writer'.queue = writer.queue /\ writer'.task = writer.task /\ writer'.stopped = writer.stopped
        /\ writer'.thread = "none" => writer.thread = "none"
        /\ writer'.thread = "dead" => writer.thread = "dead"
        /\ WriterType'
    BY <1>2, <1>3, <1>4 DEF WriterType, Writers
  <2>3. \A i : Pending(i)' <=> Pending(i)
    BY <2>2 DEF Pending
  <2>4. EventsTypes'
    BY <1>0, <2>1, <2>2, TypeFrame DEF EventsInv, EventsTypes, EmitType
  <2>5. TasksAreEvents' /\ RepeatsAreSpaced' /\ LastIsNewest'
    BY <1>0, <2>1, <2>2 DEF EventsInv, TasksAreEvents, RepeatsAreSpaced, LastIsNewest
  <2>6. PromisePending'
    BY <1>0, <2>1, <2>3 DEF EventsInv, PromisePending
  <2>7. ClosingIsQuiet'
    BY <1>0, <1>2, <2>2, <2>3 DEF EventsInv, ClosingIsQuiet, Quiet
  <2> QED
    BY <2>4, <2>5, <2>6, <2>7 DEF EventsInv
<1>5. CASE /\ Len(writer.queue) < QueueSize
           /\ emit' = [pc |-> "rewrite", accepted |-> TRUE]
           /\ writer' = [writer EXCEPT !.queue = Append(@, Len(disk)),
                                       !.unfinished = @ + 1,
                                       !.thread = IF @ = "none" THEN "alive" ELSE @]
  <2>1. /\ writer.queue \in Seq(Tasks) /\ writer.unfinished \in Nat
        /\ writer.task \in Tasks \cup {Nobody}
    BY <1>2 DEF Writers
  <2> DEFINE q == Append(writer.queue, Len(disk))
             h == IF writer.thread = "none" THEN "alive" ELSE writer.thread
  <2>2. /\ q \in Seq(Tasks) /\ Len(q) = Len(writer.queue) + 1
        /\ \A i : Holds(q, i) <=> Holds(writer.queue, i) \/ i = Len(disk)
    BY <1>1, <1>3, AppendHolds
  <2>3. writer.unfinished + 1 \in Nat /\ h \in {"none", "alive", "dead"} /\ h /= "none"
        /\ (h = "dead" => writer.thread = "dead")
    BY <1>3, <2>1
  <2>4. writer' = [writer EXCEPT !.queue = q, !.unfinished = writer.unfinished + 1,
                                 !.task = writer.task, !.thread = h]
    BY <1>2, <1>5 DEF Writers
  <2> HIDE DEF q, h
  <2>5. /\ writer' \in Writers
        /\ writer'.queue = q /\ writer'.unfinished = writer.unfinished + 1
        /\ writer'.task = writer.task /\ writer'.thread = h /\ writer'.stopped = writer.stopped
    <3>1. writer \in Writers /\ writer.unfinished + 1 \in Nat /\ writer.task \in Tasks \cup {Nobody}
          /\ q \in Seq(Tasks) /\ h \in {"none", "alive", "dead"}
      BY <1>2, <2>1, <2>2, <2>3
    <3> QED
      BY <3>1, <2>4 DEF Writers
  <2>6. \A i : Pending(i)' <=> Pending(i) \/ i = Len(disk)
    BY <2>2, <2>5 DEF Pending, Holds
  <2>7. WriterType'
    <3>1. Len(writer'.queue) <= QueueSize
      BY <1>2, <1>5, <2>1, <2>2, <2>5, EventsAssumption
    <3>2. writer.unfinished = Undone(writer.queue, writer.task)
      BY <1>2 DEF WriterType, Undone
    <3>3. Undone(q, writer.task) = Undone(writer.queue, writer.task) + 1
      BY <2>1, <2>2, UndoneSteps
    <3>4. writer'.unfinished = Undone(writer'.queue, writer'.task)
      BY <2>5, <3>2, <3>3
    <3> QED
      BY <2>5, <3>1, <3>4 DEF WriterType, Undone
  <2>8. EventsTypes'
    BY <1>0, <1>5, <2>7, TypeFrame DEF EventsInv, EventsTypes, EmitType
  <2>9. TasksAreEvents'
    BY <1>0, <1>1, <1>3, <2>2, <2>5 DEF EventsInv, TasksAreEvents, q
  <2>10. RepeatsAreSpaced' /\ LastIsNewest'
    BY <1>0, <1>5 DEF EventsInv, RepeatsAreSpaced, LastIsNewest
  <2>11. PromisePending'
    BY <1>0, <2>6 DEF EventsInv, PromisePending
  <2>12. ClosingIsQuiet'
    BY <1>0, <1>1, <1>2, <2>3, <2>5, <2>6 DEF EventsInv, ClosingIsQuiet, Quiet
  <2> QED
    BY <2>8, <2>9, <2>10, <2>11, <2>12 DEF EventsInv
<1>6. Len(writer.queue) < QueueSize \/ Len(writer.queue) >= QueueSize
  BY <1>3, EventsAssumption
<1> QED
  BY <1>4, <1>5, <1>6, Zenon DEF EmitSnapshot

\* The second write of the metadata, and the record of the cooldown.
LEMMA RewriteInv == ASSUME EventsInv, EmitRewrite PROVE EventsInv'
<1>0. PICK written \in BOOLEAN : disk' = [disk EXCEPT ![Len(disk)].snapshot = written]
  BY DEF EmitRewrite
<1>1. /\ emit.pc = "rewrite" /\ emit' = [emit EXCEPT !.pc = "record"]
      /\ UNCHANGED <<last, writer, closing, closer>>
  BY DEF EmitRewrite
<1>2. disk \in Seq(EventRecords) /\ EmitType
  BY DEF EventsInv, EventsTypes, DiskType
<1>3. /\ disk' \in Seq(EventRecords) /\ Len(disk') = Len(disk) /\ DOMAIN disk' = DOMAIN disk
      /\ \A i \in DOMAIN disk : /\ disk'[i].key = disk[i].key /\ disk'[i].time = disk[i].time
                                /\ disk'[i].image = disk[i].image
                                /\ i /= Len(disk) => disk'[i] = disk[i]
  <2>1. Len(disk) \in DOMAIN disk /\ disk[Len(disk)] \in EventRecords
    BY <1>1, <1>2 DEF EmitType
  <2>2. disk' = [disk EXCEPT ![Len(disk)] = [disk[Len(disk)] EXCEPT !.snapshot = written]]
    BY <1>0
  <2> QED
    BY <1>2, <2>1, <2>2, SnapshotField, ChangeEvent
<1>4. emit'.pc = "record" /\ EmitType' /\ ~closing
  BY <1>1, <1>2, <1>3 DEF EmitType, EventsInv, EventsTypes, CloserType, ClosingIsQuiet
<1>5. EventsTypes'
  BY <1>1, <1>3, <1>4, TypeFrame DEF EventsInv, EventsTypes, DiskType
<1>6. TasksAreEvents'
  BY <1>1, <1>3 DEF EventsInv, TasksAreEvents
<1>7. RepeatsAreSpaced'
  BY <1>3 DEF EventsInv, RepeatsAreSpaced
<1>8. LastIsNewest'
  BY <1>1, <1>3, <1>4 DEF EventsInv, LastIsNewest
<1>9. PromisePending'
  BY <1>1, <1>3, <1>4 DEF EventsInv, PromisePending, Pending
<1>10. ClosingIsQuiet'
  BY <1>1, <1>4 DEF EventsInv, ClosingIsQuiet, Quiet, Drained, Pending
<1> QED
  BY <1>5, <1>6, <1>7, <1>8, <1>9, <1>10 DEF EventsInv

LEMMA RecordInv == ASSUME EventsInv, EmitRecord PROVE EventsInv'
<1> DEFINE k == disk[Len(disk)].key
           t == disk[Len(disk)].time
<1>0. /\ emit.pc = "record" /\ last' = LastWith(disk[Len(disk)])
      /\ emit' = [pc |-> "idle", accepted |-> FALSE] /\ UNCHANGED <<disk, writer, closing, closer>>
  BY DEF EmitRecord
<1>1. disk \in Seq(EventRecords) /\ disk /= <<>> /\ Len(disk) \in DOMAIN disk
  BY <1>0 DEF EventsInv, EventsTypes, DiskType, EmitType
<1>2. /\ DOMAIN last' = DOMAIN last \cup {k}
      /\ last'[k] = t
      /\ \A x \in DOMAIN last : x /= k => last'[x] = last[x]
  BY <1>0 DEF LastWith
<1>3. t \in 0 .. MaxTime /\ \A i \in DOMAIN disk : disk[i].time \in 0 .. MaxTime
  <2>1. \A i \in DOMAIN disk : disk[i] \in EventRecords
    BY <1>1
  <2> QED
    BY <1>1, <2>1 DEF EventRecords
<1>4. EventsTypes'
  <2>1. LastType'
    BY <1>2, <1>3 DEF EventsInv, EventsTypes, LastType
  <2>2. EmitType'
    BY <1>0, <1>1 DEF EmitType
  <2> QED
    BY <1>0, <2>1, <2>2, TypeFrame DEF EventsInv, EventsTypes
<1>5. TasksAreEvents' /\ RepeatsAreSpaced'
  BY <1>0 DEF EventsInv, TasksAreEvents, RepeatsAreSpaced
<1>6. LastIsNewest'
  <2> SUFFICES ASSUME NEW i \in DOMAIN disk
               PROVE  disk[i].key \in DOMAIN last' /\ disk[i].time <= last'[disk[i].key]
    BY <1>0 DEF LastIsNewest
  <2>1. CASE i = Len(disk)
    BY <1>2, <1>3, <2>1
  <2>2. CASE i /= Len(disk) /\ disk[i].key = k
    <3>1. i < Len(disk)
      BY <1>1, <2>2
    <3>2. t - disk[i].time >= Cooldown
      BY <1>1, <2>2, <3>1 DEF EventsInv, RepeatsAreSpaced
    <3> QED
      BY <1>2, <1>3, <2>2, <3>2, EventsAssumption
  <2>3. CASE disk[i].key /= k
    <3>1. i < Len(disk)
      BY <1>1, <2>3
    <3> QED
      BY <1>2, <2>3, <3>1 DEF EventsInv, LastIsNewest
  <2> QED
    BY <2>1, <2>2, <2>3
<1>7. PromisePending'
  BY <1>0 DEF EventsInv, PromisePending, Pending
<1>8. ClosingIsQuiet'
  BY <1>0 DEF EventsInv, ClosingIsQuiet, Quiet, Drained, Pending
<1> QED
  BY <1>4, <1>5, <1>6, <1>7, <1>8 DEF EventsInv

-----------------------------------------------------------------------------
(* The writer's thread.                                                    *)

LEMMA Sentinels == End \in Tasks /\ Nobody \notin Tasks /\ \A i \in 1 .. MaxEvents : i \in Tasks
BY EventsAssumption DEF Tasks, End

LEMMA DiskIndices == EventsInv => \A i \in DOMAIN disk : i \in 1 .. MaxEvents /\ i \in Tasks
BY EventsAssumption, Sentinels DEF EventsInv, EventsTypes, DiskType

\* The thread takes a task: it is pending as before.
LEMMA GetInv == ASSUME EventsInv, WriterGet PROVE EventsInv'
<1>0. /\ writer.thread = "alive" /\ writer.task = Nobody /\ writer.queue /= <<>>
      /\ writer' = [writer EXCEPT !.task = Head(writer.queue), !.queue = Tail(writer.queue)]
      /\ UNCHANGED <<disk, last, emit, closing, closer>>
  BY DEF WriterGet
<1>1. writer \in Writers /\ WriterType
  BY DEF EventsInv, EventsTypes, WriterType
<1>2. writer.queue \in Seq(Tasks) /\ writer.unfinished \in Nat
  BY <1>1 DEF Writers
<1> DEFINE h == Head(writer.queue)
           q == Tail(writer.queue)
<1>3. /\ h \in Tasks /\ q \in Seq(Tasks) /\ Len(q) = Len(writer.queue) - 1
      /\ \A i : Holds(writer.queue, i) <=> Holds(q, i) \/ i = h
  BY <1>0, <1>2, TakeHolds
<1>4. writer.queue[1] = h /\ 1 \in DOMAIN writer.queue
      /\ \A n \in DOMAIN q : n + 1 \in DOMAIN writer.queue /\ q[n] = writer.queue[n + 1]
  BY <1>0, <1>2
<1> HIDE DEF h, q
<1>5. /\ writer' \in Writers /\ writer'.queue = q /\ writer'.task = h
      /\ writer'.unfinished = writer.unfinished /\ writer'.thread = "alive"
      /\ writer'.stopped = writer.stopped
  BY <1>0, <1>1, <1>3 DEF Writers, h, q
<1>6. \A i \in Tasks : Pending(i)' <=> Pending(i)
  BY <1>0, <1>3, <1>5, Sentinels DEF Pending, Holds
<1>7. WriterType'
  <2>1. Undone(q, h) = Undone(writer.queue, Nobody)
    BY <1>2, <1>3, UndoneSteps
  <2>2. Len(writer'.queue) <= QueueSize
    BY <1>1, <1>2, <1>3, <1>5, EventsAssumption DEF WriterType
  <2>3. writer'.unfinished = Undone(writer'.queue, writer'.task)
    BY <1>0, <1>1, <1>5, <2>1 DEF WriterType, Undone
  <2> QED
    BY <1>5, <2>2, <2>3 DEF WriterType, Undone
<1>8. EventsTypes'
  BY <1>0, <1>7, TypeFrame DEF EventsInv, EventsTypes, EmitType
<1>9. TasksAreEvents'
  BY <1>0, <1>4, <1>5 DEF EventsInv, TasksAreEvents
<1>10. RepeatsAreSpaced' /\ LastIsNewest'
  BY <1>0 DEF EventsInv, RepeatsAreSpaced, LastIsNewest
<1>11. PromisePending'
  BY <1>0, <1>6, DiskIndices DEF EventsInv, PromisePending
<1>12. ClosingIsQuiet'
  BY <1>0, <1>5, <1>6, Sentinels DEF EventsInv, ClosingIsQuiet, Quiet, Drained
<1> QED
  BY <1>8, <1>9, <1>10, <1>11, <1>12 DEF EventsInv

\* The thread is done with a task: its snapshot is written or has failed, and
\* an end marker finds every snapshot done.
LEMMA WriteInv == ASSUME EventsInv, WriterWrite PROVE EventsInv'
<1> DEFINE k == writer.task
           h == IF writer.task = End THEN "dead" ELSE writer.thread
<1>0. /\ k /= Nobody /\ UNCHANGED <<last, emit, closing, closer>>
      /\ writer' = [writer EXCEPT !.task = Nobody, !.unfinished = writer.unfinished - 1, !.thread = h]
  BY DEF WriterWrite
<1>1. writer \in Writers /\ WriterType /\ DiskType
  BY DEF EventsInv, EventsTypes, WriterType
<1>2. /\ writer.queue \in Seq(Tasks) /\ writer.unfinished \in Nat /\ k \in Tasks
      /\ h \in {"none", "alive", "dead"}
  BY <1>0, <1>1 DEF Writers
<1>3. writer.unfinished = Undone(writer.queue, k)
  BY <1>1 DEF WriterType, Undone
<1>4. Undone(writer.queue, Nobody) = writer.unfinished - 1 /\ writer.unfinished - 1 \in Nat
  BY <1>2, <1>3, UndoneSteps
<1> HIDE DEF k, h
<1>5. /\ writer' \in Writers /\ writer'.queue = writer.queue /\ writer'.task = Nobody
      /\ writer'.unfinished = writer.unfinished - 1 /\ writer'.thread = h
      /\ writer'.stopped = writer.stopped
  BY <1>0, <1>1, <1>2, <1>4 DEF Writers
<1>6. \A i \in Tasks : Pending(i) <=> Pending(i)' \/ i = k
  BY <1>5, Sentinels DEF Pending, k
<1>7. WriterType'
  <2>1. Len(writer'.queue) <= QueueSize /\ writer'.unfinished = Undone(writer'.queue, writer'.task)
    BY <1>1, <1>4, <1>5 DEF WriterType
  <2> QED
    BY <1>5, <2>1 DEF WriterType, Undone
<1>8. /\ disk' \in Seq(EventRecords) /\ Len(disk') = Len(disk) /\ DOMAIN disk' = DOMAIN disk
      /\ \A i \in DOMAIN disk : /\ disk'[i].key = disk[i].key /\ disk'[i].time = disk[i].time
                                /\ disk'[i].snapshot = disk[i].snapshot
                                /\ i /= k => disk'[i] = disk[i]
                                /\ i = k => disk'[i].image /= "none"
  <2>1. CASE k = End
    <3>1. disk' = disk
      BY <2>1 DEF WriterWrite, k
    <3>2. \A i \in DOMAIN disk : i /= k
      BY <1>1, <2>1 DEF DiskType, End
    <3> QED
      BY <1>1, <3>1, <3>2 DEF DiskType
  <2>2. CASE k /= End
    <3>1. PICK outcome \in {"written", "failed"} : disk' = [disk EXCEPT ![k].image = outcome]
      BY <2>2 DEF WriterWrite, k
    <3>2. k <= Len(disk)
      BY <1>0 DEF EventsInv, TasksAreEvents, k
    <3>3. k \in DOMAIN disk /\ disk[k] \in EventRecords /\ disk \in Seq(EventRecords)
      BY <1>1, <1>2, <2>2, <3>2, EventsAssumption DEF DiskType, Tasks, End
    <3>4. disk' = [disk EXCEPT ![k] = [disk[k] EXCEPT !.image = outcome]]
      BY <3>1
    <3>5. outcome \in Images /\ outcome /= "none"
      BY DEF Images
    <3> QED
      BY <3>3, <3>4, <3>5, ImageField, ChangeEvent
  <2> QED
    BY <2>1, <2>2
<1>9. EventsTypes'
  <2>1. EmitType'
    BY <1>0, <1>1, <1>8 DEF EventsInv, EventsTypes, EmitType, DiskType
  <2> QED
    BY <1>0, <1>7, <1>8, <2>1, TypeFrame DEF EventsInv, EventsTypes, DiskType
<1>10. TasksAreEvents'
  BY <1>5, <1>8 DEF EventsInv, TasksAreEvents
<1>11. RepeatsAreSpaced'
  BY <1>8 DEF EventsInv, RepeatsAreSpaced
<1>12. LastIsNewest'
  BY <1>0, <1>8 DEF EventsInv, LastIsNewest
<1>13. PromisePending'
  <2> SUFFICES ASSUME NEW i \in DOMAIN disk, disk[i].snapshot \/ (i = Len(disk) /\ emit.pc = "rewrite")
               PROVE  Pending(i)' \/ disk'[i].image /= "none"
    BY <1>0, <1>8 DEF PromisePending
  <2>1. Pending(i) \/ disk[i].image /= "none"
    BY DEF EventsInv, PromisePending
  <2>2. i \in Tasks
    BY DiskIndices
  <2> QED
    BY <1>6, <1>8, <2>1, <2>2
<1>14. ClosingIsQuiet'
  <2>1. Quiet => Quiet'
    BY <1>0, <1>6, Sentinels DEF Quiet, Drained
  <2>2. Pending(End)' => Pending(End)
    BY <1>6, Sentinels
  <2>3. h = "dead" => Quiet
    <3>1. k = End => Pending(End)
      BY DEF Pending, k
    <3>2. k /= End => h = writer.thread
      BY DEF h, k
    <3> QED
      BY <3>1, <3>2 DEF EventsInv, ClosingIsQuiet
  <2>4. h /= "none"
    BY <1>0 DEF EventsInv, ClosingIsQuiet, h, k
  <2> QED
    BY <1>0, <1>5, <2>1, <2>2, <2>3, <2>4 DEF EventsInv, ClosingIsQuiet
<1> QED
  BY <1>9, <1>10, <1>11, <1>12, <1>13, <1>14 DEF EventsInv

-----------------------------------------------------------------------------
(* close().                                                                *)

\* What a closer leaves alone.
LEMMA CloserFrame ==
    ASSUME EventsInv, UNCHANGED <<disk, last, emit>>
    PROVE  DiskType' /\ EmitType' /\ LastType' /\ RepeatsAreSpaced' /\ LastIsNewest'
BY DEF EventsInv, EventsTypes, DiskType, EmitType, LastType, RepeatsAreSpaced, LastIsNewest

\* A closer that only moves on: to "put", to "join" and to the answer True
\* only when nothing waits.
LEMMA CloserMoves ==
    ASSUME EventsInv, NEW c \in Closers,
           NEW l \in {"lock", "flush", "put", "join", "true", "false"},
           CloserGoto(c, l), l \in {"put", "join", "true"} => Quiet, closing,
           l \in {"flush", "put", "join"} => writer.thread /= "none",
           UNCHANGED <<disk, last, emit, closing>>,
           writer'.queue = writer.queue, writer'.task = writer.task, writer'.thread = writer.thread,
           writer'.stopped => writer.stopped \/ Quiet,
           WriterType'
    PROVE  EventsInv'
<1>1. closer' = [closer EXCEPT ![c] = l] /\ CloserType
  BY DEF CloserGoto, EventsInv, EventsTypes
<1>2. CloserType' /\ \A d \in Closers : closer'[d] = closer[d] \/ closer'[d] = l
  BY <1>1 DEF CloserType
<1>3. \A i : Pending(i)' <=> Pending(i)
  BY DEF Pending
<1>4. EventsTypes'
  BY <1>2, CloserFrame DEF EventsTypes
<1>5. TasksAreEvents' /\ PromisePending'
  BY <1>3 DEF EventsInv, TasksAreEvents, PromisePending
<1>6. ClosingIsQuiet'
  <2>1. Quiet' <=> Quiet
    BY <1>3 DEF Quiet, Drained
  <2>2. \A d \in Closers : closer'[d] \in {"flush", "put", "join"} => writer'.thread /= "none"
    BY <1>2 DEF EventsInv, ClosingIsQuiet
  <2> QED
    BY <1>2, <1>3, <2>1, <2>2 DEF EventsInv, ClosingIsQuiet
<1> QED
  BY <1>4, <1>5, <1>6, CloserFrame DEF EventsInv

LEMMA CloseManagerInv == ASSUME EventsInv, NEW c \in Closers, CloseManager(c) PROVE EventsInv'
<1>0. /\ emit.pc = "idle" /\ closing' = TRUE /\ closer' = [closer EXCEPT ![c] = "lock"]
      /\ UNCHANGED <<disk, last, emit, writer>>
  BY DEF CloseManager, CloserGoto
<1>1. /\ CloserType'
      /\ \A d \in Closers : closer'[d] \in {"put", "join", "true"} => closer'[d] = closer[d]
  BY <1>0 DEF EventsInv, EventsTypes, CloserType
<1>2. EventsTypes'
  BY <1>0, <1>1, CloserFrame DEF EventsInv, EventsTypes, WriterType
<1>3. \A i : Pending(i)' <=> Pending(i)
  BY <1>0 DEF Pending
<1>4. Quiet => Quiet'
  BY <1>0, <1>3 DEF Quiet, Drained
<1>5. TasksAreEvents' /\ PromisePending'
  BY <1>0, <1>3 DEF EventsInv, TasksAreEvents, PromisePending
<1>6. ClosingIsQuiet'
  BY <1>0, <1>1, <1>3, <1>4 DEF EventsInv, ClosingIsQuiet
<1> QED
  BY <1>0, <1>2, <1>5, <1>6, CloserFrame DEF EventsInv

LEMMA CloseWriterInv == ASSUME EventsInv, NEW c \in Closers, CloseWriter(c) PROVE EventsInv'
<1> DEFINE l == IF writer.stopped \/ writer.thread = "none" THEN "true" ELSE "flush"
<1>0. /\ closer[c] = "lock" /\ CloserGoto(c, l) /\ UNCHANGED <<disk, last, emit, closing>>
      /\ writer' = [writer EXCEPT !.closed = TRUE]
  BY DEF CloseWriter
<1>1. closing /\ emit.pc = "idle" /\ WriterType /\ writer \in Writers
  BY <1>0 DEF EventsInv, EventsTypes, WriterType, ClosingIsQuiet
<1>2. writer.thread = "none" => Quiet
  BY <1>1, Sentinels DEF EventsInv, ClosingIsQuiet, Quiet, Drained, Pending
<1>3. (l = "true" => Quiet) /\ (l = "flush" => writer.thread /= "none")
  BY <1>2 DEF EventsInv, ClosingIsQuiet
<1>4. l \in {"true", "flush"}
  OBVIOUS
<1> HIDE DEF l
<1>5. /\ writer' \in Writers /\ writer'.queue = writer.queue /\ writer'.task = writer.task
      /\ writer'.thread = writer.thread /\ writer'.stopped = writer.stopped
      /\ writer'.unfinished = writer.unfinished
  BY <1>0, <1>1 DEF Writers
<1>6. WriterType'
  BY <1>1, <1>5 DEF WriterType
<1> QED
  BY <1>0, <1>1, <1>3, <1>4, <1>5, <1>6, CloserMoves

LEMMA CloseFlushInv == ASSUME EventsInv, NEW c \in Closers, CloseFlush(c) PROVE EventsInv'
<1>a. closer[c] = "flush" /\ writer.thread /= "none"
  BY DEF CloseFlush, EventsInv, ClosingIsQuiet
<1>0. /\ closer[c] = "flush" /\ UNCHANGED <<disk, last, emit, writer, closing>>
      /\ \/ writer.unfinished = 0 /\ CloserGoto(c, "put")
         \/ writer.unfinished > 0 /\ CloserGoto(c, "false")
  BY DEF CloseFlush
<1>1. closing /\ emit.pc = "idle" /\ WriterType /\ writer \in Writers /\ WriterType'
  BY <1>0 DEF EventsInv, EventsTypes, WriterType, ClosingIsQuiet
<1>2. writer.unfinished = 0 => Quiet
  <2> SUFFICES ASSUME writer.unfinished = 0 PROVE Quiet
    OBVIOUS
  <2>1. writer.queue \in Seq(Tasks) /\ Undone(writer.queue, writer.task) = 0
    BY <1>1 DEF WriterType, Writers, Undone
  <2>2. writer.queue = <<>> /\ writer.task = Nobody
    BY <2>1, UndoneSteps
  <2> QED
    BY <1>1, <2>2, Sentinels DEF Quiet, Drained, Pending
<1> QED
  BY <1>a, <1>0, <1>1, <1>2, CloserMoves

\* The end marker is put after the last snapshot, so that it waits for none.
LEMMA ClosePutInv == ASSUME EventsInv, NEW c \in Closers, ClosePut(c) PROVE EventsInv'
<1>0. /\ closer[c] = "put" /\ Len(writer.queue) < QueueSize /\ CloserGoto(c, "join")
      /\ writer' = [writer EXCEPT !.queue = Append(writer.queue, End), !.unfinished = writer.unfinished + 1]
      /\ UNCHANGED <<disk, last, emit, closing>>
  BY DEF ClosePut
<1>1. Quiet /\ closing /\ WriterType /\ writer \in Writers /\ CloserType /\ DiskType
  BY <1>0 DEF EventsInv, EventsTypes, ClosingIsQuiet, WriterType, Quiet
<1>2. writer.queue \in Seq(Tasks) /\ writer.unfinished \in Nat /\ writer.task \in Tasks \cup {Nobody}
  BY <1>1 DEF Writers
<1> DEFINE q == Append(writer.queue, End)
<1>a. writer' = [writer EXCEPT !.queue = q, !.unfinished = writer.unfinished + 1]
  BY <1>0
<1>3. /\ q \in Seq(Tasks) /\ Len(q) = Len(writer.queue) + 1
      /\ \A i : Holds(q, i) <=> Holds(writer.queue, i) \/ i = End
  BY <1>2, Sentinels, AppendHolds
<1>4. \A n \in DOMAIN q : q[n] = End \/ (n \in DOMAIN writer.queue /\ q[n] = writer.queue[n])
  BY <1>2
<1> HIDE DEF q
<1>5. /\ writer' \in Writers /\ writer'.queue = q /\ writer'.unfinished = writer.unfinished + 1
      /\ writer'.task = writer.task /\ writer'.thread = writer.thread /\ writer'.stopped = writer.stopped
  <2>1. writer \in Writers /\ q \in Seq(Tasks) /\ writer.unfinished + 1 \in Nat
    BY <1>1, <1>2, <1>3
  <2> QED
    BY <1>a, <2>1 DEF Writers
<1>6. \A i : Pending(i)' <=> Pending(i) \/ i = End
  BY <1>3, <1>5 DEF Pending, Holds
<1>7. WriterType'
  <2>1. Len(writer'.queue) <= QueueSize
    BY <1>0, <1>2, <1>3, <1>5, EventsAssumption
  <2>2. Undone(q, writer.task) = Undone(writer.queue, writer.task) + 1
    BY <1>2, <1>3, UndoneSteps
  <2>3. writer.unfinished = Undone(writer.queue, writer.task)
    BY <1>1 DEF WriterType, Undone
  <2>4. writer'.unfinished = Undone(writer'.queue, writer'.task)
    BY <1>5, <2>2, <2>3
  <2> QED
    BY <1>5, <2>1, <2>4 DEF WriterType, Undone
<1>8. CloserType' /\ \A d \in Closers : closer'[d] = closer[d] \/ closer'[d] = "join"
  BY <1>0, <1>1 DEF CloserGoto, CloserType
<1>9. EventsTypes'
  BY <1>0, <1>7, <1>8, CloserFrame DEF EventsTypes
<1>10. TasksAreEvents'
  BY <1>0, <1>1, <1>4, <1>5 DEF EventsInv, TasksAreEvents, DiskType, End
<1>11. PromisePending'
  BY <1>0, <1>6 DEF EventsInv, PromisePending
<1>12. Quiet'
  BY <1>0, <1>1, <1>6 DEF Quiet, Drained, End
<1>13. writer.thread /= "none"
  BY <1>0 DEF EventsInv, ClosingIsQuiet
<1>14. ClosingIsQuiet'
  BY <1>0, <1>5, <1>8, <1>12, <1>13 DEF EventsInv, ClosingIsQuiet, Quiet
<1> QED
  BY <1>0, <1>9, <1>10, <1>11, <1>14, CloserFrame DEF EventsInv

LEMMA CloseJoinInv == ASSUME EventsInv, NEW c \in Closers, CloseJoin(c) PROVE EventsInv'
<1>0. closer[c] = "join" /\ UNCHANGED <<disk, last, emit, closing>>
  BY DEF CloseJoin
<1>1. /\ closing /\ WriterType /\ writer \in Writers /\ writer.thread /= "none"
  BY <1>0 DEF EventsInv, EventsTypes, WriterType, ClosingIsQuiet
<1>2. CASE /\ writer.thread = "dead" /\ CloserGoto(c, "true")
           /\ writer' = [writer EXCEPT !.stopped = TRUE]
  <2>1. Quiet
    BY <1>2 DEF EventsInv, ClosingIsQuiet
  <2>2. /\ writer' \in Writers /\ writer'.queue = writer.queue /\ writer'.task = writer.task
        /\ writer'.thread = writer.thread /\ writer'.unfinished = writer.unfinished
    BY <1>1, <1>2 DEF Writers
  <2>3. WriterType'
    BY <1>1, <2>2 DEF WriterType
  <2> QED
    BY <1>0, <1>1, <1>2, <2>1, <2>2, <2>3, CloserMoves
<1>3. CASE CloserGoto(c, "false") /\ UNCHANGED writer
  <2>1. WriterType'
    BY <1>1, <1>3 DEF WriterType
  <2> QED
    BY <1>0, <1>1, <1>3, <2>1, CloserMoves
<1> QED
  BY <1>2, <1>3, Zenon DEF CloseJoin

-----------------------------------------------------------------------------

LEMMA EventsNextInv == EventsInv /\ [EventsNext]_eventVars => EventsInv'
<1> SUFFICES ASSUME EventsInv, [EventsNext]_eventVars PROVE EventsInv'
  OBVIOUS
<1>1. CASE \E k \in EventKeys, now \in 0 .. MaxTime : EmitMetadata(k, now)
  BY <1>1, MetadataInv
<1>2. CASE EmitSnapshot \/ EmitRewrite \/ EmitRecord
  BY <1>2, SnapshotInv, RewriteInv, RecordInv
<1>3. CASE WriterGet \/ WriterWrite
  BY <1>3, GetInv, WriteInv
<1>4. ASSUME NEW c \in Closers,
             CloseManager(c) \/ CloseWriter(c) \/ CloseFlush(c) \/ ClosePut(c) \/ CloseJoin(c)
      PROVE  EventsInv'
  BY <1>4, CloseManagerInv, CloseWriterInv, CloseFlushInv, ClosePutInv, CloseJoinInv
<1>5. CASE UNCHANGED eventVars
  <2>1. UNCHANGED <<disk, last, emit, writer, closing, closer>>
    BY <1>5 DEF eventVars
  <2>2. EventsTypes' /\ TasksAreEvents' /\ PromisePending' /\ ClosingIsQuiet'
    BY <2>1, CloserFrame DEF EventsInv, EventsTypes, WriterType, CloserType, TasksAreEvents,
       PromisePending, ClosingIsQuiet, Quiet, Drained, Pending
  <2> QED
    BY <2>1, <2>2, CloserFrame DEF EventsInv
<1> QED
  BY <1>1, <1>2, <1>3, <1>4, <1>5 DEF EventsNext

\* What is on disk, in the queue, in the thread and in the closers, of one
\* emit() and any number of closes, always agrees.
THEOREM EventsAgree == EventsSpec => []EventsInv
<1> QED
  BY EventsInitInv, EventsNextInv, PTL DEF EventsSpec

LEMMA EventsInvTyped == EventsInv => EventsTypeOK
<1> SUFFICES ASSUME EventsInv PROVE EventsTypeOK
  OBVIOUS
<1>1. \A i \in DOMAIN disk : disk[i] \in EventRecords
  BY DEF EventsInv, EventsTypes, DiskType
<1>2. WriterType
  BY DEF EventsInv, EventsTypes
<1>3. QED
  BY <1>1, <1>2 DEF EventsTypeOK, EventRecords, Images, WriterType, Writers, Tasks, End

\* The queue of the snapshot writer keeps its bound, and unfinished counts
\* its tasks and the one in hand.
THEOREM EventsTyped == EventsSpec => []EventsTypeOK
<1>1. QED
  BY EventsInvTyped, EventsAgree, PTL

\* Of any emits, cooldown and clock, two events of one camera, track and type
\* are a cooldown apart by their own timestamps (EventManager.emit).
THEOREM RepeatsSpaced == EventsSpec => []RepeatsAreSpaced
<1>1. EventsInv => RepeatsAreSpaced
  BY DEF EventsInv
<1> QED
  BY <1>1, EventsAgree, PTL

\* Metadata names only a snapshot that is there, will be or has failed, and
\* a close() that answers True, of however many, leaves none unwritten.
THEOREM SnapshotsKept == EventsSpec => []SnapshotPromiseKept
<1>1. EventsInv => SnapshotPromiseKept
  BY DEF EventsInv, PromisePending, ClosingIsQuiet, Quiet, Drained, SnapshotPromiseKept
<1> QED
  BY <1>1, EventsAgree, PTL

-----------------------------------------------------------------------------
(* The person detectors.                                                   *)

Caches    == [ir : Contents \cup {Unset}, marker : Contents \cup {Unset}, torn : BOOLEAN]
Detectors == [st : {"none", "load", "prepare", "marker", "idle", "predict"},
              config : DetectorConfigs \cup {Unset}, available : SUBSET Devices,
              target : Devices \cup {Unset}, used : Devices \cup {Unset},
              precision : Precisions \cup {Unset}, dir : Precisions \cup {Unset},
              model : Contents \cup {Unset}, verified : BOOLEAN,
              tried : SUBSET {"device", "precision"}, resume : {"idle", "predict"}]

\* Where the model of detector d is to be.
DirectoryOf(d) == IF d.config.checkpoint THEN d.precision ELSE "fp16"

\* A detector d is one of a configuration, on the device asked for where that
\* leaves no choice, and with the precision asked for or FP32 on the CPU.
Configured(d) ==
    d.st /= "none" =>
      /\ d.config \in DetectorConfigs /\ d.target \in Devices /\ d.used \in Devices
      /\ d.precision \in Precisions
      /\ d.config.backend /= "onnx" /\ d.config.device /= "auto" /\ ~d.config.fallback =>
           d.target = d.config.device /\ d.used = d.config.device
      /\ d.config.backend = "openvino" =>
           /\ d.st /= "load" /\ d.used = d.target
           /\ d.precision = d.config.precision \/ (d.precision = "fp32" /\ d.target = "cpu")
      /\ d.config.backend /= "openvino" => d.st \notin {"prepare", "marker"}

\* An OpenVINO detector d has loaded what is in its directory, which is, when
\* it is whole, of the size asked for, and of the precision of d if it is the
\* directory for that.
Converts(d, directories) ==
    d.st /= "none" /\ d.config.backend = "openvino" =>
      /\ d.st \in {"prepare", "marker"} => d.model = Unset
      /\ d.model /= Unset => d.dir /= Unset /\ d.model = directories[d.dir].ir
      /\ d.dir /= Unset /\ ~directories[d.dir].torn /\ directories[d.dir].ir /= Unset =>
           /\ directories[d.dir].ir.size = d.config.size
           /\ d.dir = DirectoryOf(d) => directories[d.dir].ir.precision = d.precision
      /\ d.st = "marker" =>
           directories[DirectoryOf(d)].ir = [precision |-> d.precision, size |-> d.config.size]

\* The marker of a whole directory is the one of its model, and a model in the
\* directory of a precision is of that precision.
Whole(directories) ==
    /\ directories \in [Precisions -> Caches]
    /\ \A p \in Precisions : /\ ~directories[p].torn => directories[p].ir = directories[p].marker
                             /\ directories[p].ir /= Unset => directories[p].ir.precision = p

\* An answer is the one of the detector as it is.
Answers(d, a) ==
    a /= Unset => /\ d.st = "idle" /\ a.config = d.config /\ d.used \in a.ran
                  /\ d.config.backend = "openvino" => d.model /= Unset /\ a.model = d.model

DetectorsInv ==
    /\ detector \in Detectors /\ made \in 0 .. MaxDetectors
    /\ Configured(detector) /\ Converts(detector, cache) /\ Whole(cache)
    /\ Answers(detector, answer)

LEMMA NoDetectorFacts ==
    ASSUME NEW directories
    PROVE  /\ NoDetector \in Detectors /\ NoDetector.st = "none" /\ Configured(NoDetector)
           /\ Converts(NoDetector, directories) /\ Answers(NoDetector, Unset)
BY DEF NoDetector, Detectors, Configured, Converts, Answers

LEMMA ConfigFacts ==
    ASSUME NEW c \in DetectorConfigs
    PROVE  /\ c.backend \in {"openvino", "yoloe", "segmentation", "onnx"}
           /\ c.device \in Devices \cup {"auto"} /\ c.fallback \in BOOLEAN
           /\ c.precision \in Precisions /\ c.size \in ImageSizes /\ c.checkpoint \in BOOLEAN
<1>1. CASE c \in OpenVINOConfigs
  BY <1>1 DEF OpenVINOConfigs
<1>2. CASE c \in OtherConfigs({"yoloe", "segmentation", "onnx"})
  BY <1>2 DEF OtherConfigs, Precisions
<1>3. QED
  BY <1>1, <1>2 DEF DetectorConfigs

LEMMA CreateInv ==
    ASSUME DetectorsInv, NEW c \in DetectorConfigs, NEW available \in SUBSET Devices, Create(c, available)
    PROVE  DetectorsInv'
<1> DEFINE devices == Preference(c)
           usable  == {n \in DOMAIN devices : devices[n] \in Offered(c, available)}
<1>1. PICK n \in usable :
         detector' = [NoDetector EXCEPT
               !.st = IF c.backend = "openvino" THEN "prepare" ELSE "load",
               !.config = c, !.available = Offered(c, available),
               !.target = devices[n], !.used = devices[n], !.precision = c.precision]
  BY DEF Create
<1>2. /\ devices \in {<<"cpu">>, <<"gpu">>, <<"gpu", "cpu">>} /\ n \in DOMAIN devices
      /\ devices = IF c.device = "cpu" THEN <<"cpu">>
                   ELSE IF c.device = "gpu" /\ ~c.fallback THEN <<"gpu">> ELSE <<"gpu", "cpu">>
  BY ConfigFacts DEF Preference, Devices
<1>3. /\ devices[n] \in Devices
      /\ c.device /= "auto" /\ ~c.fallback => devices[n] = c.device
  BY <1>2, ConfigFacts DEF Devices
<1>4. Offered(c, available) \in SUBSET Devices
  BY DEF Offered, Devices
<1> HIDE DEF devices, usable
<1>5. /\ detector' \in Detectors /\ detector'.config = c /\ detector'.target = devices[n]
      /\ detector'.used = devices[n] /\ detector'.precision = c.precision
      /\ detector'.st = (IF c.backend = "openvino" THEN "prepare" ELSE "load")
      /\ detector'.model = Unset /\ detector'.dir = Unset
  BY <1>1, <1>3, <1>4, ConfigFacts DEF NoDetector, Detectors
<1>6. Configured(detector')
  BY <1>3, <1>5, ConfigFacts DEF Configured
<1>7. Converts(detector', cache)
  BY <1>5 DEF Converts
<1>8. cache' = cache /\ answer' = Unset /\ made' \in 0 .. MaxDetectors
  BY DetectorsAssumption DEF Create, DetectorsInv
<1>9. Whole(cache')
  BY <1>8 DEF DetectorsInv
<1>10. Answers(detector', answer')
  BY <1>8 DEF Answers
<1>11. Converts(detector', cache')
  BY <1>7, <1>8
<1>12. QED
  BY <1>5, <1>6, <1>8, <1>9, <1>10, <1>11 DEF DetectorsInv

\* A step that leaves the directories alone.
LEMMA DetectorStep ==
    ASSUME DetectorsInv, detector' \in Detectors, Configured(detector'), Converts(detector', cache),
           Answers(detector', answer'), UNCHANGED <<cache, made>>
    PROVE  DetectorsInv'
<1>1. Converts(detector', cache') /\ Whole(cache') /\ made' \in 0 .. MaxDetectors
  BY DEF DetectorsInv
<1>2. QED
  BY <1>1 DEF DetectorsInv

\* The exception of a constructor or of a detection.
LEMMA RaisedInv ==
    ASSUME DetectorsInv, detector' = Raised(detector), detector.st \in {"prepare", "marker", "predict"},
           UNCHANGED <<cache, answer, made>>
    PROVE  DetectorsInv'
<1>0. /\ detector \in Detectors /\ Configured(detector) /\ Converts(detector, cache)
      /\ answer = Unset
  BY DEF DetectorsInv, Answers
<1>1. CASE detector.resume = "idle" /\ detector.st # "predict"
  <2>1. detector' = NoDetector
    BY <1>1 DEF Raised
  <2>2. QED
    BY <1>0, <2>1, NoDetectorFacts, DetectorStep
<1>2. CASE ~(detector.resume = "idle" /\ detector.st # "predict")
  <2>1. detector' = [detector EXCEPT !.st = "idle", !.model = Unset, !.resume = "idle"]
    BY <1>2 DEF Raised
  <2>2. /\ detector' \in Detectors /\ detector'.st = "idle" /\ detector'.model = Unset
        /\ detector'.config = detector.config /\ detector'.target = detector.target
        /\ detector'.used = detector.used /\ detector'.precision = detector.precision
        /\ detector'.dir = detector.dir
    BY <1>0, <2>1 DEF Detectors
  <2>3. Configured(detector')
    BY <1>0, <2>2 DEF Configured
  <2>4. Converts(detector', cache)
    BY <1>0, <2>2 DEF Converts, DirectoryOf
  <2>5. Answers(detector', answer')
    BY <1>0 DEF Answers
  <2>6. QED
    BY <2>2, <2>3, <2>4, <2>5, DetectorStep
<1>3. QED
  BY <1>1, <1>2

LEMMA LoadsInv ==
    ASSUME DetectorsInv, detector.st = "load", NEW used \in Devices, NEW verified \in BOOLEAN,
           detector.config.backend = "onnx" \/ detector.config.device = "auto" \/ used = detector.target,
           Loads(used, verified), UNCHANGED <<cache, answer, made>>
    PROVE  DetectorsInv'
<1> DEFINE model == [precision |-> "fp32", size |-> detector.config.size]
<1>0. detector \in Detectors /\ Configured(detector) /\ answer = Unset
  BY DEF DetectorsInv, Answers
<1>1. detector.config \in DetectorConfigs
  BY <1>0 DEF Configured
<1>2. model \in Contents
  BY <1>1, ConfigFacts DEF Contents, Precisions
<1>3. detector' = [detector EXCEPT !.st = "idle", !.used = used, !.verified = verified, !.model = model]
  BY DEF Loads
<1> HIDE DEF model
<1>4. /\ detector' \in Detectors /\ detector'.st = "idle" /\ detector'.used = used
      /\ detector'.config = detector.config /\ detector'.target = detector.target
      /\ detector'.precision = detector.precision
  BY <1>0, <1>2, <1>3 DEF Detectors
<1>5. Configured(detector')
  BY <1>0, <1>4 DEF Configured
<1>6. detector'.config.backend /= "openvino"
  BY <1>0, <1>4 DEF Configured
<1>7. Converts(detector', cache)
  BY <1>6 DEF Converts
<1>8. Answers(detector', answer')
  BY <1>0 DEF Answers
<1>9. QED
  BY <1>4, <1>5, <1>7, <1>8, DetectorStep

LEMMA LoadInv ==
    ASSUME DetectorsInv, LoadYoloE \/ LoadSegmentation \/ LoadOnnx \/ LoadFails
    PROVE  DetectorsInv'
<1>0. /\ detector.st = "load" /\ UNCHANGED <<cache, answer, made>> /\ answer = Unset
      /\ detector.target \in Devices
  BY DEF LoadYoloE, LoadSegmentation, LoadOnnx, LoadFails, DetectorsInv, Answers, Configured
<1>1. CASE LoadYoloE
  BY <1>0, <1>1, LoadsInv DEF LoadYoloE
<1>2. CASE LoadSegmentation
  <2>1. PICK used \in {detector.target} \cup (IF detector.config.device = "auto" THEN {"cpu"} ELSE {}) :
           Loads(used, TRUE)
    BY <1>2 DEF LoadSegmentation
  <2>2. used \in Devices /\ (detector.config.device = "auto" \/ used = detector.target)
    BY <1>0 DEF Devices
  <2>3. QED
    BY <1>0, <2>1, <2>2, LoadsInv
<1>3. CASE LoadOnnx
  <2>1. PICK used \in {detector.target, "cpu"} : Loads(used, TRUE)
    BY <1>3 DEF LoadOnnx
  <2>2. used \in Devices /\ detector.config.backend = "onnx"
    BY <1>0, <1>3 DEF Devices, LoadOnnx
  <2>3. QED
    BY <1>0, <2>1, <2>2, LoadsInv
<1>4. CASE LoadFails
  BY <1>0, <1>4, NoDetectorFacts, DetectorStep DEF LoadFails
<1>5. QED
  BY <1>1, <1>2, <1>3, <1>4

-----------------------------------------------------------------------------
(* The directories of converted models.                                    *)

LEMMA PrepareFacts ==
    ASSUME DetectorsInv, detector.st \in {"prepare", "marker"}
    PROVE  /\ detector \in Detectors /\ Configured(detector) /\ Converts(detector, cache) /\ Whole(cache)
           /\ answer = Unset /\ detector.config.backend = "openvino" /\ detector.model = Unset
           /\ CacheDirectory = DirectoryOf(detector) /\ CacheDirectory \in Precisions
           /\ Wanted \in Contents /\ Wanted.size = detector.config.size /\ Wanted.precision = detector.precision
           /\ Wanted = [precision |-> detector.precision, size |-> detector.config.size]
<1>1. /\ detector \in Detectors /\ Configured(detector) /\ Converts(detector, cache) /\ Whole(cache)
      /\ answer = Unset
  BY DEF DetectorsInv, Answers
<1>2. detector.config \in DetectorConfigs /\ detector.config.backend = "openvino" /\ detector.precision \in Precisions
  BY <1>1 DEF Configured
<1>3. detector.config.size \in ImageSizes
  BY <1>2, ConfigFacts
<1>4. detector.model = Unset
  BY <1>1, <1>2 DEF Converts
<1>5. CacheDirectory = DirectoryOf(detector) /\ CacheDirectory \in Precisions
  BY <1>2 DEF CacheDirectory, DirectoryOf, Precisions
<1>6. QED
  BY <1>1, <1>2, <1>3, <1>4, <1>5 DEF Wanted, Contents

\* The directory that is chosen is of the size wanted, if it is whole.
LEMMA PreparedInv ==
    ASSUME DetectorsInv, detector.st \in {"prepare", "marker"}, detector' = Prepared,
           Whole(cache'),
           ~cache'[CacheDirectory].torn => cache'[CacheDirectory].ir = Wanted,
           UNCHANGED <<answer, made>>
    PROVE  DetectorsInv'
<1>0. /\ detector \in Detectors /\ Configured(detector) /\ answer = Unset
      /\ detector.config.backend = "openvino" /\ detector.model = Unset
      /\ CacheDirectory \in Precisions /\ Wanted.size = detector.config.size
      /\ Wanted.precision = detector.precision
  BY PrepareFacts
<1>1. /\ detector' \in Detectors /\ detector'.st \in {"idle", "predict"} /\ detector'.model = Unset
      /\ detector'.config = detector.config /\ detector'.target = detector.target
      /\ detector'.used = detector.used /\ detector'.precision = detector.precision
      /\ detector'.dir = CacheDirectory
  BY <1>0 DEF Prepared, Detectors
<1>2. Configured(detector')
  BY <1>0, <1>1 DEF Configured
<1>3. Converts(detector', cache')
  BY <1>0, <1>1 DEF Converts
<1>4. Answers(detector', answer') /\ made' \in 0 .. MaxDetectors
  BY <1>0 DEF Answers, DetectorsInv
<1>5. QED
  BY <1>1, <1>2, <1>3, <1>4 DEF DetectorsInv

LEMMA ReuseCacheInv == ASSUME DetectorsInv, ReuseCache PROVE DetectorsInv'
<1>1. /\ detector.st = "prepare" /\ CacheIsValid(CacheDirectory, Wanted) /\ detector' = Prepared
      /\ UNCHANGED <<cache, answer, made>>
  BY DEF ReuseCache
<1>2. Whole(cache) /\ CacheDirectory \in Precisions
  BY <1>1, PrepareFacts
<1>3. Whole(cache') /\ (~cache'[CacheDirectory].torn => cache'[CacheDirectory].ir = Wanted)
  BY <1>1, <1>2 DEF Whole, CacheIsValid
<1>4. QED
  BY <1>1, <1>3, PreparedInv

LEMMA ExportInv == ASSUME DetectorsInv, Export PROVE DetectorsInv'
<1> DEFINE dir == CacheDirectory
<1>0. /\ detector.st = "prepare" /\ detector.config.checkpoint /\ detector' = [detector EXCEPT !.st = "marker"]
      /\ cache' = [cache EXCEPT ![dir].ir = Wanted, ![dir].torn = TRUE] /\ UNCHANGED <<answer, made>>
  BY DEF Export
<1>1. /\ detector \in Detectors /\ Configured(detector) /\ Converts(detector, cache) /\ Whole(cache)
      /\ answer = Unset /\ detector.config.backend = "openvino" /\ detector.model = Unset
      /\ dir = DirectoryOf(detector) /\ dir \in Precisions
      /\ Wanted \in Contents /\ Wanted.size = detector.config.size
      /\ Wanted.precision = detector.precision
      /\ Wanted = [precision |-> detector.precision, size |-> detector.config.size]
  BY <1>0, PrepareFacts
<1>2. /\ detector' \in Detectors /\ detector'.st = "marker" /\ detector'.model = Unset
      /\ detector'.config = detector.config /\ detector'.target = detector.target
      /\ detector'.used = detector.used /\ detector'.precision = detector.precision
      /\ detector'.dir = detector.dir
  BY <1>0, <1>1 DEF Detectors
<1> HIDE DEF dir
<1>3. /\ cache' \in [Precisions -> Caches] /\ cache'[dir].ir = Wanted /\ cache'[dir].torn = TRUE
      /\ \A p \in Precisions : p /= dir => cache'[p] = cache[p]
  <2> DEFINE h == [cache[dir] EXCEPT !.ir = Wanted, !.torn = TRUE]
  <2>1. cache \in [Precisions -> Caches] /\ cache[dir] \in Caches
    BY <1>1 DEF Whole
  <2>2. h \in Caches /\ h.ir = Wanted /\ h.torn = TRUE
    BY <1>1, <2>1 DEF Caches
  <2>3. cache' = [cache EXCEPT ![dir] = h]
    BY <1>0
  <2> HIDE DEF h
  <2>4. QED
    BY <1>1, <2>1, <2>2, <2>3
<1>4. Whole(cache')
  BY <1>0, <1>1, <1>3 DEF Whole, DirectoryOf
<1>5. Configured(detector')
  BY <1>0, <1>1, <1>2 DEF Configured
<1>6. DirectoryOf(detector') = dir
  BY <1>1, <1>2 DEF DirectoryOf
<1>7. Converts(detector', cache')
  <2>1. detector'.dir \in Precisions \cup {Unset}
    BY <1>2 DEF Detectors
  <2>2. CASE detector'.dir = Unset \/ detector'.dir = dir
    BY <1>0, <1>1, <1>2, <1>3, <1>6, <2>2 DEF Converts
  <2>3. CASE detector'.dir \in Precisions /\ detector'.dir /= dir
    <3>1. cache'[detector'.dir] = cache[detector.dir]
      BY <1>2, <1>3, <2>3
    <3>2. QED
      BY <1>0, <1>1, <1>2, <1>3, <1>6, <3>1 DEF Converts
  <2>4. QED
    BY <2>1, <2>2, <2>3
<1>8. Answers(detector', answer') /\ made' \in 0 .. MaxDetectors
  BY <1>0, <1>1 DEF Answers, DetectorsInv
<1>9. QED
  BY <1>2, <1>4, <1>5, <1>7, <1>8 DEF DetectorsInv

LEMMA WriteCacheMarkerInv == ASSUME DetectorsInv, WriteCacheMarker PROVE DetectorsInv'
<1> DEFINE dir == CacheDirectory
<1>0. /\ detector.st = "marker" /\ detector' = Prepared
      /\ cache' = [cache EXCEPT ![dir].marker = Wanted, ![dir].torn = FALSE] /\ UNCHANGED <<answer, made>>
  BY DEF WriteCacheMarker
<1>1. /\ Converts(detector, cache) /\ Whole(cache) /\ detector.config.backend = "openvino"
      /\ dir = DirectoryOf(detector) /\ dir \in Precisions /\ Wanted \in Contents
      /\ Wanted = [precision |-> detector.precision, size |-> detector.config.size]
  BY <1>0, PrepareFacts
<1>2. cache[dir].ir = Wanted
  BY <1>0, <1>1 DEF Converts
<1>3. Whole(cache') /\ cache'[dir].ir = Wanted
  <2> DEFINE h == [cache[dir] EXCEPT !.marker = Wanted, !.torn = FALSE]
  <2>1. cache \in [Precisions -> Caches] /\ cache[dir] \in Caches
    BY <1>1 DEF Whole
  <2>2. h \in Caches /\ h.ir = Wanted /\ h.marker = Wanted /\ h.ir = cache[dir].ir
    BY <1>1, <1>2, <2>1 DEF Caches
  <2>3. cache' = [cache EXCEPT ![dir] = h]
    BY <1>0
  <2> HIDE DEF h, dir
  <2>4. cache' \in [Precisions -> Caches] /\ cache'[dir] = h
    BY <1>1, <2>1, <2>2, <2>3
  <2>5. ASSUME NEW p \in Precisions
        PROVE  /\ ~cache'[p].torn => cache'[p].ir = cache'[p].marker
               /\ cache'[p].ir /= Unset => cache'[p].ir.precision = p
    <3>1. CASE p = dir
      BY <1>1, <2>2, <2>4, <3>1 DEF Whole
    <3>2. CASE p /= dir
      <4>1. cache'[p] = cache[p]
        BY <2>1, <2>3, <3>2
      <4>2. QED
        BY <1>1, <4>1 DEF Whole
    <3>3. QED
      BY <3>1, <3>2
  <2>6. QED
    BY <2>2, <2>4, <2>5 DEF Whole
<1>4. QED
  BY <1>0, <1>3, PreparedInv

LEMMA PrepareCacheInv == ASSUME DetectorsInv, PrepareCache PROVE DetectorsInv'
<1>1. CASE RefuseCache \/ ExportFails \/ MarkerFails
  BY <1>1, RaisedInv DEF RefuseCache, ExportFails, MarkerFails
<1>2. QED
  BY <1>1, ReuseCacheInv, ExportInv, WriteCacheMarkerInv DEF PrepareCache

-----------------------------------------------------------------------------
(* detect() and close().                                                   *)

\* A detector d2 that differs from d in what it is doing.
LEMMA OnlyMoves ==
    ASSUME NEW d \in Detectors, NEW d2 \in Detectors, NEW directories,
           Configured(d), Converts(d, directories), d.st \in {"idle", "predict"},
           d2.st \in {"idle", "predict"}, d2.config = d.config, d2.precision = d.precision,
           d2.dir = d.dir, d2.target = d.target,
           d2.used = d.used \/ d2.used = d.target,
           d2.model = d.model \/ d2.model = Unset
    PROVE  Configured(d2) /\ Converts(d2, directories)
<1>1. Configured(d2)
  BY DEF Configured
<1>2. Converts(d2, directories)
  BY DEF Converts, DirectoryOf
<1>3. QED
  BY <1>1, <1>2

LEMMA DetectFacts ==
    ASSUME DetectorsInv, detector.st \in {"idle", "predict"}
    PROVE  /\ detector \in Detectors /\ Configured(detector) /\ Converts(detector, cache)
           /\ detector.target \in Devices /\ detector.used \in Devices
           /\ detector.st = "predict" => answer = Unset
BY DEF DetectorsInv, Configured, Answers

LEMMA RefuseFrameInv == ASSUME DetectorsInv, RefuseFrame PROVE DetectorsInv'
<1>1. /\ detector' \in Detectors /\ Configured(detector') /\ Converts(detector', cache)
      /\ Answers(detector', answer')
  BY DEF DetectorsInv, RefuseFrame, Answers
<1>2. UNCHANGED <<cache, made>>
  BY DEF RefuseFrame
<1>3. QED
  BY <1>1, <1>2, DetectorStep

LEMMA DetectInv == ASSUME DetectorsInv, Detect PROVE DetectorsInv'
<1> DEFINE again == IF detector.config.backend = "openvino" THEN {} ELSE detector.tried
<1>0. /\ detector.st = "idle" /\ answer' = Unset /\ UNCHANGED <<cache, made>>
      /\ detector' = [detector EXCEPT !.st = "predict", !.resume = "idle", !.tried = again]
  BY DEF Detect
<1>1. detector \in Detectors /\ Configured(detector) /\ Converts(detector, cache)
  BY <1>0, DetectFacts
<1>2. again \in SUBSET {"device", "precision"}
  BY <1>1 DEF Detectors
<1> HIDE DEF again
<1>3. /\ detector' \in Detectors /\ detector'.st = "predict" /\ detector'.model = detector.model
      /\ detector'.config = detector.config /\ detector'.target = detector.target
      /\ detector'.used = detector.used /\ detector'.precision = detector.precision
      /\ detector'.dir = detector.dir
  BY <1>0, <1>1, <1>2 DEF Detectors
<1>4. Configured(detector') /\ Converts(detector', cache)
  BY <1>0, <1>1, <1>3, OnlyMoves
<1>5. Answers(detector', answer')
  BY <1>0 DEF Answers
<1>6. QED
  BY <1>0, <1>3, <1>4, <1>5, DetectorStep

LEMMA LoadedFacts ==
    ASSUME DetectorsInv, detector.st \in {"idle", "predict"}
    PROVE  /\ Loaded \in Contents \cup {Unset}
           /\ Loaded = detector.model \/ (detector.dir /= Unset /\ Loaded = cache[detector.dir].ir)
<1>1. detector.model \in Contents \cup {Unset} /\ detector.dir \in Precisions \cup {Unset}
  BY DEF DetectorsInv, Detectors
<1>2. \A p \in Precisions : cache[p].ir \in Contents \cup {Unset}
  BY DEF DetectorsInv, Whole, Caches
<1>3. QED
  BY <1>1, <1>2 DEF Loaded

LEMMA PredictOpenVINOInv ==
    ASSUME DetectorsInv, NEW ran \in SUBSET Devices, NEW readable \in BOOLEAN, PredictOpenVINO(ran, readable)
    PROVE  DetectorsInv'
<1>0. /\ detector.st = "predict" /\ Loaded # Unset /\ detector.target \in ran
      /\ answer' = Extracted(ran, readable) /\ UNCHANGED <<cache, made>>
      /\ detector' = [detector EXCEPT !.st = "idle", !.model = Loaded, !.used = detector.target, !.verified = TRUE]
  BY DEF PredictOpenVINO, Verified
<1>1. /\ detector \in Detectors /\ Configured(detector) /\ Converts(detector, cache)
      /\ detector.target \in Devices
  BY <1>0, DetectFacts
<1>2. /\ Loaded \in Contents \cup {Unset}
      /\ Loaded = detector.model \/ (detector.dir /= Unset /\ Loaded = cache[detector.dir].ir)
  BY <1>0, LoadedFacts
<1>3. /\ detector' \in Detectors /\ detector'.st = "idle" /\ detector'.model = Loaded
      /\ detector'.config = detector.config /\ detector'.target = detector.target
      /\ detector'.used = detector.target /\ detector'.precision = detector.precision
      /\ detector'.dir = detector.dir
  BY <1>0, <1>1, <1>2 DEF Detectors
<1>4. Configured(detector') /\ Converts(detector', cache)
  <2>1. \/ detector'.model = detector.model
        \/ detector.dir /= Unset /\ detector'.model = cache[detector.dir].ir
    BY <1>2, <1>3
  <2>2. CASE detector'.model = detector.model
    BY <1>0, <1>1, <1>3, <2>2, OnlyMoves
  <2>3. CASE detector.dir /= Unset /\ detector'.model = cache[detector.dir].ir
    <3>1. Configured(detector')
      BY <1>0, <1>1, <1>3 DEF Configured
    <3>2. Converts(detector', cache)
      BY <1>0, <1>1, <1>3, <2>3 DEF Converts, DirectoryOf
    <3>3. QED
      BY <3>1, <3>2
  <2>4. QED
    BY <2>1, <2>2, <2>3
<1>5. Answers(detector', answer')
  BY <1>0, <1>3 DEF Answers, Extracted
<1>6. QED
  BY <1>0, <1>3, <1>4, <1>5, DetectorStep

LEMMA PredictedByNameInv ==
    ASSUME DetectorsInv, NEW backend \in {"yoloe", "segmentation", "onnx"}, NEW readable \in BOOLEAN,
           PredictedByName(backend, readable)
    PROVE  DetectorsInv'
<1>0. /\ detector.st = "predict" /\ detector.config.backend = backend
      /\ answer' = Extracted({detector.used}, readable) /\ UNCHANGED <<cache, made>>
      /\ detector' = [detector EXCEPT !.st = "idle", !.verified = TRUE]
  BY DEF PredictedByName
<1>1. detector \in Detectors /\ Configured(detector) /\ Converts(detector, cache)
  BY <1>0, DetectFacts
<1>2. /\ detector' \in Detectors /\ detector'.st = "idle" /\ detector'.model = detector.model
      /\ detector'.config = detector.config /\ detector'.target = detector.target
      /\ detector'.used = detector.used /\ detector'.precision = detector.precision
      /\ detector'.dir = detector.dir
  BY <1>0, <1>1 DEF Detectors
<1>3. Configured(detector') /\ Converts(detector', cache)
  BY <1>0, <1>1, <1>2, OnlyMoves
<1>4. Answers(detector', answer')
  BY <1>0, <1>2 DEF Answers, Extracted
<1>5. QED
  BY <1>0, <1>2, <1>3, <1>4, DetectorStep

LEMMA FallbackToCpuInv == ASSUME DetectorsInv, FallbackToCpu PROVE DetectorsInv'
<1> DEFINE target == IF MayFallToCpu THEN "cpu" ELSE detector.target
           model  == IF MayFallToCpu THEN Unset ELSE detector.model
<1>0. /\ detector.st = "predict" /\ (MayFallToCpu \/ MayRetryOnCpu) /\ UNCHANGED <<cache, answer, made>>
      /\ detector' = [detector EXCEPT !.tried = detector.tried \cup {"device"}, !.used = "cpu",
                         !.target = target, !.model = model]
  BY DEF FallbackToCpu
<1>1. /\ detector \in Detectors /\ Configured(detector) /\ Converts(detector, cache)
      /\ detector.target \in Devices /\ answer = Unset
  BY <1>0, DetectFacts
<1>2. /\ target \in Devices /\ model \in Contents \cup {Unset} /\ (model = detector.model \/ model = Unset)
      /\ "cpu" \in Devices
  BY <1>1 DEF Devices, Detectors
<1>3. /\ detector.config.fallback \/ detector.config.device = "auto"
      /\ detector.config.backend = "openvino" => target = "cpu"
  BY <1>0 DEF MayFallToCpu, MayRetryOnCpu, FallbackToCpu
<1> HIDE DEF target, model
<1>4. /\ detector' \in Detectors /\ detector'.st = "predict" /\ detector'.model = model
      /\ detector'.config = detector.config /\ detector'.target = target
      /\ detector'.used = "cpu" /\ detector'.precision = detector.precision
      /\ detector'.dir = detector.dir
  BY <1>0, <1>1, <1>2 DEF Detectors
<1>5. Configured(detector')
  BY <1>0, <1>1, <1>2, <1>3, <1>4 DEF Configured
<1>6. Converts(detector', cache)
  BY <1>0, <1>1, <1>2, <1>4 DEF Converts, DirectoryOf
<1>7. Answers(detector', answer')
  BY <1>0, <1>1 DEF Answers
<1>8. QED
  BY <1>0, <1>4, <1>5, <1>6, <1>7, DetectorStep

LEMMA FallbackToFp32Inv == ASSUME DetectorsInv, FallbackToFp32 PROVE DetectorsInv'
<1>0. /\ detector.st = "predict" /\ detector.config.backend = "openvino" /\ UNCHANGED <<cache, answer, made>>
      /\ detector.target = "cpu" /\ detector.precision = "fp16" /\ detector.config.checkpoint
      /\ detector' = [detector EXCEPT !.tried = detector.tried \cup {"precision"}, !.precision = "fp32",
                         !.model = Unset, !.st = "prepare", !.resume = "predict"]
  BY DEF FallbackToFp32, MayFallToFp32
<1>1. detector \in Detectors /\ Configured(detector) /\ Converts(detector, cache) /\ answer = Unset
  BY <1>0, DetectFacts
<1>2. /\ detector' \in Detectors /\ detector'.st = "prepare" /\ detector'.model = Unset
      /\ detector'.config = detector.config /\ detector'.target = detector.target
      /\ detector'.used = detector.used /\ detector'.precision = "fp32"
      /\ detector'.dir = detector.dir
  BY <1>0, <1>1 DEF Detectors, Precisions
<1>3. Configured(detector')
  BY <1>0, <1>1, <1>2 DEF Configured, Precisions
<1>4. Converts(detector', cache)
  <2>1. Whole(cache) /\ detector.dir \in Precisions \cup {Unset} /\ DirectoryOf(detector') = "fp32"
    BY <1>0, <1>1, <1>2 DEF DetectorsInv, Detectors, DirectoryOf
  <2>2. detector.dir = "fp32" /\ cache[detector.dir].ir /= Unset => cache[detector.dir].ir.precision = "fp32"
    BY <2>1 DEF Whole, Precisions
  <2>3. QED
    BY <1>0, <1>1, <1>2, <2>1, <2>2 DEF Converts
<1>5. Answers(detector', answer')
  BY <1>0, <1>1 DEF Answers
<1>6. QED
  BY <1>0, <1>2, <1>3, <1>4, <1>5, DetectorStep

LEMMA PredictFailsInv == ASSUME DetectorsInv, PredictFails PROVE DetectorsInv'
<1>0. detector.st = "predict" /\ UNCHANGED <<cache, answer, made>>
  BY DEF PredictFails
<1>1. CASE detector.config.backend = "openvino"
  <2>1. detector' = Raised(detector)
    BY <1>1 DEF PredictFails
  <2>2. QED
    BY <1>0, <2>1, RaisedInv
<1>2. CASE detector.config.backend /= "openvino"
  <2>1. detector' = [detector EXCEPT !.st = "idle"]
    BY <1>2 DEF PredictFails
  <2>2. detector \in Detectors /\ Configured(detector) /\ Converts(detector, cache) /\ answer = Unset
    BY <1>0, DetectFacts
  <2>3. /\ detector' \in Detectors /\ detector'.st = "idle" /\ detector'.model = detector.model
        /\ detector'.config = detector.config /\ detector'.target = detector.target
        /\ detector'.used = detector.used /\ detector'.precision = detector.precision
        /\ detector'.dir = detector.dir
    BY <2>1, <2>2 DEF Detectors
  <2>4. Configured(detector') /\ Converts(detector', cache)
    BY <1>0, <2>2, <2>3, OnlyMoves
  <2>5. Answers(detector', answer')
    BY <1>0, <2>2 DEF Answers
  <2>6. QED
    BY <1>0, <2>3, <2>4, <2>5, DetectorStep
<1>3. QED
  BY <1>1, <1>2

LEMMA PredictInv == ASSUME DetectorsInv, Predict PROVE DetectorsInv'
<1>1. CASE \E ran \in (SUBSET Devices) \ {{}}, readable \in BOOLEAN : PredictOpenVINO(ran, readable)
  BY <1>1, PredictOpenVINOInv
<1>2. CASE \E readable \in BOOLEAN :
             PredictYoloE(readable) \/ PredictSegmentation(readable) \/ PredictOnnx(readable)
  BY <1>2, PredictedByNameInv DEF PredictYoloE, PredictSegmentation, PredictOnnx
<1>3. CASE ModelDoesNotLoad
  BY <1>3, RaisedInv DEF ModelDoesNotLoad
<1>4. QED
  BY <1>1, <1>2, <1>3, FallbackToCpuInv, FallbackToFp32Inv, PredictFailsInv DEF Predict

LEMMA ClosesInv ==
    ASSUME DetectorsInv, detector.st = "idle", NEW verified \in BOOLEAN,
           NEW model \in {detector.model, Unset}, Closes(model, verified)
    PROVE  DetectorsInv'
<1>0. /\ answer' = Unset /\ UNCHANGED <<cache, made>>
      /\ detector' = [detector EXCEPT !.model = model, !.verified = verified]
  BY DEF Closes
<1>1. detector \in Detectors /\ Configured(detector) /\ Converts(detector, cache)
  BY DetectFacts
<1>2. model \in Contents \cup {Unset}
  BY <1>1 DEF Detectors
<1>3. /\ detector' \in Detectors /\ detector'.st = "idle" /\ detector'.model = model
      /\ detector'.config = detector.config /\ detector'.target = detector.target
      /\ detector'.used = detector.used /\ detector'.precision = detector.precision
      /\ detector'.dir = detector.dir
  BY <1>0, <1>1, <1>2 DEF Detectors
<1>4. Configured(detector') /\ Converts(detector', cache)
  BY <1>1, <1>3, OnlyMoves
<1>5. Answers(detector', answer')
  BY <1>0 DEF Answers
<1>6. QED
  BY <1>0, <1>3, <1>4, <1>5, DetectorStep

LEMMA CloseDetectorInv ==
    ASSUME DetectorsInv, CloseOpenVINO \/ CloseSegmentation \/ CloseYoloE \/ CloseOnnx
    PROVE  DetectorsInv'
<1>1. detector.st = "idle" /\ detector.verified \in BOOLEAN
  BY DEF CloseOpenVINO, CloseSegmentation, CloseYoloE, CloseOnnx, DetectorsInv, Detectors
<1>2. \E model \in {detector.model, Unset}, verified \in BOOLEAN : Closes(model, verified)
  <2>1. CASE CloseOpenVINO \/ CloseSegmentation
    BY <2>1 DEF CloseOpenVINO, CloseSegmentation
  <2>2. CASE CloseYoloE
    BY <1>1, <2>2 DEF CloseYoloE
  <2>3. CASE CloseOnnx
    BY <1>1, <2>3 DEF CloseOnnx
  <2>4. QED
    BY <2>1, <2>2, <2>3
<1>3. QED
  BY <1>1, <1>2, ClosesInv

LEMMA DropDetectorInv == ASSUME DetectorsInv, DropDetector PROVE DetectorsInv'
<1>1. detector' = NoDetector /\ answer' = Unset /\ UNCHANGED <<cache, made>>
  BY DEF DropDetector
<1>2. /\ detector' \in Detectors /\ Configured(detector') /\ Converts(detector', cache)
      /\ Answers(detector', answer')
  BY <1>1, NoDetectorFacts
<1>3. QED
  BY <1>1, <1>2, DetectorStep

LEMMA DetectorsInitInv == DetectorsInit => DetectorsInv
<1> SUFFICES ASSUME DetectorsInit PROVE DetectorsInv
  OBVIOUS
<1>1. Whole(cache)
  BY DEF DetectorsInit, Whole, Caches
<1>2. detector = NoDetector /\ answer = Unset /\ made \in 0 .. MaxDetectors
  BY DetectorsAssumption DEF DetectorsInit
<1>3. QED
  BY <1>1, <1>2, NoDetectorFacts DEF DetectorsInv

LEMMA DetectorsNextInv == DetectorsInv /\ [DetectorsNext]_detectorVars => DetectorsInv'
<1> SUFFICES ASSUME DetectorsInv, [DetectorsNext]_detectorVars PROVE DetectorsInv'
  OBVIOUS
<1>1. CASE UNCHANGED detectorVars
  BY <1>1 DEF detectorVars, DetectorsInv
<1>2. CASE \E c \in DetectorConfigs, available \in (SUBSET Devices) \ {{}} : Create(c, available)
  BY <1>2, CreateInv
<1>3. QED
  BY <1>1, <1>2, LoadInv, PrepareCacheInv, RefuseFrameInv, DetectInv, PredictInv, CloseDetectorInv,
     DropDetectorInv DEF DetectorsNext

LEMMA DetectorsInvTyped == DetectorsInv => DetectorsTypeOK
BY DEF DetectorsInv, DetectorsTypeOK, Whole, Caches, Detectors

LEMMA DetectionsFollowConfig == DetectorsInv => DetectionsAreAsConfigured
<1> SUFFICES ASSUME DetectorsInv, answer # Unset
             PROVE  /\ detector.used \in answer.ran
                    /\ answer.config.backend # "onnx" /\ answer.config.device # "auto" /\ ~answer.config.fallback =>
                          detector.used = answer.config.device
                    /\ answer.config.backend = "openvino" =>
                          /\ \/ detector.precision = answer.config.precision
                             \/ detector.precision = "fp32" /\ detector.used = "cpu"
                          /\ ~cache[detector.dir].torn =>
                                /\ answer.model.size = answer.config.size
                                /\ detector.dir = CacheDirectory => answer.model.precision = detector.precision
  BY DEF DetectionsAreAsConfigured
<1>1. /\ detector.st = "idle" /\ answer.config = detector.config /\ detector.used \in answer.ran
      /\ detector.config.backend = "openvino" => detector.model /= Unset /\ answer.model = detector.model
  BY DEF DetectorsInv, Answers
<1>2. Configured(detector) /\ Converts(detector, cache) /\ CacheDirectory = DirectoryOf(detector)
  BY DEF DetectorsInv, CacheDirectory, DirectoryOf
<1>3. ASSUME answer.config.backend = "openvino"
      PROVE  /\ \/ detector.precision = answer.config.precision
                \/ detector.precision = "fp32" /\ detector.used = "cpu"
             /\ ~cache[detector.dir].torn =>
                   /\ answer.model.size = answer.config.size
                   /\ detector.dir = CacheDirectory => answer.model.precision = detector.precision
  <2>1. detector.precision = answer.config.precision \/ (detector.precision = "fp32" /\ detector.used = "cpu")
    BY <1>1, <1>2, <1>3 DEF Configured
  <2>2. detector.dir /= Unset /\ detector.model = cache[detector.dir].ir /\ detector.model /= Unset
    BY <1>1, <1>2, <1>3 DEF Converts
  <2>3. QED
    BY <1>1, <1>2, <1>3, <2>1, <2>2 DEF Converts
<1>4. QED
  BY <1>1, <1>2, <1>3 DEF Configured

-----------------------------------------------------------------------------
(* The face models.                                                        *)

ModelIds == Ids(Specs)

\* The records of _PROBE_CACHE, of which those that say so are of a probe that
\* has run and passed.
ProbeRecords == [key : ProbeKeys, passed : BOOLEAN]
Recorded(records, ran) ==
    /\ records \subseteq ProbeRecords /\ ran \subseteq ProbeKeys
    /\ \A p \in records : p.passed => p.key \in ran

\* A model m of the machine mc: of its own runtime and on its device.
Placed(mc, m) == /\ m.actual \in mc[m.backend] \cup {"cpu"}
                 /\ m.actual = m.device \/ m.device = "auto" \/ <<m.device, m.actual>> = <<"cuda", "cpu">>
Fitting(mc, id, d) == d \in SpecOf(id).devices /\ (d = "auto" \/ d \in mc[SpecOf(id).backend])
SoundModel(mc, m) ==
    /\ m \in Models /\ m.backend = SpecOf(m.id).backend
    /\ Fitting(mc, m.id, m.device)
    /\ Placed(mc, m) /\ m.asked \in {m.id, NoModel}

\* Its probe, if it may fail, has run and passed.
Passed(ran, m) ==
    m.id \in Flaky => \E key \in ran : <<key.id, key.file.model, key.device>> = <<m.id, m.model, m.device>>

Lands(d, l) == l /= NoModel \/ (d.asked /= NoModel /\ SpecOf(d.asked).landmarks)

Usable(mc, ran, m) == m /= NoModel => SoundModel(mc, m) /\ Passed(ran, m)

\* The rows of a model that is validated are of devices that it may be on, and
\* a row that is there is one of a probe that has passed.
Validating(mc, ran, c) ==
    c /= NoModel =>
      /\ c \in Candidates /\ c.asked \in {c.id, NoModel}
      /\ \A d \in c.todo \cup c.rows : Fitting(mc, c.id, d)
      /\ c.id \in Flaky => \A d \in c.rows : Key(c.id, c.file, d) \in ran
      /\ c.id \notin Flaky => c.todo = {}

\* The creator probes what it is to probe.
Running(r, c) ==
    /\ r \in [Threads -> ProbeKeys \cup {NoModel}]
    /\ r["creator"] /= NoModel => /\ c /= NoModel /\ r["creator"].device \in c.todo
                                 /\ r["creator"] = Key(c.id, c.file, r["creator"].device)

\* What is validated at stage s may be used where it is to be.
Suits(s, c, d, l) ==
    c /= NoModel => /\ s \in {"detector", "landmarker", "recognizer"}
                    /\ s = "recognizer" => Lands(d, l) /\ (c.backend = "onnxruntime" => c.id = c.file.model)

Recognizes(s, d, l, r) ==
    r /= NoModel => /\ s \in {"ready", "closed"} /\ Lands(d, l)
                    /\ r.backend = "onnxruntime" => r.id = r.model

Sees(s, x, threshold) ==
    /\ x.result /= "none" => s \in {"ready", "closed"} /\ x.landmarks /\ x.accepted
    /\ x.result = "known" => threshold

FacesInv ==
    /\ machine \in Machines /\ stage \in {"detector", "landmarker", "recognizer", "ready", "closed"}
    /\ opened \subseteq {"detector", "landmarker", "recognizer"} /\ faces \in 0 .. MaxFaces
    /\ Recorded(probes, passes) /\ Validating(machine, passes, creating) /\ Running(running, creating)
    /\ Suits(stage, creating, faceDetector, landmarker)
    /\ Usable(machine, passes, faceDetector) /\ Usable(machine, passes, landmarker)
    /\ Usable(machine, passes, recognizer)
    /\ stage /= "detector" => faceDetector /= NoModel
    /\ Recognizes(stage, faceDetector, landmarker, recognizer)
    /\ Sees(stage, seen, named)

-----------------------------------------------------------------------------
(* The registry.                                                           *)

LEMMA IdsAreUnique == \A s, t \in Specs : s.id = t.id => s = t
<1> DEFINE A == ModelSpec("scrfd", "onnxruntime", OnnxDevices, TRUE, AnyContract)
           B == ModelSpec("0205", "openvino", OpenVINODevices, FALSE, AnyContract)
           C == ModelSpec("yunet", "opencv_dnn", YuNetDevices, TRUE, AnyContract)
           D == ModelSpec("0095", "openvino", OpenVINODevices, TRUE, <<128, 256>>)
           E == ModelSpec("facenet", "onnxruntime", OnnxDevices, TRUE, <<160, 512>>)
           F == ModelSpec("arcface", "onnxruntime", OnnxDevices, TRUE, <<112, 512>>)
<1>1. Specs = {A, B, C, D, E, F, LandmarkerSpec}
  BY DEF Specs, DetectorSpecs, RecognizerSpecs
<1>2. /\ A.id = "scrfd" /\ B.id = "0205" /\ C.id = "yunet" /\ D.id = "0095" /\ E.id = "facenet"
      /\ F.id = "arcface" /\ LandmarkerSpec.id = "0009"
  BY DEF LandmarkerSpec, ModelSpec
<1> HIDE DEF A, B, C, D, E, F
<1>3. QED
  BY <1>1, <1>2

LEMMA SpecFacts ==
    /\ \A s \in Specs : SpecOf(s.id) = s
    /\ \A i \in ModelIds : SpecOf(i) \in Specs /\ SpecOf(i).id = i
<1>1. ASSUME NEW s \in Specs PROVE SpecOf(s.id) = s
  BY IdsAreUnique DEF SpecOf
<1>2. \A i \in ModelIds : \E s \in Specs : i = s.id
  BY DEF ModelIds, Ids
<1>3. QED
  BY <1>1, <1>2

LEMMA Registered ==
    /\ \A s \in DetectorSpecs \cup RecognizerSpecs : s \in Specs
    /\ LandmarkerSpec \in Specs
    /\ \A i \in Ids(DetectorSpecs) \cup Ids(RecognizerSpecs) : i \in ModelIds
    /\ LandmarkerSpec.id = "0009" /\ "0009" \in ModelIds
<1>1. /\ \A s \in DetectorSpecs \cup RecognizerSpecs : s \in Specs
      /\ LandmarkerSpec \in Specs
  BY DEF Specs
<1>2. LandmarkerSpec.id = "0009"
  BY DEF LandmarkerSpec, ModelSpec
<1>3. \A s \in Specs : s.id \in ModelIds
  BY DEF Ids, ModelIds
<1>4. \A i \in Ids(DetectorSpecs) \cup Ids(RecognizerSpecs) : i \in ModelIds
  BY <1>1, <1>3 DEF Ids
<1>5. QED
  BY <1>1, <1>2, <1>3, <1>4

LEMMA SpecTable ==
    ASSUME NEW i \in ModelIds
    PROVE  /\ i \in {"scrfd", "0205", "yunet", "0009", "0095", "facenet", "arcface"}
           /\ i \in {"scrfd", "facenet", "arcface"} =>
                SpecOf(i).backend = "onnxruntime" /\ SpecOf(i).devices = OnnxDevices
           /\ i \in {"0205", "0009", "0095"} =>
                SpecOf(i).backend = "openvino" /\ SpecOf(i).devices = OpenVINODevices
           /\ i = "yunet" => SpecOf(i).backend = "opencv_dnn" /\ SpecOf(i).devices = YuNetDevices
<1>1. SpecOf(i) \in Specs /\ SpecOf(i).id = i
  BY SpecFacts
<1>2. QED
  BY <1>1 DEF Specs, DetectorSpecs, RecognizerSpecs, LandmarkerSpec, ModelSpec

LEMMA MachineFacts ==
    ASSUME NEW mc \in Machines
    PROVE  \A b \in Runtimes : mc[b] \subseteq FaceDevices /\ "auto" \notin mc[b]
BY FaceAssumption

\* A session runs on a device that its runtime has, and where it was told to.
LEMMA LoadIsPlaced ==
    ASSUME machine \in Machines, NEW i \in ModelIds, NEW d \in SpecOf(i).devices,
           d = "auto" \/ d \in machine[SpecOf(i).backend], NEW a \in Load(i, d)
    PROVE  /\ a \in FaceDevices /\ a \in machine[SpecOf(i).backend] \cup {"cpu"}
           /\ a = d \/ d = "auto" \/ (d = "cuda" /\ a = "cpu")
<1>0. /\ machine["onnxruntime"] \subseteq FaceDevices /\ machine["openvino"] \subseteq FaceDevices
      /\ "cpu" \in FaceDevices /\ "cuda" \in FaceDevices
  BY MachineFacts DEF Runtimes, FaceDevices
<1>1. CASE i \in {"scrfd", "facenet", "arcface"}
  <2>1. SpecOf(i).backend = "onnxruntime" /\ d \in OnnxDevices
    BY <1>1, SpecTable
  <2>2. PICK p \in Provider(d) : a \in {p, "cpu"}
    BY <1>1 DEF Load, LoadScrfd, LoadOnnxEmbedder, ActualProvider
  <2>3. p \in machine["onnxruntime"] /\ (d = "auto" \/ p = d)
    BY <2>2 DEF Provider
  <2>4. QED
    BY <1>0, <2>1, <2>2, <2>3 DEF OnnxDevices
<1>2. CASE i \in {"0205", "0009", "0095"}
  <2>1. SpecOf(i).backend = "openvino" /\ d \in OpenVINODevices
    BY <1>2, SpecTable
  <2>2. a \in CompileModel(d)
    BY <1>2 DEF Load, Load0205, LoadRegressor, LoadOpenVINOEmbedder
  <2>3. QED
    BY <1>0, <2>1, <2>2 DEF CompileModel
<1>3. CASE i = "yunet"
  <2>1. a = "cpu"
    BY <1>3 DEF Load, LoadYuNet
  <2>2. d \in {"auto", "cpu"}
    BY <1>3, SpecTable DEF YuNetDevices
  <2>3. QED
    BY <1>0, <2>1, <2>2
<1>4. QED
  BY <1>1, <1>2, <1>3, SpecTable

-----------------------------------------------------------------------------
(* Probes.                                                                 *)

LEMMA OfferedFacts ==
    ASSUME NEW i \in ModelIds, NEW file, NEW d \in OfferedDevices(i, file)
    PROVE  d \in FaceDevices /\ Fitting(machine, i, d)
<1>1. d \in SpecOf(i).devices /\ Offers(SpecOf(i).backend, d)
  BY DEF OfferedDevices
<1>2. SpecOf(i).devices \subseteq FaceDevices
  BY SpecTable DEF OnnxDevices, OpenVINODevices, YuNetDevices, FaceDevices
<1>3. QED
  BY <1>1, <1>2 DEF Fitting, Offers

LEMMA KeyFacts ==
    ASSUME NEW i \in Flaky, NEW file \in ModelFiles, NEW d \in FaceDevices
    PROVE  /\ Key(i, file, d) \in ProbeKeys /\ Key(i, file, d) /= NoModel
           /\ Key(i, file, d).id = i /\ Key(i, file, d).file = file /\ Key(i, file, d).device = d
BY ModelsAssumption DEF Key, ProbeKeys

\* Another passed probe changes nothing of what was known.
LEMMA PassedStays ==
    ASSUME NEW mc, NEW ran, NEW more, ran \subseteq more
    PROVE  /\ \A m : Usable(mc, ran, m) => Usable(mc, more, m)
           /\ \A c : Validating(mc, ran, c) => Validating(mc, more, c)
<1>1. \A m : Usable(mc, ran, m) => Usable(mc, more, m)
  BY DEF Usable, Passed
<1>2. \A c : Validating(mc, ran, c) => Validating(mc, more, c)
  BY DEF Validating
<1>3. QED
  BY <1>1, <1>2

\* A step that leaves the models alone.
LEMMA OnlyProbes ==
    ASSUME FacesInv, UNCHANGED <<machine, stage, loadedVars, named, seen, faces>>,
           Recorded(probes', passes'), passes \subseteq passes',
           Validating(machine, passes', creating'), Running(running', creating'),
           Suits(stage, creating', faceDetector, landmarker)
    PROVE  FacesInv'
<1>1. UNCHANGED <<machine, stage, faceDetector, landmarker, recognizer, opened, named, seen, faces>>
  BY DEF loadedVars
<1>2. /\ Usable(machine, passes', faceDetector) /\ Usable(machine, passes', landmarker)
      /\ Usable(machine, passes', recognizer)
  BY PassedStays DEF FacesInv
<1>3. /\ Usable(machine', passes', faceDetector') /\ Usable(machine', passes', landmarker')
      /\ Usable(machine', passes', recognizer')
  BY <1>1, <1>2
<1>4. /\ Validating(machine', passes', creating') /\ Suits(stage', creating', faceDetector', landmarker')
      /\ Recognizes(stage', faceDetector', landmarker', recognizer') /\ Sees(stage', seen', named')
  BY <1>1 DEF FacesInv
<1>5. QED
  BY <1>1, <1>3, <1>4 DEF FacesInv

\* A resolved model is to be validated.
LEMMA ValidatesInv ==
    ASSUME FacesInv, creating = NoModel, stage \in {"detector", "landmarker", "recognizer"},
           NEW resolved, NEW sel, NEW asked \in ModelIds \cup {NoModel},
           sel.file \in ModelFiles, sel.device \in FaceDevices,
           \A res \in resolved : /\ res.id \in ModelIds /\ res.backend \in Runtimes /\ asked \in {res.id, NoModel}
                                 /\ stage = "recognizer" /\ res.backend = "onnxruntime" => res.id = sel.file.model,
           stage = "recognizer" => HasLandmarks,
           Validates(resolved, sel, asked)
    PROVE  FacesInv'
<1>1. PICK res \in resolved : \E device \in Normalized(sel.device, res.backend) :
        creating' = [id |-> res.id, backend |-> res.backend, device |-> device, file |-> sel.file,
                     asked |-> asked,
                     todo |-> IF res.id \in Flaky THEN OfferedDevices(res.id, sel.file) ELSE {},
                     rows |-> IF res.id \in Flaky THEN {}
                              ELSE {d \in OfferedDevices(res.id, sel.file) : TRUE \in Verdicts(res.id, sel.file, d)}]
  BY DEF Validates
<1>2. PICK device \in Normalized(sel.device, res.backend) :
        creating' = [id |-> res.id, backend |-> res.backend, device |-> device, file |-> sel.file,
                     asked |-> asked,
                     todo |-> IF res.id \in Flaky THEN OfferedDevices(res.id, sel.file) ELSE {},
                     rows |-> IF res.id \in Flaky THEN {}
                              ELSE {d \in OfferedDevices(res.id, sel.file) : TRUE \in Verdicts(res.id, sel.file, d)}]
  BY <1>1
<1>3. res.id \in ModelIds /\ res.backend \in Runtimes /\ device \in FaceDevices
  BY DEF Normalized, FaceDevices
<1>4. \A d \in OfferedDevices(res.id, sel.file) : d \in FaceDevices /\ Fitting(machine, res.id, d)
  BY <1>3, OfferedFacts
<1> DEFINE todo == IF res.id \in Flaky THEN OfferedDevices(res.id, sel.file) ELSE {}
           rows == IF res.id \in Flaky THEN {}
                   ELSE {d \in OfferedDevices(res.id, sel.file) : TRUE \in Verdicts(res.id, sel.file, d)}
<1>5. /\ todo \subseteq OfferedDevices(res.id, sel.file) /\ rows \subseteq OfferedDevices(res.id, sel.file)
      /\ res.id \in Flaky => rows = {}
      /\ res.id \notin Flaky => todo = {}
  OBVIOUS
<1>6. creating' = [id |-> res.id, backend |-> res.backend, device |-> device, file |-> sel.file,
                   asked |-> asked, todo |-> todo, rows |-> rows]
  BY <1>2
<1> HIDE DEF todo, rows
<1>7. /\ creating' \in Candidates /\ creating'.id = res.id /\ creating'.asked = asked
      /\ creating'.todo = todo /\ creating'.rows = rows /\ creating'.backend = res.backend
      /\ creating'.file = sel.file
  BY <1>3, <1>4, <1>5, <1>6 DEF Candidates, ModelIds
<1>8. Validating(machine, passes', creating')
  BY <1>4, <1>5, <1>7 DEF Validating
<1>9. UNCHANGED <<machine, stage, loadedVars, running, probes, passes, named, seen, faces>>
  BY DEF Validates
<1>10. Running(running', creating')
  BY <1>9 DEF FacesInv, Running
<1>11. Suits(stage, creating', faceDetector, landmarker)
  BY <1>7 DEF Suits, HasLandmarks, Lands
<1>12. QED
  BY <1>8, <1>9, <1>10, <1>11, OnlyProbes DEF FacesInv

\* The creator has its row for device d, of a probe that passed if it says so.
LEMMA ProbedFacts ==
    ASSUME FacesInv, creating /= NoModel, NEW d \in creating.todo, NEW passed \in BOOLEAN,
           NEW ran, passes \subseteq ran, passed => Key(creating.id, creating.file, d) \in ran
    PROVE  /\ Validating(machine, ran, Probed(d, passed)) /\ Probed(d, passed) /= NoModel
           /\ Suits(stage, Probed(d, passed), faceDetector, landmarker)
<1> DEFINE c == Probed(d, passed)
<1>1. /\ creating \in Candidates /\ creating.asked \in {creating.id, NoModel}
      /\ \A e \in creating.todo \cup creating.rows : Fitting(machine, creating.id, e)
      /\ creating.id \in Flaky => \A e \in creating.rows : Key(creating.id, creating.file, e) \in passes
      /\ creating.id \notin Flaky => creating.todo = {}
  BY DEF FacesInv, Validating
<1>2. creating.todo \subseteq FaceDevices /\ creating.rows \subseteq FaceDevices
  BY <1>1 DEF Candidates
<1>3. c = [creating EXCEPT !.todo = creating.todo \ {d},
                           !.rows = IF passed THEN creating.rows \cup {d} ELSE creating.rows]
  BY DEF Probed
<1>4. /\ c \in Candidates /\ c.id = creating.id /\ c.asked = creating.asked /\ c.file = creating.file
      /\ c.backend = creating.backend /\ c.todo = creating.todo \ {d}
      /\ c.rows = IF passed THEN creating.rows \cup {d} ELSE creating.rows
  <2> DEFINE todo == creating.todo \ {d}
             rows == IF passed THEN creating.rows \cup {d} ELSE creating.rows
  <2>1. todo \in SUBSET FaceDevices /\ rows \in SUBSET FaceDevices
    BY <1>2
  <2>2. c = [creating EXCEPT !.todo = todo, !.rows = rows]
    BY <1>3
  <2> HIDE DEF c, todo, rows
  <2>3. /\ c \in Candidates /\ c.id = creating.id /\ c.asked = creating.asked /\ c.file = creating.file
        /\ c.backend = creating.backend /\ c.todo = todo /\ c.rows = rows
    BY <1>1, <2>1, <2>2 DEF Candidates
  <2>4. QED
    BY <2>3 DEF todo, rows
<1> HIDE DEF c
<1>5. \A e \in c.rows : e \in creating.rows \/ (passed /\ e = d)
  BY <1>4
<1>6. \A e \in c.todo \cup c.rows : Fitting(machine, c.id, e)
  BY <1>1, <1>4, <1>5
<1>7. c.id \in Flaky => \A e \in c.rows : Key(c.id, c.file, e) \in ran
  BY <1>1, <1>4, <1>5
<1>8. Validating(machine, ran, c)
  BY <1>1, <1>4, <1>6, <1>7 DEF Validating
<1>9. c /= NoModel
  BY <1>4, ModelsAssumption
<1>10. Suits(stage, c, faceDetector, landmarker)
  BY <1>4 DEF FacesInv, Suits
<1> USE DEF c
<1>11. QED
  BY <1>8, <1>9, <1>10

LEMMA LookUpInv == ASSUME FacesInv, NEW d, LookUp(d) PROVE FacesInv'
<1> DEFINE key == Key(creating.id, creating.file, d)
<1>1. /\ creating /= NoModel /\ running["creator"] = NoModel /\ d \in creating.todo
      /\ IF Cached(key) = {}
           THEN running' = [running EXCEPT !["creator"] = key] /\ UNCHANGED creating
           ELSE creating' \in {Probed(d, v) : v \in Cached(key)} /\ UNCHANGED running
      /\ UNCHANGED <<machine, stage, loadedVars, probes, passes, named, seen, faces>>
  BY DEF LookUp
<1>2. /\ creating.id \in Flaky /\ creating.file \in ModelFiles /\ d \in FaceDevices
      /\ Validating(machine, passes, creating) /\ Running(running, creating) /\ Recorded(probes, passes)
  BY <1>1 DEF FacesInv, Validating, Candidates
<1>3. key \in ProbeKeys /\ key /= NoModel /\ key.device = d
  BY <1>2, KeyFacts
<1>4. CASE Cached(key) = {}
  <2>1. running' = [running EXCEPT !["creator"] = key] /\ UNCHANGED creating
    BY <1>1, <1>4
  <2>2. running' \in [Threads -> ProbeKeys \cup {NoModel}] /\ running'["creator"] = key
    BY <1>2, <1>3, <2>1 DEF Running, Threads
  <2>3. Running(running', creating')
    <3> HIDE DEF key
    <3>1. key = Key(creating.id, creating.file, key.device)
      BY <1>3 DEF key
    <3>2. QED
      BY <1>1, <1>3, <2>1, <2>2, <3>1 DEF Running
  <2>4. QED
    BY <1>1, <1>2, <2>1, <2>3, OnlyProbes DEF FacesInv
<1>5. CASE Cached(key) /= {}
  <2>1. PICK v \in Cached(key) : creating' = Probed(d, v)
    BY <1>1, <1>5
  <2>2. PICK p \in probes : p.key = key /\ v = p.passed
    BY <2>1 DEF Cached
  <2>3. v \in BOOLEAN /\ (v => key \in passes)
    BY <1>2, <2>2 DEF Recorded, ProbeRecords
  <2>4. /\ Validating(machine, passes, creating') /\ creating' /= NoModel
        /\ Suits(stage, creating', faceDetector, landmarker)
    BY <1>1, <2>1, <2>3, ProbedFacts
  <2>5. Running(running', creating')
    BY <1>1, <1>2, <1>5 DEF Running
  <2>6. QED
    BY <1>1, <1>2, <2>4, <2>5, OnlyProbes
<1>6. QED
  BY <1>4, <1>5

LEMMA RefreshCapabilitiesInv ==
    ASSUME FacesInv, NEW key \in Refreshed, RefreshCapabilities(key)
    PROVE  FacesInv'
<1>1. /\ running' = [running EXCEPT !["other"] = key]
      /\ UNCHANGED <<machine, stage, loadedVars, creating, probes, passes, named, seen, faces>>
  BY DEF RefreshCapabilities
<1>2. PICK i \in Flaky, d \in FaceDevices : key = Key(i, FileOf(SpecOf(i)), d)
  BY DEF Refreshed
<1>3. i \in ModelIds /\ SpecOf(i) \in Specs /\ SpecOf(i).id = i
  BY ModelsAssumption, SpecFacts DEF ModelIds
<1>4. FileOf(SpecOf(i)) \in ModelFiles
  BY <1>3 DEF FileOf, FormatOf, ModelFiles, ModelIds
<1>5. key \in ProbeKeys
  BY <1>2, <1>4, KeyFacts
<1>6. /\ running' \in [Threads -> ProbeKeys \cup {NoModel}] /\ running'["creator"] = running["creator"]
  BY <1>1, <1>5 DEF FacesInv, Running, Threads
<1>7. Running(running', creating')
  BY <1>1, <1>6 DEF FacesInv, Running
<1>8. QED
  BY <1>1, <1>7, OnlyProbes DEF FacesInv

LEMMA ProbeEndsInv ==
    ASSUME FacesInv, NEW t \in Threads, NEW passed \in BOOLEAN, ProbeEnds(t, passed)
    PROVE  FacesInv'
<1> DEFINE key == running[t]
           ran == IF passed THEN passes \cup {key} ELSE passes
<1>1. /\ key /= NoModel /\ running' = [running EXCEPT ![t] = NoModel]
      /\ probes' = Record(key, passed) /\ passes' = ran
      /\ creating' = IF t = "creator" THEN Probed(key.device, passed) ELSE creating
      /\ UNCHANGED <<machine, stage, loadedVars, named, seen, faces>>
  BY DEF ProbeEnds
<1>2. /\ Running(running, creating) /\ Recorded(probes, passes) /\ Validating(machine, passes, creating)
      /\ Suits(stage, creating, faceDetector, landmarker)
  BY DEF FacesInv
<1>3. key \in ProbeKeys
  BY <1>1, <1>2 DEF Running
<1>4. passes \subseteq ran /\ ran \subseteq ProbeKeys /\ (passed => key \in ran)
  BY <1>2, <1>3 DEF Recorded
<1> HIDE DEF ran
<1>5. Recorded(probes', passes')
  <2>1. \A p \in probes' : p \in probes \/ p = [key |-> key, passed |-> passed]
    BY <1>1 DEF Record
  <2>2. \A p \in probes' : p \in ProbeRecords /\ (p.passed => p.key \in ran)
    BY <1>2, <1>3, <1>4, <2>1 DEF Recorded, ProbeRecords
  <2>3. QED
    BY <1>1, <1>4, <2>2 DEF Recorded
<1>6. running' \in [Threads -> ProbeKeys \cup {NoModel}] /\ running'[t] = NoModel
  BY <1>1, <1>2 DEF Running
<1>7. CASE t = "creator"
  <2>1. creating /= NoModel /\ key.device \in creating.todo /\ key = Key(creating.id, creating.file, key.device)
    BY <1>1, <1>2, <1>7 DEF Running
  <2> HIDE DEF key
  <2>2. /\ Validating(machine, ran, creating') /\ Suits(stage, creating', faceDetector, landmarker)
    BY <1>1, <1>4, <1>7, <2>1, ProbedFacts
  <2>3. Running(running', creating')
    BY <1>6, <1>7 DEF Running
  <2>4. QED
    BY <1>1, <1>4, <1>5, <2>2, <2>3, OnlyProbes
<1>8. CASE t /= "creator"
  <2>1. running'["creator"] = running["creator"] /\ UNCHANGED creating
    BY <1>1, <1>2, <1>8 DEF Running, Threads
  <2>2. Running(running', creating')
    BY <1>2, <1>6, <2>1 DEF Running
  <2>3. Validating(machine, ran, creating') /\ Suits(stage, creating', faceDetector, landmarker)
    BY <1>2, <1>4, <2>1, PassedStays
  <2>4. QED
    BY <1>1, <1>4, <1>5, <2>2, <2>3, OnlyProbes
<1>9. QED
  BY <1>7, <1>8

-----------------------------------------------------------------------------
(* Loading.                                                                *)

\* What a validated model comes to: one of its id and file, on its device.
LEMMA CreatedFacts ==
    ASSUME FacesInv, Judged, NEW m \in Created
    PROVE  /\ Usable(machine, passes, m)
           /\ m /= NoModel => /\ m.id = creating.id /\ m.backend = creating.backend
                              /\ m.model = creating.file.model
<1> SUFFICES ASSUME m /= NoModel
             PROVE  /\ SoundModel(machine, m) /\ Passed(passes, m)
                    /\ m.id = creating.id /\ m.backend = creating.backend /\ m.model = creating.file.model
  BY DEF Usable
<1>1. Valid
  BY DEF Created
<1>2. PICK a \in Load(creating.id, creating.device) :
        m = [id |-> creating.id, backend |-> creating.backend, device |-> creating.device, actual |-> a,
             model |-> creating.file.model, asked |-> creating.asked]
  BY <1>1 DEF Created
<1>3. /\ creating /= NoModel /\ creating \in Candidates /\ creating.asked \in {creating.id, NoModel}
      /\ \A d \in creating.rows : Fitting(machine, creating.id, d)
      /\ creating.id \in Flaky => \A d \in creating.rows : Key(creating.id, creating.file, d) \in passes
  BY DEF Judged, FacesInv, Validating
<1>4. /\ creating.id \in ModelIds /\ creating.backend \in Runtimes /\ creating.file \in ModelFiles
      /\ creating.device \in FaceDevices /\ creating.asked \in ModelIds \cup {NoModel}
      /\ creating.file.model \in ModelIds \cup {NoModel}
  BY <1>3 DEF Candidates, ModelFiles, ModelIds
<1>5. /\ SpecOf(creating.id).backend = creating.backend /\ creating.device \in creating.rows
      /\ Fitting(machine, creating.id, creating.device) /\ machine \in Machines
  BY <1>1, <1>3 DEF Valid, FacesInv
<1>6. /\ a \in FaceDevices /\ a \in machine[creating.backend] \cup {"cpu"}
      /\ a = creating.device \/ creating.device = "auto" \/ (creating.device = "cuda" /\ a = "cpu")
  BY <1>4, <1>5, LoadIsPlaced DEF Fitting
<1>7. /\ m.id = creating.id /\ m.backend = creating.backend /\ m.device = creating.device
      /\ m.actual = a /\ m.model = creating.file.model /\ m.asked = creating.asked
  BY <1>2
<1>8. m \in Models
  BY <1>2, <1>4, <1>6 DEF Models, ModelIds
<1>9. Placed(machine, m)
  BY <1>6, <1>7 DEF Placed
<1>10. SoundModel(machine, m)
  BY <1>3, <1>5, <1>7, <1>8, <1>9 DEF SoundModel
<1>11. ASSUME m.id \in Flaky
       PROVE  \E key \in passes : <<key.id, key.file.model, key.device>> = <<m.id, m.model, m.device>>
  <2> DEFINE key == Key(creating.id, creating.file, creating.device)
  <2>1. key \in passes /\ key.id = creating.id /\ key.file = creating.file /\ key.device = creating.device
    BY <1>3, <1>4, <1>5, <1>7, <1>11, KeyFacts
  <2> HIDE DEF key
  <2>2. <<key.id, key.file.model, key.device>> = <<m.id, m.model, m.device>>
    BY <1>7, <2>1
  <2>3. QED
    BY <2>1, <2>2
<1>12. QED
  BY <1>7, <1>10, <1>11 DEF Passed

-----------------------------------------------------------------------------
(* Resolution.                                                             *)

LEMMA NamedFiles ==
    ASSUME NEW specs, specs \subseteq Specs, NEW file \in FilesOf(specs)
    PROVE  file \in ModelFiles /\ file.name \in Ids(specs) \cup {NoModel} /\ file.model \in Ids(specs) \cup {NoModel}
<1>1. \A s \in specs : s.id \in Ids(specs) /\ s.id \in Ids(Specs)
  BY DEF Ids
<1>2. \A s \in specs : FileOf(s) \in ModelFiles /\ FileOf(s).name = s.id /\ FileOf(s).model = s.id
  BY <1>1 DEF FileOf, FormatOf, ModelFiles
<1>3. CASE \E s \in specs : file = FileOf(s)
  BY <1>1, <1>2, <1>3
<1>4. CASE file \in [format : {"onnx", "xml"}, name : {NoModel}, model : {NoModel}, there : BOOLEAN]
  BY <1>4 DEF ModelFiles
<1>5. QED
  BY <1>3, <1>4 DEF FilesOf

LEMMA SelectedDetector ==
    ASSUME NEW sel \in DetectorSelections
    PROVE  /\ sel.file \in ModelFiles /\ sel.file.name \in Ids(DetectorSpecs) \cup {NoModel}
           /\ sel.id \in Ids(DetectorSpecs) \cup {NoModel} /\ sel.device \in FaceDevices
           /\ sel.backend \in Runtimes \cup {"auto"}
<1>1. /\ sel.file \in DetectorFiles /\ sel.id \in Ids(DetectorSpecs) \cup {NoModel} /\ sel.device \in FaceDevices
      /\ sel.backend \in Runtimes \cup {"auto"}
  BY FaceAssumption DEF DetectorSelections, Selections
<1>2. {"scrfd", "0205", "yunet"} \subseteq Ids(DetectorSpecs)
  <2> DEFINE A == ModelSpec("scrfd", "onnxruntime", OnnxDevices, TRUE, AnyContract)
             B == ModelSpec("0205", "openvino", OpenVINODevices, FALSE, AnyContract)
             C == ModelSpec("yunet", "opencv_dnn", YuNetDevices, TRUE, AnyContract)
  <2>1. DetectorSpecs = {A, B, C}
    BY DEF DetectorSpecs
  <2>2. A.id = "scrfd" /\ B.id = "0205" /\ C.id = "yunet"
    BY DEF ModelSpec
  <2> HIDE DEF A, B, C
  <2>3. QED
    BY <2>1, <2>2 DEF Ids
<1>3. \A i \in {"scrfd", "0205", "yunet"} : i \in ModelIds /\ SpecOf(i) \in Specs
  BY <1>2, Registered, SpecFacts
<1>4. \A i \in {"scrfd", "0205", "yunet"}, n \in {"scrfd", "yunet", NoModel} :
         LET file == [FileOf(SpecOf(i)) EXCEPT !.name = n] IN
         file \in ModelFiles /\ file.name = n
  <2>1. ASSUME NEW i \in {"scrfd", "0205", "yunet"}
        PROVE  FileOf(SpecOf(i)) \in ModelFiles
    BY <1>3, SpecFacts DEF FileOf, FormatOf, ModelFiles, ModelIds
  <2>2. QED
    BY <1>3, <2>1 DEF ModelFiles, ModelIds
<1>5. CASE sel.file \in FilesOf(DetectorSpecs)
  BY <1>1, <1>5, NamedFiles DEF Specs
<1>6. CASE sel.file \notin FilesOf(DetectorSpecs)
  <2>1. PICK i \in {"scrfd", "0205", "yunet"}, n \in {"scrfd", "yunet", NoModel} :
           sel.file = [FileOf(SpecOf(i)) EXCEPT !.name = n]
    BY <1>1, <1>6 DEF DetectorFiles
  <2>2. sel.file \in ModelFiles /\ sel.file.name = n
    BY <1>4, <2>1
  <2>3. QED
    BY <1>1, <1>2, <2>2
<1>7. QED
  BY <1>1, <1>5, <1>6

LEMMA SelectedRecognizer ==
    ASSUME NEW sel \in RecognizerSelections
    PROVE  /\ sel.file \in ModelFiles /\ sel.file.model \in Ids(RecognizerSpecs) \cup {NoModel}
           /\ sel.id \in Ids(RecognizerSpecs) \cup {NoModel} /\ sel.id \in ModelIds \cup {NoModel}
           /\ sel.device \in FaceDevices /\ sel.backend \in Runtimes \cup {"auto"}
<1>1. /\ sel.file \in FilesOf(RecognizerSpecs) /\ sel.id \in Ids(RecognizerSpecs) \cup {NoModel}
      /\ sel.device \in FaceDevices /\ sel.backend \in Runtimes \cup {"auto"}
  BY FaceAssumption DEF RecognizerSelections, Selections
<1>2. sel.file \in ModelFiles /\ sel.file.model \in Ids(RecognizerSpecs) \cup {NoModel}
  BY <1>1, NamedFiles DEF Specs
<1>3. QED
  BY <1>1, <1>2, Registered

LEMMA ResolvedDetectorFacts ==
    ASSUME NEW sel \in DetectorSelections
    PROVE  /\ DetectorId(sel) \in ModelIds \cup {NoModel}
           /\ \A res \in ResolvedDetector(sel) : /\ res.id \in ModelIds /\ res.backend \in Runtimes
                                                 /\ DetectorId(sel) \in {res.id, NoModel}
<1>1. "0205" \in Ids(DetectorSpecs) /\ "yunet" \in Ids(DetectorSpecs)
  <2> DEFINE A == ModelSpec("scrfd", "onnxruntime", OnnxDevices, TRUE, AnyContract)
             B == ModelSpec("0205", "openvino", OpenVINODevices, FALSE, AnyContract)
             C == ModelSpec("yunet", "opencv_dnn", YuNetDevices, TRUE, AnyContract)
  <2>1. DetectorSpecs = {A, B, C}
    BY DEF DetectorSpecs
  <2>2. B.id = "0205" /\ C.id = "yunet"
    BY DEF ModelSpec
  <2> HIDE DEF A, B, C
  <2>3. QED
    BY <2>1, <2>2 DEF Ids
<1>2. DetectorId(sel) \in Ids(DetectorSpecs) \cup {NoModel}
  BY <1>1, SelectedDetector DEF DetectorId
<1>3. ASSUME NEW res \in ResolvedDetector(sel)
      PROVE  /\ res.id \in Ids(DetectorSpecs) /\ res.backend \in Runtimes
             /\ DetectorId(sel) \in {res.id, NoModel}
  <2> DEFINE ids == IF DetectorId(sel) /= NoModel THEN {DetectorId(sel)}
                    ELSE IF sel.backend = "auto" THEN {"yunet"}
                    ELSE Ids({s \in DetectorSpecs : s.backend = sel.backend})
             backend == IF sel.backend = "auto" THEN SpecOf(CHOOSE i \in ids : TRUE).backend ELSE sel.backend
  <2>0. res \in {[id |-> i, backend |-> backend] : i \in {j \in ids : Fits(sel.file, backend)}}
    BY ZenonT(30) DEF ResolvedDetector
  <2>1. res.id \in ids /\ res.backend = backend
    <3> HIDE DEF ids, backend
    <3>1. QED
      BY <2>0
  <2>2. ids \subseteq Ids(DetectorSpecs)
    BY <1>1, <1>2 DEF Ids
  <2>3. DetectorId(sel) \in {res.id, NoModel}
    BY <2>1
  <2> HIDE DEF ids
  <2>4. (CHOOSE i \in ids : TRUE) \in ids
    BY <2>1
  <2>5. (CHOOSE i \in ids : TRUE) \in ModelIds
    BY <2>2, <2>4, Registered
  <2>6. SpecOf(CHOOSE i \in ids : TRUE).backend \in Runtimes
    BY <2>5, SpecTable DEF Runtimes
  <2>7. res.backend \in Runtimes
    BY <2>1, <2>6, SelectedDetector
  <2>8. QED
    BY <2>1, <2>2, <2>3, <2>7
<1>4. QED
  BY <1>2, <1>3, Registered

\* A contract that is matched is the one of the file's own model.
LEMMA MatchingFacts ==
    ASSUME NEW file, file.model \in Ids(RecognizerSpecs) \cup {NoModel}, NEW s \in Matching(file)
    PROVE  s \in RecognizerSpecs /\ s.id = file.model
<1> DEFINE A == ModelSpec("0095", "openvino", OpenVINODevices, TRUE, <<128, 256>>)
           B == ModelSpec("facenet", "onnxruntime", OnnxDevices, TRUE, <<160, 512>>)
           C == ModelSpec("arcface", "onnxruntime", OnnxDevices, TRUE, <<112, 512>>)
<1>1. RecognizerSpecs = {A, B, C}
  BY DEF RecognizerSpecs
<1>2. /\ A.contract[1] = 128 /\ B.contract[1] = 160 /\ C.contract[1] = 112 /\ AnyContract[1] = 0
      /\ A.backend = "openvino" /\ A.id = "0095" /\ B.id = "facenet" /\ C.id = "arcface"
  BY DEF ModelSpec, AnyContract
<1> HIDE DEF A, B, C
<1>3. s \in RecognizerSpecs /\ s.backend = "onnxruntime" /\ s.contract = Contract(file)
  BY DEF Matching
<1>4. s \in {B, C}
  BY <1>1, <1>2, <1>3
<1>5. CASE file.model = NoModel
  BY <1>2, <1>3, <1>4, <1>5 DEF Contract
<1>6. CASE file.model \in Ids(RecognizerSpecs) /\ file.model /= NoModel
  <2>1. PICK t \in RecognizerSpecs : file.model = t.id
    BY <1>6 DEF Ids
  <2>2. SpecOf(file.model) = t
    BY <2>1, Registered, SpecFacts
  <2>3. s.contract = t.contract
    BY <1>3, <1>6, <2>2 DEF Contract
  <2>4. t \in {A, B, C}
    BY <1>1, <2>1
  <2>5. QED
    BY <1>2, <1>3, <1>4, <2>1, <2>3, <2>4
<1>7. QED
  BY <1>5, <1>6

LEMMA ResolvedRecognizerFacts ==
    ASSUME NEW sel \in RecognizerSelections
    PROVE  LET asked == IF sel.backend = "auto" THEN NoModel ELSE sel.id IN
           /\ asked \in ModelIds \cup {NoModel}
           /\ \A res \in ResolvedRecognizer(sel) :
                 /\ res.id \in ModelIds /\ res.backend \in Runtimes /\ asked \in {res.id, NoModel}
                 /\ res.backend = "onnxruntime" => res.id = sel.file.model
<1> DEFINE asked   == IF sel.backend = "auto" THEN NoModel ELSE sel.id
           backend == IF sel.backend /= "auto" THEN sel.backend
                      ELSE IF sel.file.format = "xml" THEN "openvino" ELSE "onnxruntime"
           ids     == IF sel.file.format = "xml" THEN {sel.id} \cap Ids(RecognizerSpecs) ELSE ResolvedOnnx(sel)
<1>1. /\ sel.file.model \in Ids(RecognizerSpecs) \cup {NoModel} /\ sel.id \in Ids(RecognizerSpecs) \cup {NoModel}
      /\ sel.id \in ModelIds \cup {NoModel} /\ sel.backend \in Runtimes \cup {"auto"}
  BY SelectedRecognizer
<1>2. \A s \in Matching(sel.file) : s \in RecognizerSpecs /\ s.id = sel.file.model
  BY <1>1, MatchingFacts
<1>3. \A i \in Ids(Matching(sel.file)) : i \in Ids(RecognizerSpecs) /\ i = sel.file.model
  BY <1>2 DEF Ids
<1>4. asked \in ModelIds \cup {NoModel} /\ backend \in Runtimes
  BY <1>1 DEF Runtimes
<1>5. ids \subseteq Ids(RecognizerSpecs)
  BY <1>3 DEF ResolvedOnnx
<1>6. ASSUME NEW res \in ResolvedRecognizer(sel)
      PROVE  /\ res.id \in ModelIds /\ res.backend \in Runtimes /\ asked \in {res.id, NoModel}
             /\ res.backend = "onnxruntime" => res.id = sel.file.model
  <2>1. res.id \in ids /\ res.backend = backend /\ Fits(sel.file, backend)
    BY DEF ResolvedRecognizer
  <2>2. res.backend = "onnxruntime" => sel.file.format /= "xml"
    BY <2>1 DEF Fits, FormatOf
  <2>3. sel.file.format /= "xml" => res.id \in Ids(Matching(sel.file))
    BY <2>1 DEF ResolvedOnnx
  <2>4. asked \in {res.id, NoModel}
    BY <2>1 DEF ResolvedOnnx
  <2> HIDE DEF ids, backend, asked
  <2>5. QED
    BY <1>3, <1>4, <1>5, <2>1, <2>2, <2>3, <2>4, Registered
<1>7. QED
  BY <1>4, <1>6

-----------------------------------------------------------------------------
(* create_face_orchestrator and FaceAnalysisService.                       *)

LEMMA CreateModelInv ==
    ASSUME FacesInv, CreateDetector \/ CreateLandmarker \/ CreateRecognizer
    PROVE  FacesInv'
<1>1. CASE CreateDetector
  <2>1. PICK sel \in DetectorSelections : Validates(ResolvedDetector(sel), sel, DetectorId(sel))
    BY <1>1 DEF CreateDetector
  <2>2. stage = "detector" /\ creating = NoModel
    BY <1>1 DEF CreateDetector
  <2>3. QED
    BY <2>1, <2>2, ResolvedDetectorFacts, SelectedDetector, ValidatesInv
<1>2. CASE CreateLandmarker
  <2> DEFINE resolved == {[id |-> "0009", backend |-> "openvino"]}
             sel(device) == [file |-> FileOf(LandmarkerSpec), device |-> device]
  <2>1. PICK device \in Asked : Validates(resolved, sel(device), "0009")
    BY <1>2 DEF CreateLandmarker
  <2>2. stage = "landmarker" /\ creating = NoModel
    BY <1>2 DEF CreateLandmarker
  <2>3. /\ \A res \in resolved : res.id \in ModelIds /\ res.backend \in Runtimes /\ "0009" \in {res.id, NoModel}
        /\ "0009" \in ModelIds \cup {NoModel}
    BY Registered DEF Runtimes
  <2>4. FileOf(LandmarkerSpec) \in ModelFiles
    BY Registered DEF FileOf, FormatOf, ModelFiles, ModelIds
  <2>5. sel(device).file \in ModelFiles /\ sel(device).device \in FaceDevices
    BY <2>4, FaceAssumption
  <2> HIDE DEF resolved, sel
  <2>6. QED
    BY <2>1, <2>2, <2>3, <2>5, ValidatesInv
<1>3. CASE CreateRecognizer
  <2> DEFINE asked(sel) == IF sel.backend = "auto" THEN NoModel ELSE sel.id
  <2>1. PICK sel \in RecognizerSelections : Validates(ResolvedRecognizer(sel), sel, asked(sel))
    BY <1>3 DEF CreateRecognizer
  <2>2. stage = "recognizer" /\ creating = NoModel /\ HasLandmarks
    BY <1>3 DEF CreateRecognizer
  <2>3. /\ asked(sel) \in ModelIds \cup {NoModel}
        /\ \A res \in ResolvedRecognizer(sel) :
              /\ res.id \in ModelIds /\ res.backend \in Runtimes /\ asked(sel) \in {res.id, NoModel}
              /\ res.backend = "onnxruntime" => res.id = sel.file.model
    BY ResolvedRecognizerFacts
  <2>4. sel.file \in ModelFiles /\ sel.device \in FaceDevices
    BY SelectedRecognizer
  <2> HIDE DEF asked
  <2>5. QED
    BY <2>1, <2>2, <2>3, <2>4, ValidatesInv
<1>4. QED
  BY <1>1, <1>2, <1>3

\* Nothing is validated any more.
LEMMA NotValidating ==
    ASSUME FacesInv, Judged \/ creating = NoModel, NEW mc, NEW ran, NEW s, NEW d, NEW l
    PROVE  Validating(mc, ran, NoModel) /\ Running(running, NoModel) /\ Suits(s, NoModel, d, l)
BY DEF FacesInv, Judged, Validating, Running, Suits

LEMMA DetectorEndsInv == ASSUME FacesInv, DetectorEnds PROVE FacesInv'
<1>1. PICK m \in Created :
         IF m = NoModel THEN UNCHANGED <<faceDetector, opened, stage>>
                       ELSE faceDetector' = m /\ opened' = {"detector"} /\ stage' = "landmarker"
  BY DEF DetectorEnds
<1>2. /\ stage = "detector" /\ Judged /\ creating' = NoModel
      /\ UNCHANGED <<machine, landmarker, recognizer, running, probes, passes, named, seen, faces>>
  BY DEF DetectorEnds
<1>3. Usable(machine, passes, faceDetector') /\ (stage' /= "detector" => faceDetector' /= NoModel)
  BY <1>1, <1>2, CreatedFacts DEF FacesInv
<1>4. recognizer = NoModel /\ seen.result = "none"
  BY <1>2 DEF FacesInv, Recognizes, Sees
<1>5. Recognizes(stage', faceDetector', landmarker', recognizer') /\ Sees(stage', seen', named')
  BY <1>2, <1>4 DEF FacesInv, Recognizes, Sees
<1>6. /\ stage' \in {"detector", "landmarker", "recognizer", "ready", "closed"}
      /\ opened' \subseteq {"detector", "landmarker", "recognizer"}
  BY <1>1 DEF FacesInv
<1>7. /\ Validating(machine', passes', creating') /\ Running(running', creating')
      /\ Suits(stage', creating', faceDetector', landmarker')
  BY <1>2, NotValidating
<1>8. QED
  BY <1>2, <1>3, <1>5, <1>6, <1>7 DEF FacesInv

LEMMA LandmarkerEndsInv == ASSUME FacesInv, LandmarkerEnds PROVE FacesInv'
<1>1. /\ stage = "landmarker" /\ stage' = "recognizer" /\ Judged /\ creating' = NoModel
      /\ landmarker' \in Created
      /\ opened' = IF landmarker' = NoModel THEN opened ELSE opened \cup {"landmarker"}
      /\ UNCHANGED <<machine, faceDetector, recognizer, running, probes, passes, named, seen, faces>>
  BY DEF LandmarkerEnds
<1>2. Usable(machine, passes, landmarker')
  BY <1>1, CreatedFacts
<1>3. recognizer = NoModel /\ seen.result = "none" /\ faceDetector /= NoModel
  BY <1>1 DEF FacesInv, Recognizes, Sees
<1>4. Recognizes(stage', faceDetector', landmarker', recognizer') /\ Sees(stage', seen', named')
  BY <1>1, <1>3 DEF FacesInv, Recognizes, Sees
<1>5. /\ Validating(machine', passes', creating') /\ Running(running', creating')
      /\ Suits(stage', creating', faceDetector', landmarker')
  BY <1>1, NotValidating
<1>6. QED
  BY <1>1, <1>2, <1>3, <1>4, <1>5 DEF FacesInv

LEMMA RecognizerEndsInv == ASSUME FacesInv, RecognizerEnds PROVE FacesInv'
<1>1. /\ stage = "recognizer" /\ stage' = "ready" /\ Judged /\ creating' = NoModel
      /\ recognizer' \in Created
      /\ opened' \subseteq opened \cup {"recognizer"}
      /\ UNCHANGED <<machine, faceDetector, landmarker, running, probes, passes, seen, faces>>
  BY DEF RecognizerEnds
<1>2. /\ Usable(machine, passes, recognizer')
      /\ recognizer' /= NoModel => /\ recognizer'.id = creating.id /\ recognizer'.backend = creating.backend
                                   /\ recognizer'.model = creating.file.model
  BY <1>1, CreatedFacts
<1>3. Lands(faceDetector, landmarker) /\ (creating.backend = "onnxruntime" => creating.id = creating.file.model)
  BY <1>1 DEF FacesInv, Suits, Judged
<1>4. seen.result = "none" /\ faceDetector /= NoModel
  BY <1>1 DEF FacesInv, Sees
<1>5. Recognizes(stage', faceDetector', landmarker', recognizer') /\ Sees(stage', seen', named')
  BY <1>1, <1>2, <1>3, <1>4 DEF Recognizes, Sees
<1>6. /\ Validating(machine', passes', creating') /\ Running(running', creating')
      /\ Suits(stage', creating', faceDetector', landmarker')
  BY <1>1, NotValidating
<1>7. QED
  BY <1>1, <1>2, <1>4, <1>5, <1>6 DEF FacesInv

\* A step that leaves the models and the probes alone.
LEMMA OnlyStage ==
    ASSUME FacesInv, creating = NoModel,
           UNCHANGED <<machine, faceDetector, landmarker, recognizer, probeVars, named, seen, faces>>,
           stage' \in {"recognizer", "ready", "closed"}, stage /= "detector",
           stage' = "recognizer" => stage = "landmarker", opened' \subseteq opened
    PROVE  FacesInv'
<1>1. recognizer /= NoModel => stage \in {"ready", "closed"}
  BY DEF FacesInv, Recognizes
<1>2. seen.result /= "none" => stage \in {"ready", "closed"}
  BY DEF FacesInv, Sees
<1>3. Recognizes(stage', faceDetector', landmarker', recognizer')
  BY <1>1 DEF FacesInv, Recognizes
<1>4. Sees(stage', seen', named')
  BY <1>2 DEF FacesInv, Sees
<1>5. UNCHANGED <<machine, faceDetector, landmarker, recognizer, creating, running, probes, passes>>
  BY DEF probeVars
<1>6. /\ Validating(machine', passes', creating') /\ Running(running', creating')
      /\ Suits(stage', creating', faceDetector', landmarker')
  BY <1>5, NotValidating
<1>7. QED
  BY <1>3, <1>4, <1>5, <1>6 DEF FacesInv

LEMMA StageInv == ASSUME FacesInv, NoLandmarker \/ NoRecognizer \/ CloseModels PROVE FacesInv'
<1>1. CASE NoLandmarker
  BY <1>1, OnlyStage DEF NoLandmarker, loadedVars
<1>2. CASE NoRecognizer
  BY <1>2, OnlyStage DEF NoRecognizer, loadedVars
<1>3. CASE CloseModels
  <2>1. creating = NoModel
    BY <1>3 DEF CloseModels, FacesInv, Suits
  <2>2. QED
    BY <1>3, <2>1, OnlyStage DEF CloseModels
<1>4. QED
  BY <1>1, <1>2, <1>3

LEMMA RebuildInv == ASSUME FacesInv, Rebuild PROVE FacesInv'
<1>1. /\ stage' = "detector" /\ faceDetector' = NoModel /\ landmarker' = NoModel /\ recognizer' = NoModel
      /\ opened' = {} /\ seen' = Unseen /\ UNCHANGED <<machine, creating, running, probes, passes, faces>>
      /\ stage = "closed"
  BY DEF Rebuild, probeVars
<1>2. Recognizes(stage', faceDetector', landmarker', recognizer') /\ Sees(stage', seen', named')
  BY <1>1 DEF Recognizes, Sees, Unseen
<1>3. /\ Usable(machine', passes', faceDetector') /\ Usable(machine', passes', landmarker')
      /\ Usable(machine', passes', recognizer')
  BY <1>1 DEF Usable
<1>4. creating = NoModel
  BY <1>1 DEF FacesInv, Suits
<1>5. /\ Validating(machine', passes', creating') /\ Running(running', creating')
      /\ Suits(stage', creating', faceDetector', landmarker')
  BY <1>1, <1>4, NotValidating
<1>6. QED
  BY <1>1, <1>2, <1>3, <1>5 DEF FacesInv

\* A session that is opened again is one of the same model on a device that
\* it may be on.
LEMMA ReopenedFacts ==
    ASSUME machine \in Machines, NEW role, NEW m, Usable(machine, passes, m), m /= NoModel,
           NEW m2 \in Reopened(role, m)
    PROVE  /\ m2 /= NoModel /\ Usable(machine, passes, m2)
           /\ m2.id = m.id /\ m2.backend = m.backend /\ m2.model = m.model /\ m2.asked = m.asked
<1>1. SoundModel(machine, m) /\ Passed(passes, m) /\ m \in Models
  BY DEF Usable, SoundModel
<1>2. CASE m2 = m
  BY <1>2
<1>3. CASE m2 /= m
  <2>1. PICK a \in Load(m.id, m.device) : m2 = [m EXCEPT !.actual = a]
    BY <1>3 DEF Reopened
  <2>2. m.id \in ModelIds /\ m.device \in SpecOf(m.id).devices /\ m.backend = SpecOf(m.id).backend
    BY <1>1 DEF SoundModel, Fitting, Models, ModelIds
  <2>3. m.device = "auto" \/ m.device \in machine[SpecOf(m.id).backend]
    BY <1>1 DEF SoundModel, Fitting
  <2>4. /\ a \in FaceDevices /\ a \in machine[m.backend] \cup {"cpu"}
        /\ a = m.device \/ m.device = "auto" \/ (m.device = "cuda" /\ a = "cpu")
    BY <2>1, <2>2, <2>3, LoadIsPlaced
  <2>5. /\ m2 \in Models /\ m2.id = m.id /\ m2.backend = m.backend /\ m2.device = m.device
        /\ m2.model = m.model /\ m2.asked = m.asked /\ m2.actual = a
    BY <1>1, <2>1, <2>4 DEF Models
  <2>6. m2 /= NoModel
    BY <2>5, ModelsAssumption
  <2>7. Placed(machine, m2)
    BY <2>4, <2>5 DEF Placed
  <2>8. SoundModel(machine, m2)
    BY <1>1, <2>5, <2>7 DEF SoundModel
  <2>9. Passed(passes, m2)
    BY <1>1, <2>5 DEF Passed
  <2>10. QED
    BY <2>5, <2>6, <2>8, <2>9 DEF Usable
<1>4. QED
  BY <1>2, <1>3

LEMMA AnalyzeFaceInv ==
    ASSUME FacesInv, NEW face \in {"nothing", "raises", "points", "bare"}, NEW regressed \in BOOLEAN,
           NEW good \in BOOLEAN, NEW regular \in BOOLEAN, NEW score \in {"raises", "none", "below", "above"},
           AnalyzeFace(face, regressed, good, regular, score)
    PROVE  FacesInv'
<1> DEFINE landmarks == Landmarked(face, regressed)
           accepted  == IsAccepted(face, good, landmarks)
           aligned   == Aligned(landmarks, regular)
           lazily    == Compares(accepted, aligned) /\ recognizer.backend = "openvino"
<1>1. /\ stage \in {"ready", "closed"} /\ faces < MaxFaces /\ faces' = faces + 1
      /\ faceDetector' \in Reopened("detector", faceDetector)
      /\ seen' = [landmarks |-> landmarks, accepted |-> accepted, result |-> Recognized(accepted, aligned, score)]
      /\ landmarker' \in (IF Regresses(face) THEN Reopened("landmarker", landmarker) ELSE {landmarker})
      /\ recognizer' \in (IF lazily THEN Reopened("recognizer", recognizer) ELSE {recognizer})
      /\ opened' = opened \cup {"detector"} \cup (IF Regresses(face) THEN {"landmarker"} ELSE {})
                         \cup (IF lazily THEN {"recognizer"} ELSE {})
      /\ UNCHANGED <<machine, stage, probeVars, named>>
  BY DEF AnalyzeFace
<1>2. /\ machine \in Machines /\ faceDetector /= NoModel
      /\ Usable(machine, passes, faceDetector) /\ Usable(machine, passes, landmarker)
      /\ Usable(machine, passes, recognizer)
      /\ Recognizes(stage, faceDetector, landmarker, recognizer)
  BY <1>1 DEF FacesInv
<1>3. Recognized(accepted, aligned, score) /= "none" => landmarks /\ accepted
  BY DEF Recognized, Compares, Aligned
<1>4. Recognized(accepted, aligned, score) = "known" => named
  BY DEF Recognized, Match
<1>5. Sees(stage', seen', named')
  BY <1>1, <1>3, <1>4 DEF Sees
<1>6. /\ faceDetector' /= NoModel /\ Usable(machine, passes, faceDetector')
      /\ faceDetector'.asked = faceDetector.asked
  BY <1>1, <1>2, ReopenedFacts
<1>7. /\ Usable(machine, passes, landmarker') /\ (landmarker' = NoModel <=> landmarker = NoModel)
  <2>1. CASE Regresses(face)
    <3>1. landmarker /= NoModel /\ landmarker' \in Reopened("landmarker", landmarker)
      BY <1>1, <2>1 DEF Regresses
    <3>2. QED
      BY <1>2, <3>1, ReopenedFacts
  <2>2. CASE ~Regresses(face)
    BY <1>1, <1>2, <2>2
  <2>3. QED
    BY <2>1, <2>2
<1>8. /\ Usable(machine, passes, recognizer') /\ (recognizer' = NoModel <=> recognizer = NoModel)
      /\ recognizer'.id = recognizer.id /\ recognizer'.backend = recognizer.backend
      /\ recognizer'.model = recognizer.model
  <2>1. CASE lazily
    <3>1. recognizer /= NoModel /\ recognizer' \in Reopened("recognizer", recognizer)
      BY <1>1, <2>1 DEF Compares
    <3>2. QED
      BY <1>2, <3>1, ReopenedFacts
  <2>2. CASE ~lazily
    BY <1>1, <1>2, <2>2
  <2>3. QED
    BY <2>1, <2>2
<1> HIDE DEF landmarks, accepted, aligned, lazily
<1>9. Lands(faceDetector', landmarker') <=> Lands(faceDetector, landmarker)
  BY <1>6, <1>7 DEF Lands
<1>10. Recognizes(stage', faceDetector', landmarker', recognizer')
  BY <1>1, <1>2, <1>8, <1>9 DEF Recognizes
<1>11. /\ faces' \in 0 .. MaxFaces /\ opened' \subseteq {"detector", "landmarker", "recognizer"}
  BY <1>1, FaceAssumption DEF FacesInv
<1>12. /\ Usable(machine', passes', faceDetector') /\ Usable(machine', passes', landmarker')
       /\ Usable(machine', passes', recognizer') /\ machine' \in Machines
  BY <1>1, <1>2, <1>6, <1>7, <1>8 DEF probeVars
<1>13. stage' \in {"ready", "closed"} /\ faceDetector' /= NoModel
  BY <1>1, <1>6
<1>14. creating = NoModel /\ UNCHANGED <<creating, running, probes, passes>>
  BY <1>1 DEF FacesInv, Suits, probeVars
<1>15. /\ Recorded(probes', passes') /\ Validating(machine', passes', creating') /\ Running(running', creating')
       /\ Suits(stage', creating', faceDetector', landmarker')
  BY <1>14, NotValidating DEF FacesInv
<1>16. QED
  BY <1>5, <1>10, <1>11, <1>12, <1>13, <1>15 DEF FacesInv

LEMMA FacesInitInv == FacesInit => FacesInv
<1> SUFFICES ASSUME FacesInit PROVE FacesInv
  OBVIOUS
<1>1. /\ machine \in Machines /\ stage = "detector" /\ faceDetector = NoModel /\ landmarker = NoModel
      /\ recognizer = NoModel /\ opened = {} /\ faces = 0 /\ seen = Unseen
      /\ creating = NoModel /\ running = [t \in Threads |-> NoModel] /\ probes = {} /\ passes = {}
  BY DEF FacesInit
<1>2. /\ Recorded(probes, passes) /\ Validating(machine, passes, creating) /\ Running(running, creating)
      /\ Suits(stage, creating, faceDetector, landmarker)
  BY <1>1 DEF Recorded, Validating, Running, Suits, Threads
<1>3. Recognizes(stage, faceDetector, landmarker, recognizer) /\ Sees(stage, seen, named)
  BY <1>1 DEF Recognizes, Sees, Unseen
<1>4. faces \in 0 .. MaxFaces
  BY <1>1, FaceAssumption
<1>5. QED
  BY <1>1, <1>2, <1>3, <1>4 DEF FacesInv, Usable

LEMMA FacesNextInv == FacesInv /\ [FacesNext]_faceVars => FacesInv'
<1> SUFFICES ASSUME FacesInv, [FacesNext]_faceVars PROVE FacesInv'
  OBVIOUS
<1>1. CASE UNCHANGED faceVars
  BY <1>1 DEF faceVars, loadedVars, probeVars, FacesInv
<1>2. CASE \E d \in FaceDevices : LookUp(d)
  BY <1>2, LookUpInv
<1>3. CASE \E key \in Refreshed : RefreshCapabilities(key)
  BY <1>3, RefreshCapabilitiesInv
<1>4. CASE \E t \in Threads, passed \in BOOLEAN : ProbeEnds(t, passed)
  BY <1>4, ProbeEndsInv
<1>5. CASE \E face \in {"nothing", "raises", "points", "bare"}, regressed, good, regular \in BOOLEAN,
              score \in {"raises", "none", "below", "above"} : AnalyzeFace(face, regressed, good, regular, score)
  BY <1>5, AnalyzeFaceInv
<1>6. QED
  BY <1>1, <1>2, <1>3, <1>4, <1>5, CreateModelInv, DetectorEndsInv, LandmarkerEndsInv, RecognizerEndsInv, StageInv,
     RebuildInv DEF FacesNext

LEMMA FacesInvTyped == FacesInv => FacesTypeOK
<1> SUFFICES ASSUME FacesInv PROVE FacesTypeOK
  OBVIOUS
<1>1. \A m \in {faceDetector, landmarker, recognizer} \ {NoModel} : m.id \in Ids(Specs) /\ m.actual \in FaceDevices
  BY DEF FacesInv, Usable, SoundModel, Models
<1>2. \A p \in probes : p.key.id \in Flaky /\ p.key.device \in FaceDevices /\ p.passed \in BOOLEAN
  BY DEF FacesInv, Recorded, ProbeRecords, ProbeKeys
<1>3. \A t \in Threads : running[t] /= NoModel => running[t].id \in Flaky /\ running[t].device \in FaceDevices
  BY DEF FacesInv, Running, ProbeKeys
<1>4. creating /= NoModel => creating.id \in Ids(Specs) /\ creating.todo \cup creating.rows \subseteq FaceDevices
  BY DEF FacesInv, Validating, Candidates
<1>5. QED
  BY <1>1, <1>2, <1>3, <1>4 DEF FacesInv, FacesTypeOK

LEMMA FacesFollowConfig == FacesInv => FacesAreAsConfigured
<1> SUFFICES ASSUME FacesInv PROVE FacesAreAsConfigured
  OBVIOUS
<1>1. ASSUME NEW m \in {faceDetector, landmarker, recognizer} \ {NoModel}
      PROVE  /\ m.backend = SpecOf(m.id).backend /\ OnItsDevice(m)
             /\ m.asked \in {m.id, NoModel}
             /\ m.id \in Flaky => HasPassed(m)
  <2>1. SoundModel(machine, m) /\ Passed(passes, m)
    BY DEF FacesInv, Usable
  <2>2. QED
    BY <2>1 DEF SoundModel, Placed, OnItsDevice, Passed, HasPassed
<1>2. ASSUME recognizer /= NoModel
      PROVE  HasLandmarks /\ (recognizer.backend = "onnxruntime" => recognizer.id = recognizer.model)
  BY <1>2 DEF FacesInv, Recognizes, Lands, HasLandmarks
<1>3. (seen.result /= "none" => seen.landmarks /\ seen.accepted) /\ (seen.result = "known" => named)
  BY DEF FacesInv, Sees
<1>4. \A p \in probes : p.passed => p.key \in passes
  BY DEF FacesInv, Recorded
<1>5. QED
  BY <1>1, <1>2, <1>3, <1>4 DEF FacesAreAsConfigured

-----------------------------------------------------------------------------
(* The gallery: its inductive invariant.                                   *)

Embeddings == (SUBSET Faces) \ {{}}
Files      == [dir : BOOLEAN, emb : Embeddings \cup {NoFile}, meta : Metadata \cup {NoFile}]
GalleryContents   == Enrolments \cup {NoFile}
Records    == [person : Persons, content : Enrolments]
Readers    == [todo : SUBSET Persons, read : SUBSET Records, matcher : Nat, clean : BOOLEAN]

SavePcs   == {"npz", "meta"}
DeletePcs == {"unlink_meta", "unlink_npz", "rmdir"}
ReadPcs   == {"load", "show"}
UserPcs   == {"idle", "refresh", "next"} \cup SavePcs \cup DeletePcs \cup ReadPcs
Users     == [pc : UserPcs, op : {NoFile, "import"}, person : Persons \cup {NoFile},
              content : GalleryContents, folders : SUBSET Persons, reader : Readers]
Builders  == [pc : {"off", "construct", "refresh", "on"} \cup ReadPcs, reader : Readers]
Matchers  == [id : Nat, records : SUBSET Records]
Counts    == [operations : 0 .. MaxOperations, builds : 0 .. MaxBuilds, restarts : 0 .. MaxRestarts]

GalleryTypes ==
    /\ gallery \in [Persons -> Files] /\ people \in [Persons -> GalleryContents]
    /\ user \in Users /\ builder \in Builders
    /\ matcher /= NoFile => matcher \in Matchers
    /\ root \in Trees \cup {NoRoot} /\ stale \in BOOLEAN
    /\ counts \in Counts

\* A file f of a person whose last complete save was c: the metadata is the
\* one of that save, whatever was written over the embeddings since.
Kept(f, c) ==
    /\ ~f.dir => f = NoDirectory /\ c = NoFile
    /\ f.meta /= NoFile => /\ c /= NoFile
                           /\ f.meta.name = c.name /\ f.meta.count = Cardinality(c.emb)

\* A save has its directory and what it writes, a removal has gone through the
\* files in their order.
Writes(u, g) ==
    /\ u.pc \in SavePcs \cup DeletePcs => u.person \in Persons /\ g[u.person].dir
    /\ u.pc \in SavePcs => u.content \in Enrolments
    /\ u.pc \in {"unlink_npz", "rmdir"} => g[u.person].meta = NoFile
    /\ u.pc = "rmdir" => g[u.person].emb = NoFile

Readable(f)  == f.meta /= NoFile /\ f.emb /= NoFile /\ f.meta.count = Cardinality(f.emb)
Content(f)   == [name |-> f.meta.name, emb |-> f.emb]
RecordIn(g, p) == [person |-> p, content |-> Content(g[p])]
Dirs(g)      == {p \in Persons : g[p].dir}

\* What was read of g, all but todo, is what g holds.
Accurate(g, todo, read) ==
    /\ todo \subseteq Dirs(g)
    /\ \A p \in Dirs(g) \ todo : Readable(g[p])
    /\ read = {RecordIn(g, p) : p \in Dirs(g) \ todo}

\* A reader that nothing disturbed has what the store has, and no other one
\* reads meanwhile.
UserReads(u, b, g, m) ==
    u.pc \in ReadPcs /\ u.reader.clean =>
      /\ b.pc \in {"off", "refresh", "on"}
      /\ Accurate(g, u.reader.todo, u.reader.read)
      /\ u.pc = "show" => u.reader.todo = {}
      /\ m /= NoFile => m.id = u.reader.matcher
      /\ m /= NoFile /\ u.pc = "show" => m.records = u.reader.read

BuilderReads(u, b, g, m) ==
    /\ b.pc \in ReadPcs /\ b.reader.clean =>
         /\ u.pc \notin ReadPcs
         /\ Accurate(g, b.reader.todo, b.reader.read)
         /\ b.pc = "show" => b.reader.todo = {}
         /\ m /= NoFile /\ b.pc = "show" => m.records = b.reader.read
    /\ b.pc \in ReadPcs /\ m /= NoFile => m.id = b.reader.matcher

Shows(view, records) ==
    /\ view.persons = records
    /\ \A r \in records : view.rows[r.person] /= NoFile /\ view.rows[r.person].active

\* The matcher and the view have what the store has.
Current(u, b, g, m, view, old) ==
    u.pc = "idle" /\ b.pc = "on" /\ m /= NoFile /\ ~old =>
      Accurate(g, {}, m.records) /\ Shows(view, m.records)

GalleryInv ==
    /\ GalleryTypes
    /\ \A p \in Persons : Kept(gallery[p], people[p])
    /\ Writes(user, gallery)
    /\ UserReads(user, builder, gallery, matcher)
    /\ BuilderReads(user, builder, gallery, matcher)
    /\ Current(user, builder, gallery, matcher, shown, stale)

-----------------------------------------------------------------------------
(* What a reader reads.                                                    *)

LEMMA EnrolmentFacts ==
    ASSUME NEW c \in Enrolments
    PROVE  /\ c.name \in Names /\ c.emb \in Embeddings
           /\ [name |-> c.name, count |-> Cardinality(c.emb)] \in Metadata
<1>1. c.name \in Names /\ c.emb \in Embeddings /\ c.emb \in SUBSET Faces /\ c.emb /= {}
  BY DEF Enrolments, Embeddings
<1>2. IsFiniteSet(Faces)
  BY GalleryAssumption
<1>3. IsFiniteSet(c.emb) /\ Cardinality(c.emb) <= Cardinality(Faces)
  BY <1>1, <1>2, FS_Subset
<1>4. Cardinality(c.emb) \in Nat /\ Cardinality(Faces) \in Nat
  BY <1>2, <1>3, FS_CardinalityType
<1>5. Cardinality(c.emb) /= 0
  BY <1>1, <1>3, FS_EmptySet
<1>6. Cardinality(c.emb) \in 1 .. Cardinality(Faces)
  BY <1>3, <1>4, <1>5
<1>7. QED
  BY <1>1, <1>6 DEF Metadata

LEMMA ReadableFacts ==
    ASSUME NEW g \in [Persons -> Files], NEW p \in Persons, Readable(g[p])
    PROVE  Content(g[p]) \in Enrolments /\ RecordIn(g, p) \in Records
<1>1. g[p].meta \in Metadata /\ g[p].emb \in Embeddings
  BY DEF Readable, Files
<1>2. Content(g[p]) \in Enrolments
  BY <1>1 DEF Content, Enrolments, Metadata, Embeddings
<1>3. QED
  BY <1>2 DEF RecordIn, Records

LEMMA LoadableIs ==
    ASSUME NEW p \in Persons
    PROVE  /\ Loadable(p) <=> Readable(gallery[p])
           /\ Loadable(p) => RecordOf(p) = RecordIn(gallery, p)
BY DEF Loadable, Readable, RecordOf, OnDisk, RecordIn, Content

LEMMA AccurateStart ==
    ASSUME NEW g
    PROVE  Accurate(g, Dirs(g), {})
BY DEF Accurate

LEMMA AccurateStep ==
    ASSUME NEW g, NEW todo, NEW read, Accurate(g, todo, read), NEW p \in todo, Readable(g[p])
    PROVE  Accurate(g, todo \ {p}, read \cup {RecordIn(g, p)})
<1>1. Dirs(g) \ (todo \ {p}) = (Dirs(g) \ todo) \cup {p}
  BY DEF Accurate
<1>2. {RecordIn(g, q) : q \in (Dirs(g) \ todo) \cup {p}} = {RecordIn(g, q) : q \in Dirs(g) \ todo} \cup {RecordIn(g, p)}
  OBVIOUS
<1>3. QED
  BY <1>1, <1>2 DEF Accurate

\* A reader's next directory, in the store as it is.
LEMMA LoadedOneFacts ==
    ASSUME GalleryTypes, NEW r \in Readers, NEW p \in r.todo, Loadable(p)
    PROVE  /\ LoadedOne(r, p) \in Readers
           /\ LoadedOne(r, p).matcher = r.matcher /\ LoadedOne(r, p).clean = r.clean
           /\ Accurate(gallery, r.todo, r.read) =>
                Accurate(gallery, LoadedOne(r, p).todo, LoadedOne(r, p).read)
<1>1. p \in Persons /\ gallery \in [Persons -> Files]
  BY DEF Readers, GalleryTypes
<1>2. Readable(gallery[p]) /\ RecordOf(p) = RecordIn(gallery, p)
  BY <1>1, LoadableIs
<1>3. RecordOf(p) \in Records
  BY <1>1, <1>2, ReadableFacts
<1>4. /\ LoadedOne(r, p) = [r EXCEPT !.todo = r.todo \ {p}, !.read = r.read \cup {RecordOf(p)}]
  BY DEF LoadedOne
<1>5. /\ LoadedOne(r, p) \in Readers
      /\ LoadedOne(r, p).matcher = r.matcher /\ LoadedOne(r, p).clean = r.clean
      /\ LoadedOne(r, p).todo = r.todo \ {p} /\ LoadedOne(r, p).read = r.read \cup {RecordOf(p)}
  BY <1>3, <1>4 DEF Readers
<1>6. QED
  BY <1>2, <1>5, AccurateStep

LEMMA StartReaderFacts ==
    ASSUME NEW id \in Nat, NEW clean \in BOOLEAN
    PROVE  /\ StartReader(id, clean) \in Readers
           /\ StartReader(id, clean).matcher = id /\ StartReader(id, clean).clean = clean
           /\ Accurate(gallery, StartReader(id, clean).todo, StartReader(id, clean).read)
<1>1. StartReader(id, clean) = [todo |-> Dirs(gallery), read |-> {}, matcher |-> id, clean |-> clean]
  BY DEF StartReader, Dirs
<1>2. Dirs(gallery) \in SUBSET Persons /\ {} \in SUBSET Records
  BY DEF Dirs
<1>3. QED
  BY <1>1, <1>2, AccurateStart DEF Readers

LEMMA RowFacts ==
    ASSUME NEW p \in Persons, NEW persons, NEW r \in persons, r.person = p,
           root \in Trees \cup {NoRoot}
    PROVE  RowOf(p, persons) /= NoFile /\ RowOf(p, persons).active
<1> DEFINE active == \E s \in persons : s.person = p
           folder == FolderOf(p)
           row    == [active |-> active, source |-> folder /= "absent", valid |-> folder = "images",
                      status |-> CASE folder = "absent"     -> "missing"
                                   [] folder = "unreadable" -> "unreadable"
                                   [] folder = "empty"      -> "empty"
                                   [] OTHER                 -> IF active THEN "active" ELSE "not_active"]
<1>1. active = TRUE
  OBVIOUS
<1>2. RowOf(p, persons) = row
  BY <1>1 DEF RowOf
<1>3. folder \in FolderStates
  BY GalleryAssumption DEF FolderOf, FolderStates
<1>4. row.status \in {"missing", "unreadable", "empty", "active", "not_active"}
  BY <1>3 DEF FolderStates
<1>5. row \in GalleryRows /\ row.active
  BY <1>1, <1>4 DEF GalleryRows
<1> HIDE DEF row
<1>6. QED
  BY <1>2, <1>5, NoFileAssumption

LEMMA ShowsWhatItRead ==
    ASSUME NEW read \in SUBSET Records, root \in Trees \cup {NoRoot}
    PROVE  Shows(GalleryOf(read), read)
<1>1. ASSUME NEW r \in read
      PROVE  /\ GalleryOf(read).rows[r.person] /= NoFile
             /\ GalleryOf(read).rows[r.person].active
  <2>1. r.person \in Persons
    BY DEF Records
  <2>2. RowOf(r.person, read) /= NoFile /\ RowOf(r.person, read).active
    BY <2>1, RowFacts
  <2>3. QED
    BY <2>1, <2>2 DEF GalleryOf
<1>2. QED
  BY <1>1 DEF Shows, GalleryOf

-----------------------------------------------------------------------------
(* The two threads.                                                        *)

LEMMA IdleFacts ==
    /\ NoReader \in Readers /\ NoReader.clean = FALSE
    /\ IdleUser \in Users /\ IdleUser.pc = "idle" /\ IdleUser.op = NoFile
    /\ IdleUser.person = NoFile /\ IdleUser.content = NoFile /\ IdleUser.folders = {}
    /\ IdleUser.reader = NoReader
    /\ IdleBuilder \in Builders /\ IdleBuilder.pc = "off" /\ IdleBuilder.reader = NoReader
<1>1. NoReader \in Readers /\ NoReader.clean = FALSE
  BY DEF NoReader, Readers
<1>2. QED
  BY <1>1 DEF IdleUser, IdleBuilder, Users, UserPcs, GalleryContents, Builders

\* An idle user with another pc: what most operations end with.
LEMMA IdleAt ==
    ASSUME NEW pc \in UserPcs
    PROVE  LET u == [IdleUser EXCEPT !.pc = pc] IN
           /\ u \in Users /\ u.pc = pc /\ u.reader = NoReader
BY IdleFacts DEF Users

LEMMA DisturbedBuilderFacts ==
    ASSUME builder \in Builders
    PROVE  /\ DisturbedBuilder \in Builders /\ DisturbedBuilder.pc = builder.pc
           /\ DisturbedBuilder.reader.clean = FALSE
           /\ DisturbedBuilder.reader.matcher = builder.reader.matcher
BY DEF DisturbedBuilder, Builders, Readers

LEMMA DisturbedUserFacts ==
    ASSUME user \in Users
    PROVE  /\ DisturbedUser \in Users /\ DisturbedUser.pc = user.pc
           /\ DisturbedUser.person = user.person /\ DisturbedUser.content = user.content
           /\ DisturbedUser.reader.clean = FALSE
BY DEF DisturbedUser, Users, Readers

\* A builder that was disturbed has nothing to answer for.
LEMMA DisturbedReads ==
    ASSUME NEW u, NEW b, NEW g, NEW m, NEW u2, NEW b2, NEW g2,
           BuilderReads(u, b, g, m), b2.pc = b.pc, b2.reader.clean = FALSE,
           b2.reader.matcher = b.reader.matcher
    PROVE  BuilderReads(u2, b2, g2, m)
BY DEF BuilderReads

LEMMA NotReading ==
    ASSUME NEW u, NEW b, NEW g, NEW m, u.pc \notin ReadPcs \/ u.reader.clean = FALSE
    PROVE  UserReads(u, b, g, m)
BY DEF UserReads

LEMMA NotWriting ==
    ASSUME NEW u, NEW g, u.pc \notin SavePcs \cup DeletePcs
    PROVE  Writes(u, g)
BY DEF Writes, SavePcs, DeletePcs

\* Assign keeps the matcher a matcher, and of the same identity.
LEMMA AssignFacts ==
    ASSUME GalleryTypes, NEW r \in Readers, Assign(r)
    PROVE  /\ matcher' /= NoFile => matcher /= NoFile /\ matcher' \in Matchers /\ matcher'.id = matcher.id
           /\ matcher' /= NoFile /\ matcher.id = r.matcher => matcher'.records = r.read
<1>1. CASE matcher = NoFile
  BY <1>1 DEF Assign
<1>2. CASE matcher /= NoFile
  <2>1. matcher \in Matchers /\ r.read \in SUBSET Records
    BY <1>2 DEF GalleryTypes, Readers
  <2>2. CASE matcher.id = r.matcher
    <3>1. matcher' = [matcher EXCEPT !.records = r.read]
      BY <1>2, <2>2 DEF Assign
    <3>2. QED
      BY <1>2, <2>1, <3>1 DEF Matchers
  <2>3. CASE matcher.id /= r.matcher
    BY <1>2, <2>1, <2>3 DEF Assign
  <2>4. QED
    BY <2>2, <2>3
<1>3. QED
  BY <1>1, <1>2

-----------------------------------------------------------------------------
(* refresh_gallery() of the main thread.                                   *)

LEMMA UserRefreshInv ==
    ASSUME GalleryInv, UserRefresh, UNCHANGED <<gallery, matcher, people, stale>>,
           counts' \in Counts, root' \in Trees \cup {NoRoot}
    PROVE  GalleryInv'
<1>0. GalleryTypes /\ BuilderReads(user, builder, gallery, matcher)
  BY DEF GalleryInv
<1>1. builder' = DisturbedBuilder
  BY DEF UserRefresh
<1>2. /\ builder' \in Builders /\ builder'.pc = builder.pc /\ builder'.reader.clean = FALSE
      /\ builder'.reader.matcher = builder.reader.matcher
  BY <1>0, <1>1, DisturbedBuilderFacts DEF GalleryTypes
<1>3. BuilderReads(user', builder', gallery', matcher')
  BY <1>0, <1>2, DisturbedReads
<1>4. \A p \in Persons : Kept(gallery[p], people[p])'
  BY DEF GalleryInv
<1>5. /\ user' \in Users /\ user'.pc \in {"idle", "load"} /\ (user'.pc = "idle" => matcher = NoFile)
      /\ UserReads(user', builder', gallery', matcher')
  <2>1. CASE matcher = NoFile
    <3>1. user' = IdleUser
      BY <2>1 DEF UserRefresh
    <3>2. QED
      BY <2>1, <3>1, IdleFacts, NotReading DEF ReadPcs
  <2>2. CASE matcher /= NoFile
    <3> DEFINE clean == ~Reading(builder.pc)
               r     == StartReader(matcher.id, clean)
    <3>1. user' = [IdleUser EXCEPT !.pc = "load", !.reader = r]
      BY <2>2 DEF UserRefresh
    <3>2. matcher.id \in Nat /\ clean \in BOOLEAN
      BY <1>0, <2>2 DEF GalleryTypes, Matchers
    <3> HIDE DEF clean
    <3>3. r \in Readers /\ r.matcher = matcher.id /\ r.clean = clean /\ Accurate(gallery, r.todo, r.read)
      BY <3>2, StartReaderFacts
    <3> HIDE DEF r
    <3>4. user' \in Users /\ user'.pc = "load" /\ user'.reader = r
      BY <3>1, <3>3, IdleFacts DEF Users, UserPcs, ReadPcs
    <3>5. clean => builder.pc \in {"off", "refresh", "on"}
      BY <1>0 DEF clean, Reading, GalleryTypes, Builders, ReadPcs
    <3>6. UserReads(user', builder', gallery', matcher')
      BY <1>2, <3>3, <3>4, <3>5 DEF UserReads
    <3>7. QED
      BY <3>4, <3>6
  <2>3. QED
    BY <2>1, <2>2
<1>6. Writes(user', gallery')
  BY <1>5, NotWriting DEF SavePcs, DeletePcs
<1>7. Current(user', builder', gallery', matcher', shown', stale')
  BY <1>5 DEF Current
<1>8. GalleryTypes'
  BY <1>0, <1>2, <1>5 DEF GalleryTypes
<1>9. QED
  BY <1>3, <1>4, <1>5, <1>6, <1>7, <1>8 DEF GalleryInv

LEMMA CountedFacts ==
    ASSUME GalleryTypes, Starts, Counted
    PROVE  counts' \in Counts
<1>1. counts \in Counts /\ counts.operations \in 0 .. MaxOperations /\ MaxOperations \in Nat
  BY GalleryAssumption DEF GalleryTypes, Counts
<1>2. counts.operations + 1 \in 0 .. MaxOperations
  BY <1>1 DEF Starts
<1>3. counts' = [counts EXCEPT !.operations = counts.operations + 1]
  BY DEF Counted
<1>4. QED
  BY <1>1, <1>2, <1>3 DEF Counts

LEMMA RefreshInv == ASSUME GalleryInv, Refresh PROVE GalleryInv'
<1>1. GalleryTypes
  BY DEF GalleryInv
<1>2. counts' \in Counts /\ root' \in Trees \cup {NoRoot}
  BY <1>1, CountedFacts DEF Refresh, GalleryTypes
<1>3. UserRefresh /\ UNCHANGED <<gallery, matcher, people, stale>>
  BY DEF Refresh
<1>4. QED
  BY <1>2, <1>3, UserRefreshInv

LEMMA OperationRefreshInv == ASSUME GalleryInv, OperationRefresh PROVE GalleryInv'
<1>1. counts' \in Counts /\ root' \in Trees \cup {NoRoot}
  BY DEF OperationRefresh, GalleryInv, GalleryTypes
<1>2. UserRefresh /\ UNCHANGED <<gallery, matcher, people, stale>>
  BY DEF OperationRefresh
<1>3. QED
  BY <1>1, <1>2, UserRefreshInv

\* The user goes on to something else without touching the store: no reader
\* is disturbed, and none of the user's is left.
LEMMA UserMovesOn ==
    ASSUME GalleryInv, user' \in Users, user'.pc \notin ReadPcs \cup {"idle"},
           Writes(user', gallery),
           UNCHANGED <<gallery, matcher, people, builder>>,
           stale' \in BOOLEAN, counts' \in Counts, root' \in Trees \cup {NoRoot}
    PROVE  GalleryInv'
<1>0. GalleryTypes /\ BuilderReads(user, builder, gallery, matcher)
  BY DEF GalleryInv
<1>1. UserReads(user', builder', gallery', matcher')
  BY NotReading
<1>2. BuilderReads(user', builder', gallery', matcher')
  BY <1>0 DEF BuilderReads
<1>3. Current(user', builder', gallery', matcher', shown', stale')
  BY DEF Current
<1>4. GalleryTypes'
  BY <1>0 DEF GalleryTypes
<1>5. Writes(user', gallery')
  OBVIOUS
<1>6. \A p \in Persons : Kept(gallery[p], people[p])'
  BY DEF GalleryInv
<1>7. QED
  BY <1>1, <1>2, <1>3, <1>4, <1>5, <1>6 DEF GalleryInv

LEMMA SetRootInv == ASSUME GalleryInv, SetRoot PROVE GalleryInv'
<1>1. GalleryTypes
  BY DEF GalleryInv
<1>2. counts' \in Counts /\ root' \in Trees \cup {NoRoot} /\ stale' \in BOOLEAN
  BY <1>1, CountedFacts DEF SetRoot, GalleryTypes
<1>3. user' \in Users /\ user'.pc = "refresh"
  BY IdleAt DEF SetRoot, UserPcs
<1>4. Writes(user', gallery)
  BY <1>3, NotWriting DEF SavePcs, DeletePcs
<1>5. UNCHANGED <<gallery, matcher, people, builder>>
  BY DEF SetRoot
<1>6. QED
  BY <1>2, <1>3, <1>4, <1>5, UserMovesOn DEF ReadPcs

LEMMA ImportEnrollmentInv == ASSUME GalleryInv, ImportEnrollment PROVE GalleryInv'
<1>1. GalleryTypes
  BY DEF GalleryInv
<1>2. counts' \in Counts /\ root' \in Trees \cup {NoRoot} /\ stale' \in BOOLEAN
  BY <1>1, CountedFacts DEF ImportEnrollment, GalleryTypes
<1>3. user' \in Users /\ user'.pc = "next"
  BY IdleFacts DEF ImportEnrollment, Users, UserPcs
<1>4. Writes(user', gallery)
  BY <1>3, NotWriting DEF SavePcs, DeletePcs
<1>5. UNCHANGED <<gallery, matcher, people, builder>>
  BY DEF ImportEnrollment
<1>6. QED
  BY <1>2, <1>3, <1>4, <1>5, UserMovesOn DEF ReadPcs

LEMMA ImportEndsInv == ASSUME GalleryInv, ImportEnds PROVE GalleryInv'
<1>2. counts' \in Counts /\ root' \in Trees \cup {NoRoot} /\ stale' \in BOOLEAN
  BY DEF ImportEnds, GalleryInv, GalleryTypes
<1>3. user' \in Users /\ user'.pc = "refresh"
  BY IdleAt DEF ImportEnds, UserPcs
<1>4. Writes(user', gallery)
  BY <1>3, NotWriting DEF SavePcs, DeletePcs
<1>5. UNCHANGED <<gallery, matcher, people, builder>>
  BY DEF ImportEnds
<1>6. QED
  BY <1>2, <1>3, <1>4, <1>5, UserMovesOn DEF ReadPcs

LEMMA RemovePersonInv == ASSUME GalleryInv, NEW p \in Persons, RemovePerson(p) PROVE GalleryInv'
<1>1. GalleryTypes
  BY DEF GalleryInv
<1>2. counts' \in Counts /\ root' \in Trees \cup {NoRoot} /\ stale' \in BOOLEAN
  BY <1>1, CountedFacts DEF RemovePerson, GalleryTypes
<1>3. user' \in Users /\ user'.pc = "unlink_meta" /\ user'.person = p
  BY IdleFacts DEF RemovePerson, Users, UserPcs, DeletePcs
<1>4. Writes(user', gallery)
  BY <1>3 DEF Writes, RemovePerson, SavePcs
<1>5. UNCHANGED <<gallery, matcher, people, builder>>
  BY DEF RemovePerson
<1>6. QED
  BY <1>2, <1>3, <1>4, <1>5, UserMovesOn DEF ReadPcs

LEMMA UserLoadInv == ASSUME GalleryInv, UserLoad PROVE GalleryInv'
<1>0. /\ GalleryTypes /\ BuilderReads(user, builder, gallery, matcher)
      /\ UserReads(user, builder, gallery, matcher)
  BY DEF GalleryInv
<1>1. /\ user.pc = "load" /\ UNCHANGED <<gallery, root, builder, counts, people>>
  BY DEF UserLoad
<1>2. \A p \in Persons : Kept(gallery[p], people[p])'
  BY <1>1 DEF GalleryInv
<1>3. user \in Users /\ user.reader \in Readers /\ builder \in Builders
  BY <1>0 DEF GalleryTypes, Users
<1>4. builder.pc \in ReadPcs => ~builder.reader.clean
  BY <1>0, <1>1 DEF BuilderReads, ReadPcs
<1>5. CASE user.reader.todo = {}
  <2>1. user' = [user EXCEPT !.pc = "show"] /\ Assign(user.reader) /\ UNCHANGED <<shown, stale>>
    BY <1>5 DEF UserLoad
  <2>2. user' \in Users /\ user'.pc = "show" /\ user'.reader = user.reader
    BY <1>3, <2>1 DEF Users, UserPcs, ReadPcs
  <2>3. /\ matcher' /= NoFile => matcher /= NoFile /\ matcher' \in Matchers /\ matcher'.id = matcher.id
        /\ matcher' /= NoFile /\ matcher.id = user.reader.matcher => matcher'.records = user.reader.read
    BY <1>0, <1>3, <2>1, AssignFacts
  <2>4. UserReads(user', builder', gallery', matcher')
    BY <1>0, <1>1, <1>5, <2>2, <2>3 DEF UserReads, ReadPcs
  <2>5. BuilderReads(user', builder', gallery', matcher')
    BY <1>0, <1>1, <1>4, <2>3 DEF BuilderReads
  <2>6. Writes(user', gallery') /\ Current(user', builder', gallery', matcher', shown', stale')
    BY <2>2, NotWriting DEF SavePcs, DeletePcs, Current
  <2>7. GalleryTypes'
    BY <1>0, <1>1, <2>1, <2>2, <2>3 DEF GalleryTypes
  <2>8. QED
    BY <1>2, <2>4, <2>5, <2>6, <2>7 DEF GalleryInv
<1>6. CASE user.reader.todo /= {}
  <2>1. PICK p \in user.reader.todo :
            IF Loadable(p)
              THEN /\ user' = [user EXCEPT !.reader = LoadedOne(@, p)]
                   /\ UNCHANGED <<matcher, shown, stale>>
              ELSE /\ user' = IdleUser
                   /\ stale' = TRUE
                   /\ UNCHANGED matcher
    BY <1>6 DEF UserLoad
  <2>2. UNCHANGED matcher
    BY <2>1
  <2>3. BuilderReads(user', builder', gallery', matcher')
    BY <1>0, <1>1, <1>4, <2>2 DEF BuilderReads
  <2>4. CASE Loadable(p)
    <3> DEFINE r == LoadedOne(user.reader, p)
    <3>1. /\ r \in Readers /\ r.matcher = user.reader.matcher /\ r.clean = user.reader.clean
          /\ Accurate(gallery, user.reader.todo, user.reader.read) => Accurate(gallery, r.todo, r.read)
      BY <1>0, <1>3, <2>4, LoadedOneFacts
    <3>2. user' = [user EXCEPT !.reader = r] /\ UNCHANGED <<shown, stale>>
      BY <2>1, <2>4
    <3> HIDE DEF r
    <3>3. user' \in Users /\ user'.pc = "load" /\ user'.reader = r
      BY <1>1, <1>3, <3>1, <3>2 DEF Users
    <3>4. UserReads(user', builder', gallery', matcher')
      BY <1>0, <1>1, <2>2, <3>1, <3>3 DEF UserReads, ReadPcs
    <3>5. Writes(user', gallery') /\ Current(user', builder', gallery', matcher', shown', stale')
      BY <3>3, NotWriting DEF SavePcs, DeletePcs, Current
    <3>6. GalleryTypes'
      BY <1>0, <1>1, <2>2, <3>2, <3>3 DEF GalleryTypes
    <3>7. QED
      BY <1>2, <2>3, <3>4, <3>5, <3>6 DEF GalleryInv
  <2>5. CASE ~Loadable(p)
    <3>1. user' = IdleUser /\ stale' = TRUE
      BY <2>1, <2>5
    <3>2. user' \in Users /\ user'.pc = "idle"
      BY <3>1, IdleFacts
    <3>3. UserReads(user', builder', gallery', matcher') /\ Writes(user', gallery')
      BY <3>2, NotReading, NotWriting DEF SavePcs, DeletePcs, ReadPcs
    <3>4. Current(user', builder', gallery', matcher', shown', stale')
      BY <3>1 DEF Current
    <3>5. GalleryTypes'
      BY <1>0, <1>1, <2>2, <3>1, <3>2 DEF GalleryTypes
    <3>6. QED
      BY <1>2, <2>3, <3>3, <3>4, <3>5 DEF GalleryInv
  <2>6. QED
    BY <2>4, <2>5
<1>7. QED
  BY <1>5, <1>6

LEMMA UserShowInv == ASSUME GalleryInv, UserShow PROVE GalleryInv'
<1>0. /\ GalleryTypes /\ BuilderReads(user, builder, gallery, matcher)
      /\ UserReads(user, builder, gallery, matcher)
  BY DEF GalleryInv
<1>1. /\ user.pc = "show" /\ user' = IdleUser /\ shown' = GalleryOf(user.reader.read)
      /\ stale' = ~user.reader.clean
      /\ UNCHANGED <<gallery, matcher, root, builder, counts, people>>
  BY DEF UserShow
<1>2. /\ user.reader \in Readers /\ user.reader.read \in SUBSET Records
      /\ user.reader.clean \in BOOLEAN /\ root \in Trees \cup {NoRoot}
  BY <1>0 DEF GalleryTypes, Users, Readers
<1>3. user' \in Users /\ user'.pc = "idle"
  BY <1>1, IdleFacts
<1>4. UserReads(user', builder', gallery', matcher') /\ Writes(user', gallery')
  BY <1>3, NotReading, NotWriting DEF SavePcs, DeletePcs, ReadPcs
<1>5. builder.pc \in ReadPcs => ~builder.reader.clean
  BY <1>0, <1>1 DEF BuilderReads, ReadPcs
<1>6. BuilderReads(user', builder', gallery', matcher')
  BY <1>0, <1>1, <1>5 DEF BuilderReads
<1>7. Current(user', builder', gallery', matcher', shown', stale')
  <2>1. Shows(shown', user.reader.read)
    BY <1>1, <1>2, ShowsWhatItRead
  <2>2. ASSUME matcher /= NoFile, user.reader.clean
        PROVE  Accurate(gallery, {}, matcher.records) /\ matcher.records = user.reader.read
    BY <1>0, <1>1, <2>2 DEF UserReads, ReadPcs
  <2>3. QED
    BY <1>1, <1>2, <2>1, <2>2 DEF Current
<1>8. GalleryTypes'
  BY <1>0, <1>1, <1>2, <1>3 DEF GalleryTypes
<1>9. \A p \in Persons : Kept(gallery[p], people[p])'
  BY <1>1 DEF GalleryInv
<1>10. QED
  BY <1>4, <1>6, <1>7, <1>8, <1>9 DEF GalleryInv

-----------------------------------------------------------------------------
(* What writes the store.                                                  *)

\* One file of a person is replaced.
LEMMA DirField ==
    ASSUME NEW f \in Files, NEW b \in BOOLEAN
    PROVE  LET h == [f EXCEPT !.dir = b] IN h \in Files /\ h.dir = b /\ h.emb = f.emb /\ h.meta = f.meta
BY DEF Files

LEMMA EmbeddingsField ==
    ASSUME NEW f \in Files, NEW e \in Embeddings \cup {NoFile}
    PROVE  LET h == [f EXCEPT !.emb = e] IN h \in Files /\ h.dir = f.dir /\ h.emb = e /\ h.meta = f.meta
BY DEF Files

LEMMA MetadataField ==
    ASSUME NEW f \in Files, NEW m \in Metadata \cup {NoFile}
    PROVE  LET h == [f EXCEPT !.meta = m] IN h \in Files /\ h.dir = f.dir /\ h.emb = f.emb /\ h.meta = m
BY DEF Files

LEMMA IsNoDirectory ==
    ASSUME NEW h \in Files, h.dir = FALSE, h.emb = NoFile, h.meta = NoFile
    PROVE  h = NoDirectory
BY DEF NoDirectory, Files

\* A step of the user that writes to the store: the builder is disturbed, and
\* a save or a removal that ends in idle has left the view behind.
LEMMA StoreWritten ==
    ASSUME GalleryInv,
           gallery' \in [Persons -> Files], people' \in [Persons -> GalleryContents],
           \A p \in Persons : Kept(gallery'[p], people'[p]),
           user' \in Users, user'.pc \notin ReadPcs, Writes(user', gallery'),
           user'.pc = "idle" => stale', stale' \in BOOLEAN,
           counts' \in Counts, builder' = DisturbedBuilder, UNCHANGED <<matcher, root>>
    PROVE  GalleryInv'
<1>0. GalleryTypes /\ BuilderReads(user, builder, gallery, matcher)
  BY DEF GalleryInv
<1>1. /\ builder' \in Builders /\ builder'.pc = builder.pc /\ builder'.reader.clean = FALSE
      /\ builder'.reader.matcher = builder.reader.matcher
  BY <1>0, DisturbedBuilderFacts DEF GalleryTypes
<1>2. BuilderReads(user', builder', gallery', matcher)
  BY <1>0, <1>1, DisturbedReads
<1>3. UserReads(user', builder', gallery', matcher')
  BY NotReading
<1>4. Current(user', builder', gallery', matcher', shown', stale')
  BY DEF Current
<1>5. GalleryTypes'
  BY <1>0, <1>1 DEF GalleryTypes
<1>6. BuilderReads(user', builder', gallery', matcher')
  BY <1>2
<1>7. QED
  BY <1>3, <1>4, <1>5, <1>6 DEF GalleryInv

\* One person's file changes, and nobody else's.
LEMMA OneKept ==
    ASSUME GalleryInv, NEW p \in Persons, NEW f \in Files, NEW c \in GalleryContents, Kept(f, c),
           gallery' = [gallery EXCEPT ![p] = f], people' = [people EXCEPT ![p] = c]
    PROVE  /\ gallery' \in [Persons -> Files] /\ people' \in [Persons -> GalleryContents]
           /\ gallery'[p] = f
           /\ \A q \in Persons : Kept(gallery'[q], people'[q])
<1>1. gallery \in [Persons -> Files] /\ people \in [Persons -> GalleryContents]
  BY DEF GalleryInv, GalleryTypes
<1>2. \A q \in Persons : Kept(gallery[q], people[q])
  BY DEF GalleryInv
<1>3. /\ gallery' \in [Persons -> Files] /\ people' \in [Persons -> GalleryContents]
      /\ gallery'[p] = f /\ people'[p] = c
      /\ \A q \in Persons : q /= p => gallery'[q] = gallery[q] /\ people'[q] = people[q]
  BY <1>1
<1>4. ASSUME NEW q \in Persons PROVE Kept(gallery'[q], people'[q])
  <2>1. CASE q = p
    BY <1>3, <2>1
  <2>2. CASE q /= p
    BY <1>2, <1>3, <2>2
  <2>3. QED
    BY <2>1, <2>2
<1>5. QED
  BY <1>3, <1>4

LEMMA AfterSaveFacts ==
    ASSUME user \in Users, NEW ok \in BOOLEAN
    PROVE  /\ AfterSave(ok) \in Users
           /\ AfterSave(ok).pc \in {"next", "refresh", "idle"}
           /\ ok => AfterSave(ok).pc /= "idle"
<1>1. CASE user.op = "import"
  <2>1. AfterSave(ok) = [user EXCEPT !.pc = "next", !.person = NoFile, !.content = NoFile]
    BY <1>1 DEF AfterSave
  <2>2. QED
    BY <2>1 DEF Users, UserPcs, GalleryContents
<1>2. CASE user.op /= "import" /\ ok
  BY <1>2, IdleAt DEF AfterSave, UserPcs
<1>3. CASE user.op /= "import" /\ ~ok
  BY <1>3, IdleFacts DEF AfterSave
<1>4. QED
  BY <1>1, <1>2, <1>3

\* save() begins: the directory is made.
LEMMA BeginSaveInv ==
    ASSUME GalleryInv, NEW p \in Persons, NEW c \in Enrolments,
           gallery' = [gallery EXCEPT ![p].dir = TRUE], builder' = DisturbedBuilder,
           user' \in Users, user'.pc = "npz", user'.person = p, user'.content = c,
           counts' \in Counts, UNCHANGED <<matcher, root, people, stale>>
    PROVE  GalleryInv'
<1> DEFINE f == [gallery[p] EXCEPT !.dir = TRUE]
<1>0. GalleryTypes /\ Kept(gallery[p], people[p])
  BY DEF GalleryInv
<1>1. gallery[p] \in Files /\ people[p] \in GalleryContents /\ people' = [people EXCEPT ![p] = people[p]]
  BY <1>0 DEF GalleryTypes
<1>2. f \in Files /\ f.dir /\ f.emb = gallery[p].emb /\ f.meta = gallery[p].meta
  BY <1>1, DirField
<1>3. gallery' = [gallery EXCEPT ![p] = f]
  OBVIOUS
<1>4. Kept(f, people[p])
  BY <1>0, <1>2 DEF Kept
<1> HIDE DEF f
<1>5. /\ gallery' \in [Persons -> Files] /\ people' \in [Persons -> GalleryContents] /\ gallery'[p] = f
      /\ \A q \in Persons : Kept(gallery'[q], people'[q])
  BY <1>1, <1>2, <1>3, <1>4, OneKept
<1>6. Writes(user', gallery')
  BY <1>2, <1>5 DEF Writes, SavePcs, DeletePcs
<1>7. stale' \in BOOLEAN
  BY <1>0 DEF GalleryTypes
<1>8. QED
  BY <1>5, <1>6, <1>7, StoreWritten DEF ReadPcs

LEMMA WriteEmbeddingsInv == ASSUME GalleryInv, WriteEmbeddings PROVE GalleryInv'
<1> DEFINE p == user.person
           f == [gallery[p] EXCEPT !.emb = user.content.emb]
<1>0. /\ GalleryTypes /\ Writes(user, gallery) /\ user \in Users
      /\ user.pc = "npz" /\ builder' = DisturbedBuilder
      /\ stale' = (stale \/ user'.pc /= "meta") /\ UNCHANGED <<matcher, shown, root, counts, people>>
  BY DEF GalleryInv, GalleryTypes, WriteEmbeddings
<1>1. p \in Persons /\ gallery[p].dir /\ user.content \in Enrolments
  BY <1>0 DEF Writes, SavePcs
<1>2. /\ gallery[p] \in Files /\ people[p] \in GalleryContents /\ people' = [people EXCEPT ![p] = people[p]]
      /\ Kept(gallery[p], people[p]) /\ counts' \in Counts /\ stale' \in BOOLEAN
  BY <1>0, <1>1 DEF GalleryTypes, GalleryInv
<1>3. user.content.emb \in Embeddings
  BY <1>1, EnrolmentFacts
<1>4. CASE gallery' = [gallery EXCEPT ![user.person].emb = user.content.emb] /\ user' = [user EXCEPT !.pc = "meta"]
  <2>1. f \in Files /\ f.dir /\ f.meta = gallery[p].meta
    BY <1>1, <1>2, <1>3, EmbeddingsField
  <2>2. gallery' = [gallery EXCEPT ![p] = f]
    BY <1>4
  <2>3. Kept(f, people[p])
    BY <1>2, <2>1 DEF Kept
  <2>4. user' \in Users /\ user'.pc = "meta" /\ user'.person = p /\ user'.content = user.content
    BY <1>0, <1>4 DEF Users, UserPcs, SavePcs
  <2> HIDE DEF f
  <2>5. /\ gallery' \in [Persons -> Files] /\ people' \in [Persons -> GalleryContents] /\ gallery'[p] = f
        /\ \A q \in Persons : Kept(gallery'[q], people'[q])
    BY <1>1, <1>2, <2>1, <2>2, <2>3, OneKept
  <2> HIDE DEF p
  <2>6. Writes(user', gallery')
    BY <1>1, <2>1, <2>4, <2>5 DEF Writes, SavePcs, DeletePcs
  <2>7. QED
    BY <1>0, <1>2, <2>4, <2>5, <2>6, StoreWritten DEF ReadPcs
<1>5. CASE user' = AfterSave(FALSE) /\ UNCHANGED gallery
  <2>1. user' \in Users /\ user'.pc \in {"next", "refresh", "idle"}
    BY <1>0, <1>5, AfterSaveFacts
  <2>2. Writes(user', gallery')
    BY <2>1, NotWriting DEF SavePcs, DeletePcs
  <2>3. /\ gallery' \in [Persons -> Files] /\ people' \in [Persons -> GalleryContents]
        /\ \A q \in Persons : Kept(gallery'[q], people'[q])
    BY <1>0, <1>5 DEF GalleryTypes, GalleryInv
  <2>4. stale'
    BY <1>0, <2>1
  <2>5. QED
    BY <1>0, <1>2, <2>1, <2>2, <2>3, <2>4, StoreWritten DEF ReadPcs
<1>6. QED
  BY <1>4, <1>5 DEF WriteEmbeddings

LEMMA WriteMetadataInv == ASSUME GalleryInv, WriteMetadata PROVE GalleryInv'
<1> DEFINE p == user.person
           c == user.content
           m == [name |-> c.name, count |-> Cardinality(c.emb)]
           f == [gallery[p] EXCEPT !.meta = m]
<1>0. /\ GalleryTypes /\ Writes(user, gallery) /\ user \in Users
      /\ user.pc = "meta" /\ builder' = DisturbedBuilder /\ UNCHANGED <<matcher, shown, root, counts>>
  BY DEF GalleryInv, GalleryTypes, WriteMetadata
<1>1. p \in Persons /\ gallery[p].dir /\ c \in Enrolments
  BY <1>0 DEF Writes, SavePcs
<1>2. /\ gallery[p] \in Files /\ Kept(gallery[p], people[p]) /\ counts' \in Counts /\ stale \in BOOLEAN
  BY <1>0, <1>1 DEF GalleryTypes, GalleryInv
<1>3. m \in Metadata /\ c /= NoFile /\ c \in GalleryContents /\ m.name = c.name /\ m.count = Cardinality(c.emb)
  BY <1>1, EnrolmentFacts, NoFileAssumption DEF GalleryContents
<1>4. CASE /\ gallery' = [gallery EXCEPT ![user.person].meta =
                        [name |-> user.content.name, count |-> Cardinality(user.content.emb)]]
           /\ people' = [people EXCEPT ![user.person] = user.content]
           /\ user' = AfterSave(TRUE)
           /\ UNCHANGED stale
  <2>1. gallery' = [gallery EXCEPT ![p] = f] /\ people' = [people EXCEPT ![p] = c]
    BY <1>4
  <2> HIDE DEF m
  <2>2. f \in Files /\ f.dir /\ f.meta = m
    BY <1>1, <1>2, <1>3, MetadataField
  <2>3. Kept(f, c)
    BY <1>3, <2>2 DEF Kept
  <2> HIDE DEF f, c
  <2>4. /\ gallery' \in [Persons -> Files] /\ people' \in [Persons -> GalleryContents]
        /\ \A q \in Persons : Kept(gallery'[q], people'[q])
    BY <1>1, <1>3, <2>1, <2>2, <2>3, OneKept
  <2>5. user' \in Users /\ user'.pc \in {"next", "refresh"}
    BY <1>0, <1>4, AfterSaveFacts
  <2>6. Writes(user', gallery')
    BY <2>5, NotWriting DEF SavePcs, DeletePcs
  <2>7. stale' \in BOOLEAN
    BY <1>2, <1>4
  <2>8. QED
    BY <1>0, <1>2, <2>4, <2>5, <2>6, <2>7, StoreWritten DEF ReadPcs
<1>5. CASE user' = AfterSave(FALSE) /\ stale' = TRUE /\ UNCHANGED <<gallery, people>>
  <2>1. user' \in Users /\ user'.pc \in {"next", "refresh", "idle"}
    BY <1>0, <1>5, AfterSaveFacts
  <2>2. Writes(user', gallery')
    BY <2>1, NotWriting DEF SavePcs, DeletePcs
  <2>3. /\ gallery' \in [Persons -> Files] /\ people' \in [Persons -> GalleryContents]
        /\ \A q \in Persons : Kept(gallery'[q], people'[q])
    BY <1>0, <1>5 DEF GalleryTypes, GalleryInv
  <2>5. QED
    BY <1>0, <1>2, <1>5, <2>1, <2>2, <2>3, StoreWritten DEF ReadPcs
<1>6. QED
  BY <1>4, <1>5 DEF WriteMetadata

-----------------------------------------------------------------------------
(* Enrollment and removal.                                                 *)

LEMMA EnrollPersonInv ==
    ASSUME GalleryInv, NEW p \in Persons, NEW name \in Names, NEW accepted \in Accepted,
           NEW overwrite \in BOOLEAN, EnrollPerson(p, name, accepted, overwrite)
    PROVE  GalleryInv'
<1>0. /\ GalleryTypes /\ Starts /\ Counted /\ UNCHANGED <<matcher, shown, root, people, stale>>
  BY DEF GalleryInv, EnrollPerson
<1>1. counts' \in Counts /\ root' \in Trees \cup {NoRoot} /\ stale' \in BOOLEAN
  BY <1>0, CountedFacts DEF GalleryTypes
<1>2. CASE accepted = {}
  <2>1. user' = [IdleUser EXCEPT !.pc = "refresh"] /\ UNCHANGED <<gallery, builder>>
    BY <1>2 DEF EnrollPerson
  <2>2. user' \in Users /\ user'.pc = "refresh"
    BY <2>1, IdleAt DEF UserPcs
  <2>3. Writes(user', gallery)
    BY <2>2, NotWriting DEF SavePcs, DeletePcs
  <2>4. QED
    BY <1>0, <1>1, <2>1, <2>2, <2>3, UserMovesOn DEF ReadPcs
<1>3. CASE accepted /= {}
  <2> DEFINE c == [name |-> name, emb |-> accepted]
  <2>1. BeginSave(p, c)
    BY <1>3 DEF EnrollPerson
  <2>2. c \in Enrolments
    BY <1>3, GalleryAssumption DEF Enrolments
  <2> HIDE DEF c
  <2>3. user \in Users /\ c \in GalleryContents
    BY <1>0, <2>2 DEF GalleryTypes, GalleryContents
  <2>4. /\ user' = [user EXCEPT !.pc = "npz", !.person = p, !.content = c]
        /\ gallery' = [gallery EXCEPT ![p].dir = TRUE] /\ builder' = DisturbedBuilder
    BY <2>1 DEF BeginSave
  <2>5. user' \in Users /\ user'.pc = "npz" /\ user'.person = p /\ user'.content = c
    BY <2>3, <2>4 DEF Users, UserPcs, SavePcs
  <2>6. QED
    BY <1>0, <1>1, <2>2, <2>4, <2>5, BeginSaveInv
<1>4. QED
  BY <1>2, <1>3

\* merge() adds to what is stored.
LEMMA MergedFacts ==
    ASSUME GalleryTypes, NEW p \in Persons, NEW accepted \in Accepted, Loadable(p)
    PROVE  Merged(p, accepted) \in Embeddings
<1>1. gallery[p] \in Files
  BY DEF GalleryTypes
<1>2. OnDisk(p).emb = gallery[p].emb /\ gallery[p].emb \in Embeddings
  BY <1>1 DEF OnDisk, Loadable, Files
<1>3. accepted \in SUBSET Faces
  BY GalleryAssumption
<1>4. QED
  BY <1>2, <1>3 DEF Merged, Embeddings

LEMMA ImportFolderInv ==
    ASSUME GalleryInv, NEW p \in Persons, NEW accepted \in Accepted, ImportFolder(p, accepted)
    PROVE  GalleryInv'
<1> DEFINE rest == [user EXCEPT !.folders = @ \ {p}]
           Saves(emb) == /\ user' = [rest EXCEPT !.pc = "npz", !.person = p,
                                                !.content = [name |-> "id", emb |-> emb]]
                         /\ gallery' = [gallery EXCEPT ![p].dir = TRUE]
                         /\ builder' = DisturbedBuilder
<1>0. /\ GalleryTypes /\ user \in Users /\ user.pc = "next"
      /\ UNCHANGED <<matcher, shown, root, counts, people, stale>>
  BY DEF GalleryInv, GalleryTypes, ImportFolder
<1>1. counts' \in Counts /\ root' \in Trees \cup {NoRoot} /\ stale' \in BOOLEAN
  BY <1>0 DEF GalleryTypes
<1>2. rest \in Users /\ rest.pc = "next"
  BY <1>0 DEF Users
<1>3. ASSUME user' = rest, UNCHANGED <<gallery, builder>>
      PROVE  GalleryInv'
  <2>1. Writes(user', gallery)
    BY <1>2, <1>3, NotWriting DEF SavePcs, DeletePcs
  <2>2. user' \in Users /\ user'.pc = "next"
    BY <1>2, <1>3
  <2>3. QED
    BY <1>0, <1>1, <1>3, <2>1, <2>2, UserMovesOn DEF ReadPcs
<1>4. ASSUME NEW emb \in Embeddings, Saves(emb)
      PROVE  GalleryInv'
  <2> DEFINE c == [name |-> "id", emb |-> emb]
  <2>1. c \in Enrolments /\ c \in GalleryContents
    BY DEF Enrolments, Embeddings, Names, GalleryContents
  <2>2. /\ user' = [rest EXCEPT !.pc = "npz", !.person = p, !.content = c]
        /\ gallery' = [gallery EXCEPT ![p].dir = TRUE] /\ builder' = DisturbedBuilder
    BY <1>4
  <2> HIDE DEF c, rest
  <2>3. user' \in Users /\ user'.pc = "npz" /\ user'.person = p /\ user'.content = c
    BY <1>2, <2>1, <2>2 DEF Users, UserPcs, SavePcs
  <2>4. QED
    BY <1>0, <1>1, <2>1, <2>2, <2>3, BeginSaveInv
<1>5. accepted \in SUBSET Faces
  BY GalleryAssumption
<1>6. \/ user' = rest /\ UNCHANGED <<gallery, builder>>
      \/ \E emb \in Embeddings : Saves(emb)
  <2>1. CASE accepted = {}
    BY <2>1 DEF ImportFolder
  <2>2. CASE accepted /= {} /\ ~gallery[p].dir
    <3>1. Saves(accepted)
      BY <2>2 DEF ImportFolder
    <3>2. accepted \in Embeddings
      BY <1>5, <2>2 DEF Embeddings
    <3>3. QED
      BY <3>1, <3>2
  <2>3. CASE accepted /= {} /\ gallery[p].dir
    <3>1. CASE Loadable(p) /\ ~(accepted \subseteq OnDisk(p).emb)
      <4>1. Saves(Merged(p, accepted))
        BY <2>3, <3>1 DEF ImportFolder
      <4>2. Merged(p, accepted) \in Embeddings
        BY <1>0, <3>1, MergedFacts
      <4> HIDE DEF Saves
      <4>3. QED
        BY <4>1, <4>2
    <3>2. CASE ~(Loadable(p) /\ ~(accepted \subseteq OnDisk(p).emb))
      BY <2>3, <3>2 DEF ImportFolder
    <3>3. QED
      BY <3>1, <3>2
  <2>4. QED
    BY <2>1, <2>2, <2>3
<1> HIDE DEF rest, Saves
<1>7. QED
  BY <1>3, <1>4, <1>6

LEMMA DeleteInv == ASSUME GalleryInv, Delete PROVE GalleryInv'
<1> DEFINE p == user.person
           f == gallery[p]
<1>0. /\ GalleryTypes /\ Writes(user, gallery) /\ user \in Users
      /\ user.pc \in DeletePcs /\ builder' = DisturbedBuilder /\ UNCHANGED <<matcher, shown, root, counts>>
  BY DEF GalleryInv, GalleryTypes, Delete, DeletePcs
<1>1. p \in Persons /\ f.dir /\ f \in Files /\ Kept(f, people[p]) /\ people[p] \in GalleryContents
  BY <1>0 DEF Writes, GalleryTypes, GalleryInv
<1>2. counts' \in Counts /\ stale \in BOOLEAN /\ gallery \in [Persons -> Files] /\ people \in [Persons -> GalleryContents]
  BY <1>0 DEF GalleryTypes
<1>3. \A q \in Persons : Kept(gallery[q], people[q])
  BY DEF GalleryInv
<1>4. NoFile \in Metadata \cup {NoFile} /\ NoFile \in Embeddings \cup {NoFile} /\ NoFile \in GalleryContents
  BY DEF GalleryContents
<1>5. CASE /\ user.pc = "unlink_meta"
           /\ gallery' = [gallery EXCEPT ![user.person].meta = NoFile]
           /\ user' = [user EXCEPT !.pc = "unlink_npz"]
           /\ UNCHANGED <<people, stale>>
  <2> DEFINE h == [f EXCEPT !.meta = NoFile]
  <2>1. h \in Files /\ h.dir /\ h.meta = NoFile
    BY <1>1, <1>4, MetadataField
  <2>2. gallery' = [gallery EXCEPT ![p] = h] /\ people' = [people EXCEPT ![p] = people[p]]
    BY <1>1, <1>2, <1>5
  <2>3. Kept(h, people[p])
    BY <2>1 DEF Kept
  <2>4. user' \in Users /\ user'.pc = "unlink_npz" /\ user'.person = p
    BY <1>0, <1>5 DEF Users, UserPcs, DeletePcs
  <2> HIDE DEF h, f, p
  <2>5. /\ gallery' \in [Persons -> Files] /\ people' \in [Persons -> GalleryContents] /\ gallery'[p] = h
        /\ \A q \in Persons : Kept(gallery'[q], people'[q])
    BY <1>1, <2>1, <2>2, <2>3, OneKept
  <2>6. Writes(user', gallery')
    BY <1>1, <2>1, <2>4, <2>5 DEF Writes, SavePcs, DeletePcs
  <2>7. stale' \in BOOLEAN
    BY <1>2, <1>5
  <2>8. QED
    BY <1>0, <1>2, <2>4, <2>5, <2>6, <2>7, StoreWritten DEF ReadPcs
<1>6. CASE /\ user.pc = "unlink_npz"
           /\ gallery' = [gallery EXCEPT ![user.person].emb = NoFile]
           /\ user' = [user EXCEPT !.pc = "rmdir"]
           /\ UNCHANGED <<people, stale>>
  <2> DEFINE h == [f EXCEPT !.emb = NoFile]
  <2>1. h \in Files /\ h.dir /\ h.emb = NoFile /\ h.meta = f.meta /\ f.meta = NoFile
    BY <1>0, <1>1, <1>4, <1>6, EmbeddingsField DEF Writes
  <2>2. gallery' = [gallery EXCEPT ![p] = h] /\ people' = [people EXCEPT ![p] = people[p]]
    BY <1>1, <1>2, <1>6
  <2>3. Kept(h, people[p])
    BY <2>1 DEF Kept
  <2>4. user' \in Users /\ user'.pc = "rmdir" /\ user'.person = p
    BY <1>0, <1>6 DEF Users, UserPcs, DeletePcs
  <2> HIDE DEF h, f, p
  <2>5. /\ gallery' \in [Persons -> Files] /\ people' \in [Persons -> GalleryContents] /\ gallery'[p] = h
        /\ \A q \in Persons : Kept(gallery'[q], people'[q])
    BY <1>1, <2>1, <2>2, <2>3, OneKept
  <2>6. Writes(user', gallery')
    BY <1>1, <2>1, <2>4, <2>5 DEF Writes, SavePcs, DeletePcs
  <2>7. stale' \in BOOLEAN
    BY <1>2, <1>6
  <2>8. QED
    BY <1>0, <1>2, <2>4, <2>5, <2>6, <2>7, StoreWritten DEF ReadPcs
<1>7. CASE /\ user.pc = "rmdir"
           /\ gallery' = [gallery EXCEPT ![user.person].dir = FALSE]
           /\ people' = [people EXCEPT ![user.person] = NoFile]
           /\ user' = AfterDelete
           /\ UNCHANGED stale
  <2> DEFINE h == [f EXCEPT !.dir = FALSE]
  <2>1. /\ h \in Files /\ h.dir = FALSE /\ h.emb = f.emb /\ h.meta = f.meta
        /\ f.emb = NoFile /\ f.meta = NoFile
    BY <1>0, <1>1, <1>7, DirField DEF Writes
  <2>2. gallery' = [gallery EXCEPT ![p] = h] /\ people' = [people EXCEPT ![p] = NoFile]
    BY <1>7
  <2>3. h = NoDirectory
    BY <2>1, IsNoDirectory
  <2>4. Kept(h, NoFile)
    BY <2>1, <2>3 DEF Kept
  <2>5. user' \in Users /\ user'.pc = "refresh"
    BY <1>7, IdleAt DEF AfterDelete, UserPcs
  <2> HIDE DEF h, f, p
  <2>6. /\ gallery' \in [Persons -> Files] /\ people' \in [Persons -> GalleryContents]
        /\ \A q \in Persons : Kept(gallery'[q], people'[q])
    BY <1>1, <1>4, <2>1, <2>2, <2>4, OneKept
  <2>7. Writes(user', gallery')
    BY <2>5, NotWriting DEF SavePcs, DeletePcs
  <2>8. stale' \in BOOLEAN
    BY <1>2, <1>7
  <2>9. QED
    BY <1>0, <1>2, <2>5, <2>6, <2>7, <2>8, StoreWritten DEF ReadPcs
<1>8. CASE user' = IdleUser /\ stale' = TRUE /\ UNCHANGED <<gallery, people>>
  <2>1. user' \in Users /\ user'.pc = "idle"
    BY <1>8, IdleFacts
  <2>2. Writes(user', gallery')
    BY <2>1, NotWriting DEF SavePcs, DeletePcs
  <2>3. QED
    BY <1>0, <1>2, <1>3, <1>8, <2>1, <2>2, StoreWritten DEF ReadPcs
<1>9. QED
  BY <1>5, <1>6, <1>7, <1>8 DEF Delete

-----------------------------------------------------------------------------
(* The face thread.                                                        *)

LEMMA BuildRuntimeInv == ASSUME GalleryInv, BuildRuntime PROVE GalleryInv'
<1>0. /\ GalleryTypes /\ Writes(user, gallery) /\ user \in Users /\ builder \in Builders
  BY DEF GalleryInv, GalleryTypes
<1>1. /\ counts.builds < MaxBuilds /\ counts' = [counts EXCEPT !.builds = counts.builds + 1]
      /\ builder' = [builder EXCEPT !.pc = "construct", !.reader = StartReader(counts.builds + 1, FALSE)]
      /\ user' = DisturbedUser /\ UNCHANGED <<gallery, matcher, shown, root, people, stale>>
  BY DEF BuildRuntime
<1>2. counts \in Counts /\ counts.builds \in 0 .. MaxBuilds /\ MaxBuilds \in Nat
  BY <1>0, GalleryAssumption DEF GalleryTypes, Counts
<1>3. counts.builds + 1 \in 0 .. MaxBuilds /\ counts.builds + 1 \in Nat
  BY <1>1, <1>2
<1>4. counts' \in Counts
  BY <1>1, <1>2, <1>3 DEF Counts
<1>5. StartReader(counts.builds + 1, FALSE) \in Readers
  BY <1>3, StartReaderFacts
<1>6. builder' \in Builders /\ builder'.pc = "construct"
  BY <1>0, <1>1, <1>5 DEF Builders
<1>7. /\ user' \in Users /\ user'.pc = user.pc /\ user'.person = user.person
      /\ user'.content = user.content /\ user'.reader.clean = FALSE
  BY <1>0, <1>1, DisturbedUserFacts
<1>8. UserReads(user', builder', gallery', matcher')
  BY <1>7, NotReading
<1>9. BuilderReads(user', builder', gallery', matcher') /\ Current(user', builder', gallery', matcher', shown', stale')
  BY <1>6 DEF BuilderReads, Current, ReadPcs
<1>10. Writes(user', gallery')
  BY <1>0, <1>1, <1>7 DEF Writes
<1>11. GalleryTypes' /\ \A p \in Persons : Kept(gallery[p], people[p])'
  BY <1>0, <1>1, <1>4, <1>6, <1>7 DEF GalleryTypes, GalleryInv
<1>12. QED
  BY <1>8, <1>9, <1>10, <1>11 DEF GalleryInv

\* While the face thread builds or reads, the main thread reads disturbed.
LEMMA UserIsDisturbed ==
    ASSUME GalleryInv, builder.pc \in {"construct", "load", "show"}, NEW b, NEW g, NEW m
    PROVE  UserReads(user, b, g, m)
BY DEF GalleryInv, UserReads

LEMMA ConstructInv == ASSUME GalleryInv, Construct PROVE GalleryInv'
<1>0. /\ GalleryTypes /\ Writes(user, gallery) /\ builder \in Builders
      /\ builder.reader \in Readers /\ builder.pc = "construct"
      /\ UNCHANGED <<gallery, shown, root, user, counts, people, stale>>
  BY DEF GalleryInv, GalleryTypes, Construct, Builders
<1>1. /\ builder' \in Builders /\ builder'.pc \in {"construct", "refresh"}
      /\ matcher' /= NoFile => matcher' \in Matchers
  <2>1. CASE builder.reader.todo = {}
    <3>1. /\ matcher' = [id |-> builder.reader.matcher, records |-> builder.reader.read]
          /\ builder' = [builder EXCEPT !.pc = "refresh"]
      BY <2>1 DEF Construct
    <3>2. matcher' \in Matchers
      BY <1>0, <3>1 DEF Matchers, Readers
    <3>3. QED
      BY <1>0, <3>1, <3>2 DEF Builders
  <2>2. CASE builder.reader.todo /= {}
    <3>1. PICK p \in builder.reader.todo :
            builder' = IF Loadable(p) THEN [builder EXCEPT !.reader = LoadedOne(@, p)]
                       ELSE [builder EXCEPT !.pc = "refresh"]
      BY <2>2 DEF Construct
    <3>2. UNCHANGED matcher
      BY <2>2 DEF Construct
    <3>3. CASE Loadable(p)
      <4>1. LoadedOne(builder.reader, p) \in Readers
        BY <1>0, <3>3, LoadedOneFacts
      <4>2. builder' = [builder EXCEPT !.reader = LoadedOne(builder.reader, p)]
        BY <3>1, <3>3
      <4>3. QED
        BY <1>0, <3>2, <4>1, <4>2 DEF Builders, GalleryTypes
    <3>4. CASE ~Loadable(p)
      <4>1. builder' = [builder EXCEPT !.pc = "refresh"]
        BY <3>1, <3>4
      <4>2. QED
        BY <1>0, <3>2, <4>1 DEF Builders, GalleryTypes
    <3>5. QED
      BY <3>3, <3>4
  <2>3. QED
    BY <2>1, <2>2
<1>2. UserReads(user, builder', gallery', matcher')
  BY <1>0, UserIsDisturbed
<1>3. UserReads(user', builder', gallery', matcher')
  BY <1>0, <1>2
<1>4. BuilderReads(user', builder', gallery', matcher') /\ Current(user', builder', gallery', matcher', shown', stale')
  BY <1>1 DEF BuilderReads, Current, ReadPcs
<1>5. Writes(user', gallery')
  BY <1>0
<1>6. GalleryTypes' /\ \A p \in Persons : Kept(gallery[p], people[p])'
  BY <1>0, <1>1 DEF GalleryTypes, GalleryInv
<1>7. QED
  BY <1>3, <1>4, <1>5, <1>6 DEF GalleryInv

LEMMA BuilderRefreshInv == ASSUME GalleryInv, BuilderRefresh PROVE GalleryInv'
<1>0. /\ GalleryTypes /\ Writes(user, gallery) /\ user \in Users /\ builder \in Builders
      /\ user' = DisturbedUser /\ UNCHANGED <<gallery, matcher, root, counts, people, stale>>
  BY DEF GalleryInv, GalleryTypes, BuilderRefresh
<1>1. /\ user' \in Users /\ user'.pc = user.pc /\ user'.person = user.person
      /\ user'.content = user.content /\ user'.reader.clean = FALSE
  BY <1>0, DisturbedUserFacts
<1>2. UserReads(user', builder', gallery', matcher')
  BY <1>1, NotReading
<1>3. Writes(user', gallery')
  BY <1>0, <1>1 DEF Writes
<1>4. \A p \in Persons : Kept(gallery[p], people[p])'
  BY <1>0 DEF GalleryInv
<1>5. /\ builder' \in Builders /\ BuilderReads(user', builder', gallery', matcher')
      /\ Current(user', builder', gallery', matcher', shown', stale')
  <2>1. CASE matcher = NoFile
    <3>1. builder' = [IdleBuilder EXCEPT !.pc = "on"]
      BY <2>1 DEF BuilderRefresh
    <3>2. builder' \in Builders /\ builder'.pc = "on"
      BY <3>1, IdleFacts DEF Builders
    <3>3. QED
      BY <1>0, <2>1, <3>2 DEF BuilderReads, Current, ReadPcs
  <2>2. CASE matcher /= NoFile
    <3> DEFINE clean == ~Writing /\ ~Reading(user.pc)
               r     == StartReader(matcher.id, clean)
    <3>1. builder' = [builder EXCEPT !.pc = "load", !.reader = r]
      BY <2>2 DEF BuilderRefresh
    <3>2. matcher.id \in Nat /\ clean \in BOOLEAN
      BY <1>0, <2>2 DEF GalleryTypes, Matchers
    <3>3. clean => user.pc \notin ReadPcs
      BY DEF Reading, ReadPcs
    <3> HIDE DEF clean
    <3>4. r \in Readers /\ r.matcher = matcher.id /\ r.clean = clean /\ Accurate(gallery, r.todo, r.read)
      BY <3>2, StartReaderFacts
    <3> HIDE DEF r
    <3>5. builder' \in Builders /\ builder'.pc = "load" /\ builder'.reader = r
      BY <1>0, <3>1, <3>4 DEF Builders, ReadPcs
    <3>6. BuilderReads(user', builder', gallery', matcher')
      BY <1>0, <1>1, <3>3, <3>4, <3>5 DEF BuilderReads
    <3>7. Current(user', builder', gallery', matcher', shown', stale')
      BY <3>5 DEF Current
    <3>8. QED
      BY <3>5, <3>6, <3>7
  <2>3. QED
    BY <2>1, <2>2
<1>6. GalleryTypes'
  BY <1>0, <1>1, <1>5 DEF GalleryTypes
<1>7. QED
  BY <1>2, <1>3, <1>4, <1>5, <1>6 DEF GalleryInv

LEMMA BuilderLoadInv == ASSUME GalleryInv, BuilderLoad PROVE GalleryInv'
<1>0. /\ GalleryTypes /\ Writes(user, gallery) /\ BuilderReads(user, builder, gallery, matcher)
      /\ builder \in Builders /\ builder.reader \in Readers /\ builder.pc = "load"
      /\ UNCHANGED <<gallery, root, user, counts, people>>
  BY DEF GalleryInv, GalleryTypes, BuilderLoad, Builders
<1>1. UserReads(user, builder', gallery', matcher')
  BY <1>0, UserIsDisturbed
<1>2. /\ UserReads(user', builder', gallery', matcher') /\ Writes(user', gallery')
      /\ \A p \in Persons : Kept(gallery[p], people[p])'
  BY <1>0, <1>1 DEF GalleryInv
<1>3. CASE builder.reader.todo = {}
  <2>1. builder' = [builder EXCEPT !.pc = "show"] /\ Assign(builder.reader) /\ UNCHANGED <<shown, stale>>
    BY <1>3 DEF BuilderLoad
  <2>2. builder' \in Builders /\ builder'.pc = "show" /\ builder'.reader = builder.reader
    BY <1>0, <2>1 DEF Builders, ReadPcs
  <2>3. /\ matcher' /= NoFile => matcher /= NoFile /\ matcher' \in Matchers /\ matcher'.id = matcher.id
        /\ matcher' /= NoFile /\ matcher.id = builder.reader.matcher => matcher'.records = builder.reader.read
    BY <1>0, <2>1, AssignFacts
  <2>4. BuilderReads(user', builder', gallery', matcher')
    BY <1>0, <1>3, <2>2, <2>3 DEF BuilderReads, ReadPcs
  <2>5. Current(user', builder', gallery', matcher', shown', stale')
    BY <2>2 DEF Current
  <2>6. GalleryTypes'
    BY <1>0, <2>1, <2>2, <2>3 DEF GalleryTypes
  <2>7. QED
    BY <1>2, <2>4, <2>5, <2>6 DEF GalleryInv
<1>4. CASE builder.reader.todo /= {}
  <2>1. PICK p \in builder.reader.todo :
            IF Loadable(p)
              THEN /\ builder' = [builder EXCEPT !.reader = LoadedOne(@, p)]
                   /\ UNCHANGED <<matcher, shown, stale>>
              ELSE /\ builder' = [IdleBuilder EXCEPT !.pc = "on"]
                   /\ stale' = TRUE
                   /\ UNCHANGED matcher
    BY <1>4 DEF BuilderLoad
  <2>2. UNCHANGED matcher
    BY <2>1
  <2>3. CASE Loadable(p)
    <3> DEFINE r == LoadedOne(builder.reader, p)
    <3>1. /\ r \in Readers /\ r.matcher = builder.reader.matcher /\ r.clean = builder.reader.clean
          /\ Accurate(gallery, builder.reader.todo, builder.reader.read) => Accurate(gallery, r.todo, r.read)
      BY <1>0, <2>3, LoadedOneFacts
    <3>2. builder' = [builder EXCEPT !.reader = r] /\ UNCHANGED <<shown, stale>>
      BY <2>1, <2>3
    <3> HIDE DEF r
    <3>3. builder' \in Builders /\ builder'.pc = "load" /\ builder'.reader = r
      BY <1>0, <3>1, <3>2 DEF Builders
    <3>4. BuilderReads(user', builder', gallery', matcher')
      BY <1>0, <2>2, <3>1, <3>3 DEF BuilderReads, ReadPcs
    <3>5. Current(user', builder', gallery', matcher', shown', stale')
      BY <3>3 DEF Current
    <3>6. GalleryTypes'
      BY <1>0, <2>2, <3>2, <3>3 DEF GalleryTypes
    <3>7. QED
      BY <1>2, <3>4, <3>5, <3>6 DEF GalleryInv
  <2>4. CASE ~Loadable(p)
    <3>1. builder' = [IdleBuilder EXCEPT !.pc = "on"] /\ stale' = TRUE
      BY <2>1, <2>4
    <3>2. builder' \in Builders /\ builder'.pc = "on"
      BY <3>1, IdleFacts DEF Builders
    <3>3. BuilderReads(user', builder', gallery', matcher')
      BY <3>2 DEF BuilderReads, ReadPcs
    <3>4. Current(user', builder', gallery', matcher', shown', stale')
      BY <3>1 DEF Current
    <3>5. GalleryTypes'
      BY <1>0, <2>2, <3>1, <3>2 DEF GalleryTypes
    <3>6. QED
      BY <1>2, <3>3, <3>4, <3>5 DEF GalleryInv
  <2>5. QED
    BY <2>3, <2>4
<1>5. QED
  BY <1>3, <1>4

LEMMA BuilderShowInv == ASSUME GalleryInv, BuilderShow PROVE GalleryInv'
<1>0. /\ GalleryTypes /\ Writes(user, gallery) /\ BuilderReads(user, builder, gallery, matcher)
      /\ builder.pc = "show" /\ builder' = [IdleBuilder EXCEPT !.pc = "on"]
      /\ shown' = GalleryOf(builder.reader.read) /\ stale' = ~builder.reader.clean
      /\ UNCHANGED <<gallery, matcher, root, user, counts, people>>
  BY DEF GalleryInv, BuilderShow
<1>1. /\ builder.reader.read \in SUBSET Records /\ builder.reader.clean \in BOOLEAN
      /\ root \in Trees \cup {NoRoot}
  BY <1>0 DEF GalleryTypes, Builders, Readers
<1>2. UserReads(user, builder', gallery', matcher')
  BY <1>0, UserIsDisturbed
<1>3. /\ UserReads(user', builder', gallery', matcher') /\ Writes(user', gallery')
      /\ \A p \in Persons : Kept(gallery[p], people[p])'
  BY <1>0, <1>2 DEF GalleryInv
<1>4. builder' \in Builders /\ builder'.pc = "on"
  BY <1>0, IdleFacts DEF Builders
<1>5. BuilderReads(user', builder', gallery', matcher')
  BY <1>4 DEF BuilderReads, ReadPcs
<1>6. Shows(shown', builder.reader.read)
  BY <1>0, <1>1, ShowsWhatItRead
<1>7. ASSUME matcher /= NoFile, builder.reader.clean
      PROVE  Accurate(gallery, {}, matcher.records) /\ matcher.records = builder.reader.read
  BY <1>0, <1>7 DEF BuilderReads, ReadPcs
<1>8. Current(user', builder', gallery', matcher', shown', stale')
  BY <1>0, <1>1, <1>6, <1>7 DEF Current
<1>9. GalleryTypes'
  BY <1>0, <1>1, <1>4 DEF GalleryTypes
<1>10. QED
  BY <1>3, <1>5, <1>8, <1>9 DEF GalleryInv

LEMMA CloseRuntimeInv == ASSUME GalleryInv, CloseRuntime PROVE GalleryInv'
<1>0. /\ GalleryTypes /\ Writes(user, gallery) /\ UserReads(user, builder, gallery, matcher)
      /\ builder' = IdleBuilder /\ matcher' = NoFile
      /\ UNCHANGED <<gallery, shown, root, user, counts, people, stale>>
  BY DEF GalleryInv, CloseRuntime
<1>1. builder' \in Builders /\ builder'.pc = "off"
  BY <1>0, IdleFacts
<1>2. UserReads(user', builder', gallery', matcher')
  BY <1>0, <1>1 DEF UserReads
<1>3. BuilderReads(user', builder', gallery', matcher') /\ Current(user', builder', gallery', matcher', shown', stale')
  BY <1>1 DEF BuilderReads, Current, ReadPcs
<1>4. Writes(user', gallery') /\ \A p \in Persons : Kept(gallery[p], people[p])'
  BY <1>0 DEF GalleryInv
<1>5. GalleryTypes'
  BY <1>0, <1>1 DEF GalleryTypes
<1>6. QED
  BY <1>2, <1>3, <1>4, <1>5 DEF GalleryInv

LEMMA RestartInv == ASSUME GalleryInv, Restart PROVE GalleryInv'
<1>0. /\ GalleryTypes /\ counts.restarts < MaxRestarts
      /\ counts' = [counts EXCEPT !.restarts = counts.restarts + 1]
      /\ user' = IdleUser /\ builder' = IdleBuilder /\ matcher' = NoFile /\ stale' = FALSE
      /\ UNCHANGED <<gallery, root, people>>
  BY DEF GalleryInv, Restart
<1>1. counts \in Counts /\ counts.restarts \in 0 .. MaxRestarts /\ MaxRestarts \in Nat
  BY <1>0, GalleryAssumption DEF GalleryTypes, Counts
<1>2. counts.restarts + 1 \in 0 .. MaxRestarts
  BY <1>0, <1>1
<1>3. counts' \in Counts
  BY <1>0, <1>1, <1>2 DEF Counts
<1>4. user' \in Users /\ user'.pc = "idle" /\ builder' \in Builders /\ builder'.pc = "off"
  BY <1>0, IdleFacts
<1>5. UserReads(user', builder', gallery', matcher') /\ Writes(user', gallery')
  BY <1>4, NotReading, NotWriting DEF SavePcs, DeletePcs, ReadPcs
<1>6. BuilderReads(user', builder', gallery', matcher') /\ Current(user', builder', gallery', matcher', shown', stale')
  BY <1>4 DEF BuilderReads, Current, ReadPcs
<1>7. GalleryTypes' /\ \A p \in Persons : Kept(gallery[p], people[p])'
  BY <1>0, <1>3, <1>4 DEF GalleryTypes, GalleryInv
<1>8. QED
  BY <1>5, <1>6, <1>7 DEF GalleryInv

-----------------------------------------------------------------------------
(* The theorems.                                                           *)

LEMMA GalleryInitInv == GalleryInit => GalleryInv
<1> SUFFICES ASSUME GalleryInit PROVE GalleryInv
  OBVIOUS
<1>1. PICK first \in {NoFile} \cup {[name |-> "typed", emb |-> {f}] : f \in Faces} :
           people = [p \in Persons |-> first]
  BY DEF GalleryInit
<1>2. first \in GalleryContents
  BY DEF GalleryContents, Enrolments, Names
<1>3. StoredAs(first) \in Files /\ Kept(StoredAs(first), first)
  <2>1. CASE first = NoFile
    BY <2>1 DEF StoredAs, NoDirectory, Files, Kept
  <2>2. CASE first /= NoFile
    <3> DEFINE m == [name |-> first.name, count |-> Cardinality(first.emb)]
    <3>1. first \in Enrolments
      BY <1>2, <2>2 DEF GalleryContents
    <3>2. first.emb \in Embeddings /\ m \in Metadata
      BY <3>1, EnrolmentFacts
    <3>3. StoredAs(first) = [dir |-> TRUE, emb |-> first.emb, meta |-> m]
      BY <2>2 DEF StoredAs
    <3>4. m.name = first.name /\ m.count = Cardinality(first.emb)
      OBVIOUS
    <3> HIDE DEF m
    <3>5. StoredAs(first) \in Files
      BY <3>2, <3>3 DEF Files
    <3>6. Kept(StoredAs(first), first)
      BY <2>2, <3>3, <3>4 DEF Kept
    <3>7. QED
      BY <3>5, <3>6
  <2>3. QED
    BY <2>1, <2>2
<1>4. gallery = [p \in Persons |-> StoredAs(first)]
  BY <1>1 DEF GalleryInit
<1>5. /\ gallery \in [Persons -> Files] /\ people \in [Persons -> GalleryContents]
      /\ \A p \in Persons : Kept(gallery[p], people[p])
  BY <1>1, <1>2, <1>3, <1>4
<1>6. /\ user = IdleUser /\ builder = IdleBuilder /\ matcher = NoFile
      /\ root \in Trees \cup {NoRoot} /\ stale = FALSE
      /\ counts = [operations |-> 0, builds |-> 0, restarts |-> 0]
  BY DEF GalleryInit
<1>7. counts \in Counts
  BY <1>6, GalleryAssumption DEF Counts
<1>8. /\ user \in Users /\ user.pc = "idle" /\ builder \in Builders /\ builder.pc = "off"
  BY <1>6, IdleFacts
<1>9. UserReads(user, builder, gallery, matcher) /\ Writes(user, gallery)
  BY <1>8, NotReading, NotWriting DEF SavePcs, DeletePcs, ReadPcs
<1>10. BuilderReads(user, builder, gallery, matcher) /\ Current(user, builder, gallery, matcher, shown, stale)
  BY <1>8 DEF BuilderReads, Current, ReadPcs
<1>11. GalleryTypes
  BY <1>5, <1>6, <1>7, <1>8 DEF GalleryTypes
<1>12. QED
  BY <1>5, <1>9, <1>10, <1>11 DEF GalleryInv

LEMMA GalleryNextInv == GalleryInv /\ [GalleryNext]_galleryVars => GalleryInv'
<1> SUFFICES ASSUME GalleryInv, [GalleryNext]_galleryVars PROVE GalleryInv'
  OBVIOUS
<1>1. CASE UNCHANGED galleryVars
  BY <1>1 DEF galleryVars, GalleryInv, GalleryTypes
<1>2. CASE \/ Refresh \/ SetRoot \/ OperationRefresh \/ UserLoad \/ UserShow
           \/ WriteEmbeddings \/ WriteMetadata
  BY <1>2, RefreshInv, SetRootInv, OperationRefreshInv, UserLoadInv, UserShowInv, WriteEmbeddingsInv,
     WriteMetadataInv
<1>3. CASE \E p \in Persons, name \in Names, accepted \in Accepted, overwrite \in BOOLEAN :
             EnrollPerson(p, name, accepted, overwrite)
  BY <1>3, EnrollPersonInv
<1>4. CASE ImportEnrollment \/ ImportEnds \/ Delete
  BY <1>4, ImportEnrollmentInv, ImportEndsInv, DeleteInv
<1>5. CASE \E p \in Persons, accepted \in Accepted : ImportFolder(p, accepted)
  BY <1>5, ImportFolderInv
<1>6. CASE \E p \in Persons : RemovePerson(p)
  BY <1>6, RemovePersonInv
<1>7. CASE \/ BuildRuntime \/ Construct \/ BuilderRefresh \/ BuilderLoad \/ BuilderShow \/ CloseRuntime
           \/ Restart
  BY <1>7, BuildRuntimeInv, ConstructInv, BuilderRefreshInv, BuilderLoadInv, BuilderShowInv,
     CloseRuntimeInv, RestartInv
<1>8. QED
  BY <1>1, <1>2, <1>3, <1>4, <1>5, <1>6, <1>7 DEF GalleryNext

\* The two threads, the store and what is shown of it agree after every step,
\* whatever write, unlink or load failed and wherever the process ended.
THEOREM GalleryAgrees == GallerySpec => []GalleryInv
<1>1. GallerySpec => GalleryInit /\ [][GalleryNext]_galleryVars
  BY DEF GallerySpec
<1>2. QED
  BY <1>1, GalleryInitInv, GalleryNextInv, PTL

LEMMA GalleryInvTyped == GalleryInv => GalleryTypeOK
<1> SUFFICES ASSUME GalleryInv PROVE GalleryTypeOK
  OBVIOUS
<1>1. GalleryTypes
  BY DEF GalleryInv
<1>2. ASSUME NEW p \in Persons
      PROVE  /\ gallery[p].dir \in BOOLEAN
             /\ gallery[p].emb \in ((SUBSET Faces) \ {{}}) \cup {NoFile}
             /\ gallery[p].meta \in Metadata \cup {NoFile}
             /\ ~gallery[p].dir => gallery[p] = NoDirectory
             /\ people[p] \in Enrolments \cup {NoFile}
  <2>1. gallery[p] \in Files /\ people[p] \in GalleryContents
    BY <1>1 DEF GalleryTypes
  <2>2. Kept(gallery[p], people[p])
    BY DEF GalleryInv
  <2>3. QED
    BY <2>1, <2>2 DEF Files, Embeddings, GalleryContents, Kept
<1>3. root \in Trees \cup {NoRoot} /\ stale \in BOOLEAN /\ counts \in Counts
  BY <1>1 DEF GalleryTypes
<1>4. QED
  BY <1>2, <1>3 DEF GalleryTypeOK, Counts

\* What the matcher knows is the file's content.
LEMMA KnownFacts ==
    ASSUME GalleryTypes, Accurate(gallery, {}, matcher.records), NEW p \in Persons,
           Kept(gallery[p], people[p])
    PROVE  \/ ~gallery[p].dir /\ Known(p) = NoFile /\ people[p] = NoFile
           \/ /\ gallery[p].dir /\ Known(p) = Content(gallery[p]) /\ Known(p) /= NoFile
              /\ Readable(gallery[p]) /\ people[p] /= NoFile
<1> DEFINE rs == {r \in matcher.records : r.person = p}
<1>1. matcher.records = {RecordIn(gallery, q) : q \in Dirs(gallery)}
  BY DEF Accurate
<1>2. \A q \in Persons : RecordIn(gallery, q).person = q
  BY DEF RecordIn
<1>3. CASE ~gallery[p].dir
  <2>1. rs = {}
    BY <1>1, <1>2, <1>3 DEF Dirs
  <2>2. people[p] = NoFile
    BY <1>3 DEF Kept
  <2>3. QED
    BY <1>3, <2>1, <2>2 DEF Known
<1>4. CASE gallery[p].dir
  <2>1. p \in Dirs(gallery) /\ Readable(gallery[p])
    BY <1>4 DEF Dirs, Accurate
  <2>2. rs = {RecordIn(gallery, p)}
    BY <1>1, <1>2, <2>1 DEF Dirs
  <2>3. Known(p) = RecordIn(gallery, p).content
    BY <2>2 DEF Known
  <2>4. RecordIn(gallery, p).content = Content(gallery[p])
    BY DEF RecordIn
  <2>5. Content(gallery[p]) \in Enrolments
    BY <2>1, ReadableFacts DEF GalleryTypes
  <2>6. people[p] /= NoFile
    BY <2>1 DEF Readable, Kept
  <2>7. QED
    BY <1>4, <2>1, <2>3, <2>4, <2>5, <2>6, NoFileAssumption
<1>5. QED
  BY <1>3, <1>4

\* The gallery that recognises people is the one that was saved.
THEOREM GalleryAlwaysFollows == GallerySpec => []GalleryFollowsStore
<1>1. GalleryInv => GalleryFollowsStore
  <2> SUFFICES ASSUME GalleryInv, user.pc = "idle", builder.pc = "on", matcher /= NoFile, ~stale
               PROVE  /\ \A p \in Persons :
                           \/ Known(p) = people[p]
                           \/ /\ Known(p) /= NoFile /\ people[p] /= NoFile
                              /\ Known(p).name = people[p].name
                              /\ Cardinality(Known(p).emb) = Cardinality(people[p].emb)
                              /\ Known(p) = OnDisk(p)
                      /\ shown.persons = matcher.records
                      /\ \A r \in matcher.records : shown.rows[r.person] /= NoFile /\ shown.rows[r.person].active
    BY DEF GalleryFollowsStore
  <2>1. GalleryTypes /\ Accurate(gallery, {}, matcher.records) /\ Shows(shown, matcher.records)
    BY DEF GalleryInv, Current
  <2>2. ASSUME NEW p \in Persons
        PROVE  \/ Known(p) = people[p]
               \/ /\ Known(p) /= NoFile /\ people[p] /= NoFile
                  /\ Known(p).name = people[p].name
                  /\ Cardinality(Known(p).emb) = Cardinality(people[p].emb)
                  /\ Known(p) = OnDisk(p)
    <3>1. Kept(gallery[p], people[p])
      BY DEF GalleryInv
    <3>2. CASE Known(p) = NoFile /\ people[p] = NoFile
      BY <3>2
    <3>3. CASE /\ Known(p) = Content(gallery[p]) /\ Known(p) /= NoFile
               /\ Readable(gallery[p]) /\ people[p] /= NoFile
      <4>1. OnDisk(p) = Content(gallery[p])
        BY <3>3 DEF OnDisk, Loadable, Readable, Content
      <4>2. Known(p).name = gallery[p].meta.name /\ Known(p).emb = gallery[p].emb
        BY <3>3 DEF Content
      <4>3. /\ gallery[p].meta.name = people[p].name /\ gallery[p].meta.count = Cardinality(people[p].emb)
            /\ gallery[p].meta.count = Cardinality(gallery[p].emb)
        BY <3>1, <3>3 DEF Kept, Readable
      <4>4. QED
        BY <3>3, <4>1, <4>2, <4>3
    <3>4. QED
      BY <2>1, <3>1, <3>2, <3>3, KnownFacts
  <2>3. QED
    BY <2>1, <2>2 DEF Shows
<1>2. QED
  BY <1>1, GalleryAgrees, PTL

-----------------------------------------------------------------------------
(* The node.                                                               *)

\* The parts share no variable, and one that is not the behaviour's stands
\* still: each keeps its own invariant in every behaviour of the node.
NodeInv == RuntimeInv /\ EventsInv /\ DetectorsInv /\ FacesInv /\ GalleryInv

LEMMA NodeInitInv == NodeInit => NodeInv
<1> SUFFICES ASSUME NodeInit PROVE NodeInv
  OBVIOUS
<1>1. RuntimeInit /\ EventsInit /\ DetectorsInit /\ FacesInit /\ GalleryInit
  BY DEF NodeInit
<1>2. QED
  BY <1>1, RuntimeInitInv, EventsInitInv, DetectorsInitInv, FacesInitInv, GalleryInitInv DEF NodeInv

LEMMA NodeNextInv == NodeInv /\ [NodeNext]_nodeVars => NodeInv'
<1> SUFFICES ASSUME NodeInv, [NodeNext]_nodeVars PROVE NodeInv'
  OBVIOUS
<1>1. /\ [RuntimeNext]_runtimeVars /\ [EventsNext]_eventVars /\ [DetectorsNext]_detectorVars
      /\ [FacesNext]_faceVars /\ [GalleryNext]_galleryVars
  BY DEF NodeNext, nodeVars
<1>2. RuntimeInv /\ EventsInv /\ DetectorsInv /\ FacesInv /\ GalleryInv
  BY DEF NodeInv
<1>3. /\ RuntimeInv' /\ EventsInv' /\ DetectorsInv' /\ FacesInv' /\ GalleryInv'
  BY <1>1, <1>2, RuntimeNextInv, EventsNextInv, DetectorsNextInv, FacesNextInv, GalleryNextInv
<1>4. QED
  BY <1>3 DEF NodeInv

\* Whatever part a behaviour of the node is about, all of them keep their
\* inductive invariants.
THEOREM NodeAgrees == NodeSpec => []NodeInv
<1>1. NodeSpec => NodeInit /\ [][NodeNext]_nodeVars
  BY DEF NodeSpec
<1>2. QED
  BY <1>1, NodeInitInv, NodeNextInv, PTL

\* The variables of every part of the node keep their types and bounds.
THEOREM NodeTyped == NodeSpec => []NodeTypeOK
<1>1. NodeInv => NodeTypeOK
  BY RuntimeInvTyped, EventsInvTyped, DetectorsInvTyped, FacesInvTyped, GalleryInvTyped DEF NodeInv, NodeTypeOK
<1>2. QED
  BY <1>1, NodeAgrees, PTL

\* A model that runs is the one its configuration asks for, after any loads,
\* fallbacks and failures (inference/, face/registry.py, face/factory.py).
THEOREM ModelsFollowConfigurations == NodeSpec => []ModelsAreAsConfigured
<1>1. NodeInv => ModelsAreAsConfigured
  BY DetectionsFollowConfig, FacesFollowConfig DEF NodeInv, ModelsAreAsConfigured
<1>2. QED
  BY <1>1, NodeAgrees, PTL

=============================================================================
