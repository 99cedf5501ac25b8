------------------------ MODULE CaptureSourceProofs ------------------------
(***************************************************************************)
(* What holds of CaptureSource for every number of captures, closers,      *)
(* frames and sessions.                                                    *)
(***************************************************************************)
EXTENDS CaptureSource, TLAPS

LEMMA ThreadsFacts == Owner \in Threads /\ \A t \in Closers : t \in Threads
BY DEF Threads

-----------------------------------------------------------------------------
(* Sequences: the few facts the queue needs.                               *)

LEMMA PushType ==
    ASSUME NEW q \in Seq(Packet), NEW p \in Packet, Len(q) <= MaxBuffer
    PROVE  Push(q, p) \in Seq(Packet) /\ Len(Push(q, p)) <= MaxBuffer
<1>1. CASE Len(q) = MaxBuffer
  <2>1. q /= <<>>
    BY <1>1, BufferAssumption
  <2>2. Tail(q) \in Seq(Packet) /\ Len(Tail(q)) = Len(q) - 1
    BY <2>1
  <2>3. QED
    BY <1>1, <2>2, BufferAssumption DEF Push
<1>2. CASE Len(q) /= MaxBuffer
  BY <1>2, BufferAssumption DEF Push
<1>3. QED
  BY <1>1, <1>2

LEMMA TailType ==
    ASSUME NEW S, NEW q \in Seq(S), q /= <<>>
    PROVE  Head(q) \in S /\ Tail(q) \in Seq(S) /\ Len(Tail(q)) = Len(q) - 1
OBVIOUS

-----------------------------------------------------------------------------
(* Type correctness.                                                       *)

\* What a step leaves alone keeps its type.
LEMMA TypeFrame ==
    /\ SharedType /\ UNCHANGED shared => SharedType'
    /\ BuffersType /\ UNCHANGED buffers => BuffersType'
    /\ OpeningType /\ UNCHANGED opening => OpeningType'
    /\ LocalsType /\ UNCHANGED locals => LocalsType'
    /\ ReaderType /\ UNCHANGED reader => ReaderType'
    /\ DeliveredType /\ UNCHANGED delivered => DeliveredType'
BY DEF SharedType, BuffersType, OpeningType, LocalsType, ReaderType, DeliveredType, shared,
       buffers, opening, locals

\* A thread moves on: its label is a label.
LEMMA TypeGoto ==
    ASSUME LocalsType, NEW t \in Threads, NEW l \in Pcs, Goto(t, l)
    PROVE  pc' \in [Threads -> Pcs]
BY DEF LocalsType, Goto

LEMMA TypeReaderGoto ==
    ASSUME ReaderType, NEW a \in Attempts,
           NEW l \in {"none", "check", "reading", "frame", "invalid", "exiting", "exited"},
           ReaderGoto(a, l)
    PROVE  ReaderType'
BY DEF ReaderType, ReaderGoto, ReaderRecord

LEMMA TypeRelease ==
    ASSUME OpeningType, NEW S, device' = Release(S)
    PROVE  device' \in [Attempts -> Devices]
BY DEF OpeningType, Release, Devices

LEMMA TypeInit == Init => TypeOK
<1> SUFFICES ASSUME Init PROVE TypeOK
  OBVIOUS
<1>1. SharedType
  BY DEF Init, SharedType
<1>2. BuffersType
  <2>1. <<>> \in Seq(Packet) /\ Len(<<>>) = 0
    OBVIOUS
  <2>2. QED
    BY <2>1, BufferAssumption DEF Init, BuffersType
<1>3. OpeningType
  BY DEF Init, OpeningType, AttemptRecord, Devices
<1>4. LocalsType
  BY DEF Init, LocalsType, Pcs, Modes
<1>5. ReaderType /\ DeliveredType
  BY DEF Init, ReaderType, ReaderRecord, DeliveredType, Results
<1>6. QED
  BY <1>1, <1>2, <1>3, <1>4, <1>5 DEF TypeOK

LEMMA TypeCalls ==
    ASSUME TypeOK,
           \/ CallOpen \/ CallCloseForReconnect \/ CallFinalClose \/ Restart
           \/ \E t \in Closers : CallStopClose(t)
    PROVE  TypeOK'
<1>1. ASSUME NEW t \in Threads, NEW m \in Modes, BeginClose(t, m), session' \in BOOLEAN
      PROVE  LocalsType'
  BY <1>1 DEF BeginClose, Goto, TypeOK, LocalsType, Pcs, ClosePcs
<1>2. CASE CallOpen
  BY <1>1, <1>2, ThreadsFacts, TypeFrame DEF CallOpen, TypeOK, LocalsType, Modes
<1>3. CASE CallCloseForReconnect
  BY <1>1, <1>3, ThreadsFacts, TypeFrame DEF CallCloseForReconnect, TypeOK, Modes
<1>4. CASE CallFinalClose
  BY <1>1, <1>4, ThreadsFacts, TypeFrame DEF CallFinalClose, TypeOK, Modes
<1>5. CASE Restart
  <2>1. LocalsType'
    BY <1>5, ThreadsFacts DEF Restart, Goto, TypeOK, LocalsType, Pcs
  <2>2. QED
    BY <1>5, <2>1, TypeFrame DEF Restart, TypeOK
<1>6. CASE \E t \in Closers : CallStopClose(t)
  BY <1>1, <1>6, ThreadsFacts, TypeFrame DEF CallStopClose, TypeOK, LocalsType, Modes
<1>7. QED
  BY <1>2, <1>3, <1>4, <1>5, <1>6

LEMMA TypeClose ==
    ASSUME TypeOK, NEW t \in Threads, CloseStep(t)
    PROVE  TypeOK'
<1>1. CASE CloseLocked(t)
  <2>0. /\ generation' = generation + 1 /\ stopEvent' = TRUE /\ capture' = None
        /\ connected' = FALSE /\ deadline' = "none"
    BY <1>1 DEF CloseLocked
  <2>a. generation + 1 \in Nat
    BY DEF TypeOK, SharedType
  <2>1. SharedType'
    BY <2>0, <2>a, Zenon DEF SharedType
  <2>2. OpeningType'
    BY <1>1 DEF TypeOK, CloseLocked, OpeningType, Cancels, AttemptRecord
  <2>3. toRelease' \in [Threads -> SUBSET Attempts]
    BY <1>1 DEF TypeOK, CloseLocked, SharedType, OpeningType, LocalsType, Cancels,
                TakesPending
  <2>4. LocalsType'
    BY <1>1, <2>3 DEF TypeOK, CloseLocked, LocalsType, Goto, Pcs, ClosePcs
  <2>5. QED
    BY <1>1, <2>1, <2>2, <2>4, TypeFrame DEF TypeOK, CloseLocked
<1>2. CASE CloseRelease(t)
  <2>1. OpeningType'
    BY <1>2, TypeRelease DEF TypeOK, CloseRelease, OpeningType
  <2>2. LocalsType'
    BY <1>2 DEF TypeOK, CloseRelease, LocalsType, Goto, Pcs, ClosePcs
  <2>3. QED
    BY <1>2, <2>1, <2>2, TypeFrame DEF TypeOK, CloseRelease
<1>3. CASE CloseDrain(t)
  <2>1. queue' \in Seq(Packet) /\ Len(queue') = 0
    BY <1>3 DEF CloseDrain
  <2>2. BuffersType'
    BY <1>3, <2>1, BufferAssumption DEF TypeOK, CloseDrain, BuffersType
  <2>3. LocalsType'
    BY <1>3 DEF TypeOK, CloseDrain, LocalsType, Goto, Pcs, ClosePcs
  <2>4. QED
    BY <1>3, <2>2, <2>3, TypeFrame DEF TypeOK, CloseDrain
<1>4. CASE CloseClear(t)
  <2>1. BuffersType'
    BY <1>4 DEF TypeOK, CloseClear, BuffersType
  <2>2. mode' \in [Threads -> Modes]
    BY <1>4 DEF TypeOK, CloseClear, LocalsType, Modes
  <2>3. LocalsType'
    BY <1>4, <2>2 DEF TypeOK, CloseClear, LocalsType, Goto, Pcs, ClosePcs, OwnerPcs
  <2>4. QED
    BY <1>4, <2>1, <2>3, TypeFrame DEF TypeOK, CloseClear
<1>5. QED
  BY <1>1, <1>2, <1>3, <1>4 DEF CloseStep

LEMMA TypeOpen ==
    ASSUME TypeOK, OpenStep
    PROVE  TypeOK'
<1> USE ThreadsFacts DEF TypeOK
<1>1. CASE OpenArm
  <2>1. SharedType'
    BY <1>1 DEF OpenArm, SharedType
  <2>2. LocalsType'
    BY <1>1 DEF OpenArm, LocalsType, SharedType, Goto, Pcs, OwnerPcs
  <2>3. QED
    BY <1>1, <2>1, <2>2, TypeFrame DEF OpenArm
<1>2. CASE OpenStart
  <2>1. OpeningType'
    BY <1>2 DEF OpenStart, OpeningType, AttemptRecord
  <2>2. LocalsType'
    BY <1>2 DEF OpenStart, LocalsType, OpeningType, Goto, Pcs, OwnerPcs
  <2>3. QED
    BY <1>2, <2>1, <2>2, TypeFrame DEF OpenStart
<1>3. CASE OpenStartExhausted \/ OpenTimeout
  <2>1. LocalsType'
    BY <1>3 DEF OpenStartExhausted, OpenTimeout, LocalsType, Goto, Pcs
  <2>2. QED
    BY <1>3, <2>1, TypeFrame DEF OpenStartExhausted, OpenTimeout
<1>4. CASE OpenClaim
  <2>1. ASSUME attempt[mine.attempt].claimed PROVE OpeningType'
    BY <1>4, <2>1, TypeFrame DEF OpenClaim
  <2>2. ASSUME ~attempt[mine.attempt].claimed PROVE OpeningType'
    <3>1. /\ attempt' = [attempt EXCEPT ![mine.attempt].claimed = TRUE]
          /\ pending' = IF pending = mine.attempt THEN None ELSE pending
          /\ device' = device \/ device' = Release({mine.attempt})
      BY <1>4, <2>2 DEF OpenClaim
    <3>2. device' \in [Attempts -> Devices]
      BY <3>1, TypeRelease DEF OpeningType
    <3>3. QED
      BY <3>1, <3>2 DEF OpeningType, AttemptRecord
  <2>3. OpeningType'
    BY <2>1, <2>2
  <2>4. LocalsType'
    BY <1>4 DEF OpenClaim, LocalsType, Goto, Pcs, OwnerPcs
  <2>5. QED
    BY <1>4, <2>3, <2>4, TypeFrame DEF OpenClaim
<1>5. CASE OpenInspect \/ OpenDiscard
  <2>1. OpeningType'
    BY <1>5, TypeRelease DEF OpenInspect, OpenDiscard, OpeningType
  <2>2. LocalsType'
    BY <1>5 DEF OpenInspect, OpenDiscard, LocalsType, Goto, Pcs, OwnerPcs
  <2>3. QED
    BY <1>5, <2>1, <2>2, TypeFrame DEF OpenInspect, OpenDiscard
<1>6. CASE OpenInstall
  <2>1. SharedType'
    BY <1>6 DEF OpenInstall, SharedType, LocalsType
  <2>2. BuffersType'
    BY <1>6 DEF OpenInstall, BuffersType
  <2>3. ReaderType'
    BY <1>6 DEF OpenInstall, ReaderType, ReaderRecord, LocalsType
  <2>4. LocalsType'
    BY <1>6 DEF OpenInstall, LocalsType, Goto, Pcs
  <2>5. QED
    BY <1>6, <2>1, <2>2, <2>3, <2>4, TypeFrame DEF OpenInstall
<1>7. QED
  BY <1>1, <1>2, <1>3, <1>4, <1>5, <1>6 DEF OpenStep

LEMMA TypeConstruction ==
    ASSUME TypeOK, NEW a \in Attempts, Construction(a)
    PROVE  TypeOK'
<1>1. OpeningType'
  BY DEF TypeOK, Construction, ConstructionEnds, ConstructionDiscards, Release, Devices,
         OpeningType, AttemptRecord
<1>2. QED
  BY <1>1, TypeFrame DEF TypeOK, Construction, ConstructionEnds, ConstructionDiscards

LEMMA TypeReader ==
    ASSUME TypeOK, NEW a \in Attempts, ReaderStep(a)
    PROVE  TypeOK'
<1> USE DEF TypeOK
<1>1. CASE ReaderPublish(a)
  <2>1. [gen |-> reader[a].gen, seq |-> NextSequence] \in Packet /\ NextSequence \in Nat
    BY DEF ReaderType, BuffersType, Packet, ReaderRecord, NextSequence
  <2>2. BuffersType'
    BY <1>1, <2>1, PushType DEF BuffersType, ReaderPublish
  <2>3. SharedType'
    BY <1>1 DEF SharedType, ReaderPublish
  <2>4. ReaderType'
    BY <1>1, TypeReaderGoto DEF ReaderPublish
  <2>5. QED
    BY <1>1, <2>2, <2>3, <2>4, TypeFrame DEF ReaderPublish
<1>2. CASE ReaderFail(a)
  <2>1. [gen |-> reader[a].gen, seq |-> 0] \in Packet
    BY DEF ReaderType, Packet, ReaderRecord
  <2>2. BuffersType'
    BY <1>2, <2>1 DEF BuffersType, ReaderFail
  <2>3. SharedType'
    BY <1>2 DEF SharedType, ReaderFail
  <2>4. ReaderType'
    BY <1>2, TypeReaderGoto DEF ReaderFail
  <2>5. QED
    BY <1>2, <2>2, <2>3, <2>4, TypeFrame DEF ReaderFail
<1>3. CASE ReaderCheck(a) \/ ReaderRead(a) \/ ReaderRetry(a)
  <2>1. ReaderType'
    BY <1>3, TypeReaderGoto DEF ReaderCheck, ReaderRead, ReaderRetry
  <2>2. QED
    BY <1>3, <2>1, TypeFrame DEF ReaderCheck, ReaderRead, ReaderRetry
<1>4. CASE ReaderExit(a)
  <2>1. SharedType'
    BY <1>4 DEF SharedType, ReaderExit
  <2>2. ReaderType'
    BY <1>4, TypeReaderGoto DEF ReaderExit
  <2>3. QED
    BY <1>4, <2>1, <2>2, TypeFrame DEF ReaderExit
<1>5. QED
  BY <1>1, <1>2, <1>3, <1>4 DEF ReaderStep

LEMMA TypePopEvent ==
    ASSUME BuffersType, DeliveredType, PopEvent
    PROVE  events' \in Seq(Packet) /\ queue' = queue /\ DeliveredType'
<1>1. Head(events) \in Packet /\ Tail(events) \in Seq(Packet)
  BY DEF PopEvent, BuffersType
<1>2. QED
  BY <1>1 DEF PopEvent, Deliver, DeliveredType, Results, Packet

LEMMA TypeRead ==
    ASSUME TypeOK, ReadBegin \/ ReadStep
    PROVE  TypeOK'
<1> USE ThreadsFacts DEF TypeOK
<1>1. CASE ReadBegin
  <2>1. BuffersType' /\ DeliveredType'
    BY <1>1, TypePopEvent, TypeFrame DEF ReadBegin, BuffersType
  <2>2. LocalsType'
    BY <1>1 DEF ReadBegin, LocalsType, SharedType, LooksOpen, Goto, Pcs, OwnerPcs
  <2>3. QED
    BY <1>1, <2>1, <2>2, TypeFrame DEF ReadBegin
<1>2. CASE ReadFrame
  <2>1. /\ Head(queue) \in Packet /\ Tail(queue) \in Seq(Packet)
        /\ Len(Tail(queue)) <= MaxBuffer
    BY <1>2, TailType, BufferAssumption DEF ReadFrame, BuffersType
  <2>2. BuffersType'
    BY <1>2, <2>1 DEF ReadFrame, BuffersType
  <2>3. DeliveredType'
    BY <1>2, <2>1 DEF ReadFrame, Deliver, DeliveredType, Results, Packet
  <2>4. LocalsType'
    BY <1>2 DEF ReadFrame, LocalsType, Goto, Pcs
  <2>5. QED
    BY <1>2, <2>2, <2>3, <2>4, TypeFrame DEF ReadFrame
<1>3. CASE ReadEmpty
  <2>1. mine.gen \in Nat /\ delivered.seq \in Nat
    BY DEF LocalsType, DeliveredType, Results
  <2>2. ASSUME PopEvent PROVE BuffersType' /\ DeliveredType'
    BY <1>3, <2>2, TypePopEvent DEF ReadEmpty, BuffersType
  <2>3. ASSUME ~PopEvent PROVE BuffersType' /\ DeliveredType'
    BY <1>3, <2>1, <2>3 DEF ReadEmpty, Deliver, DeliveredType, Results, BuffersType
  <2>4. BuffersType' /\ DeliveredType'
    BY <2>2, <2>3
  <2>5. LocalsType'
    BY <1>3 DEF ReadEmpty, LocalsType, Goto, Pcs
  <2>6. QED
    BY <1>3, <2>4, <2>5, TypeFrame DEF ReadEmpty
<1>4. QED
  BY <1>1, <1>2, <1>3 DEF ReadStep

LEMMA TypeStep == TypeOK /\ [Next]_vars => TypeOK'
<1> SUFFICES ASSUME TypeOK, [Next]_vars PROVE TypeOK'
  OBVIOUS
<1>1. CASE OwnerCall \/ ReadStep \/ \E t \in Closers : CallStopClose(t)
  BY <1>1, TypeCalls, TypeRead DEF OwnerCall
<1>2. CASE \E t \in Threads : CloseStep(t)
  BY <1>2, TypeClose
<1>3. CASE OpenStep
  BY <1>3, TypeOpen
<1>4. CASE \E a \in Attempts : Construction(a) \/ ReaderStep(a)
  BY <1>4, TypeConstruction, TypeReader
<1>5. CASE GraceExpires
  <2>1. SharedType'
    BY <1>5 DEF TypeOK, GraceExpires, SharedType
  <2>2. QED
    BY <1>5, <2>1, TypeFrame DEF TypeOK, GraceExpires
<1>6. CASE UNCHANGED vars
  BY <1>6, TypeFrame DEF vars, TypeOK
<1>7. QED
  BY <1>1, <1>2, <1>3, <1>4, <1>5, <1>6 DEF Next, Terminated

\* Every reachable state of the source has its type, and the frame queue
\* respects max_buffer_frames, for every value of the constants.
THEOREM TypeCorrect == Spec => []TypeOK
BY TypeInit, TypeStep, PTL DEF Spec

-----------------------------------------------------------------------------
(* Custody: where the capture of an attempt can be, phase by phase.  This  *)
(* is the invariant behind SingleConstruction and OneKeeper: an attempt    *)
(* that runs or waits to be claimed is the pending one, and a claimed      *)
(* capture is with the opener, in the session or with one closing thread.  *)

Opening(a) == pc[Owner] \in {"inspect", "install"} /\ mine.attempt = a
Closing(a) == \E t \in Threads : a \in toRelease[t]

Unclaimed(a) ==
    /\ attempt[a].phase = "unused" =>
         ~attempt[a].claimed /\ device[a] = "none" /\ pending /= a
    /\ attempt[a].phase = "running" =>
         ~attempt[a].claimed /\ device[a] = "none" /\ pending = a
    /\ attempt[a].phase = "discarding" =>
         attempt[a].claimed /\ device[a] \in {"live", "error"}
    /\ attempt[a].phase = "completed" /\ ~attempt[a].claimed =>
         pending = a /\ device[a] \in {"live", "error"}
    /\ pending = a => ~attempt[a].claimed

Claimed(a) == attempt[a].phase = "completed" /\ attempt[a].claimed

SessionCustody(a) == capture = a => Claimed(a) /\ device[a] = "live"

OpenCustody(a) == Opening(a) => Claimed(a) /\ device[a] = "live" /\ capture /= a

CloseCustody(a) ==
    \A t \in Threads : a \in toRelease[t] =>
        /\ pc[t] = "release"
        /\ Claimed(a) /\ device[a] \in {"live", "error"}
        /\ capture /= a /\ ~Opening(a)
        /\ \A u \in Threads : a \in toRelease[u] => u = t

NoLeak(a) == Claimed(a) /\ device[a] = "live" => capture = a \/ Opening(a) \/ Closing(a)

Waiting == pc[Owner] \in {"wait", "inspect", "install"} =>
             mine.attempt \in Attempts /\ attempt[mine.attempt].phase /= "unused"

\* Between the close that opens it and its installation a session is empty.
EmptyPcs     == (OwnerPcs \cup ClosePcs) \ {"read", "close"}
SessionEmpty == pc[Owner] \in EmptyPcs => capture = None

Custody ==
    /\ \A a \in Attempts : /\ Unclaimed(a) /\ SessionCustody(a) /\ OpenCustody(a)
                           /\ CloseCustody(a) /\ NoLeak(a)
    /\ Waiting /\ SessionEmpty

LEMMA CustodyInit == Init => Custody
BY ThreadsFacts, NoneAssumption
   DEF Init, Custody, Unclaimed, Claimed, SessionCustody, OpenCustody, CloseCustody, NoLeak,
       Opening, Closing, Waiting, SessionEmpty, EmptyPcs

\* A step that moves no capture and takes no thread into or out of the
\* places where one can be keeps custody.
LEMMA CustodyFrame ==
    ASSUME TypeOK, Custody,
           UNCHANGED <<attempt, device, pending, capture, toRelease>>,
           NEW t \in Threads, NEW l \in Pcs, Goto(t, l) \/ UNCHANGED pc,
           Goto(t, l) => pc[t] /= "release" \/ toRelease[t] = {},
           Goto(t, l) /\ t = Owner =>
             /\ l \notin {"wait", "install", "inspect"}
             /\ pc[Owner] \notin {"install", "inspect"}
             /\ l \in EmptyPcs => pc[Owner] \in EmptyPcs,
           mine'.attempt = mine.attempt
    PROVE  Custody'
<1> USE ThreadsFacts
<1>1. pc \in [Threads -> Pcs]
  BY DEF TypeOK, LocalsType
<1>2. \A u \in Threads : pc[u] = "release" /\ pc'[u] /= "release" => toRelease[u] = {}
  BY <1>1 DEF Goto
<1>3. /\ pc'[Owner] \in {"inspect", "install"} <=> pc[Owner] \in {"inspect", "install"}
      /\ pc'[Owner] = "wait" => pc[Owner] = "wait"
      /\ pc'[Owner] \in EmptyPcs => pc[Owner] \in EmptyPcs
  BY <1>1 DEF Goto
<1>4. \A a \in Attempts : /\ Opening(a)' <=> Opening(a)
                          /\ Closing(a)' <=> Closing(a)
                          /\ Claimed(a)' <=> Claimed(a)
  BY <1>3 DEF Opening, Closing, Claimed
<1>5. \A a \in Attempts : (Unclaimed(a) /\ SessionCustody(a) /\ OpenCustody(a) /\ NoLeak(a))'
  BY <1>4 DEF Custody, Unclaimed, SessionCustody, OpenCustody, NoLeak
<1>6. \A a \in Attempts : CloseCustody(a)'
  BY <1>2, <1>4 DEF Custody, CloseCustody
<1>7. Waiting' /\ SessionEmpty'
  BY <1>3 DEF Custody, Waiting, SessionEmpty
<1>8. QED
  BY <1>5, <1>6, <1>7 DEF Custody

LEMMA CustodyClose ==
    ASSUME TypeOK, Custody, NEW t \in Threads, CloseStep(t)
    PROVE  Custody'
<1> USE ThreadsFacts
<1>1. CASE CloseDrain(t) \/ CloseClear(t)
  <2>1. /\ UNCHANGED <<attempt, device, pending, capture, toRelease, mine>>
        /\ pc[t] \in {"drain", "clear"}
    BY <1>1 DEF CloseDrain, CloseClear, opening, shared
  <2>2. PICK l \in Pcs : Goto(t, l) /\ l \notin {"wait", "install", "inspect"}
    BY <1>1 DEF CloseDrain, CloseClear, Pcs, ClosePcs, OwnerPcs
  <2>3. pc[t] \in EmptyPcs
    BY <2>1 DEF EmptyPcs, ClosePcs
  <2>4. QED
    BY <2>1, <2>2, <2>3, CustodyFrame
<1>2. CASE CloseRelease(t)
  <2>1. /\ pc[t] = "release" /\ device' = Release(toRelease[t])
        /\ toRelease' = [toRelease EXCEPT ![t] = {}] /\ pc' = [pc EXCEPT ![t] = "drain"]
        /\ UNCHANGED <<attempt, pending, capture, mine>>
    BY <1>2 DEF CloseRelease, Goto, shared
  <2>2. \A a \in Attempts : /\ Opening(a)' <=> Opening(a)
                            /\ Claimed(a)' <=> Claimed(a)
    BY <2>1 DEF Opening, Claimed, TypeOK, LocalsType
  <2>3. \A a \in Attempts :
          device'[a] = IF a \in toRelease[t] /\ device[a] = "live" THEN "released"
                                                                   ELSE device[a]
    BY <2>1 DEF Release
  <2>4. \A a \in Attempts, u \in Threads :
          a \in toRelease'[u] <=> a \in toRelease[u] /\ u /= t
    BY <2>1 DEF TypeOK, LocalsType
  <2>5. \A u \in Threads : u /= t => pc'[u] = pc[u]
    BY <2>1 DEF TypeOK, LocalsType
  <2>6. /\ pc'[Owner] \in {"wait", "inspect", "install"} => pc'[Owner] = pc[Owner]
        /\ pc'[Owner] \in EmptyPcs => pc[Owner] \in EmptyPcs
    BY <2>1 DEF TypeOK, LocalsType, EmptyPcs, ClosePcs
  <2>7. ASSUME NEW a \in Attempts
        PROVE  (Unclaimed(a) /\ SessionCustody(a) /\ OpenCustody(a))'
    <3>1. a \in toRelease[t] => Claimed(a) /\ capture /= a /\ ~Opening(a)
      BY DEF Custody, CloseCustody
    <3>2. QED
      BY <2>1, <2>2, <2>3, <3>1
         DEF Custody, Unclaimed, SessionCustody, OpenCustody, Claimed
  <2>8. ASSUME NEW a \in Attempts PROVE CloseCustody(a)' /\ NoLeak(a)'
    <3>1. CloseCustody(a)'
      <4>1. ASSUME NEW u \in Threads, a \in toRelease'[u] PROVE device'[a] = device[a]
        BY <2>3, <2>4, <4>1 DEF Custody, CloseCustody
      <4>2. QED
        BY <2>1, <2>2, <2>4, <2>5, <4>1 DEF Custody, CloseCustody
    <3>2. NoLeak(a)'
      BY <2>1, <2>2, <2>3, <2>4 DEF Custody, NoLeak, Closing
    <3>3. QED
      BY <3>1, <3>2
  <2>9. Waiting' /\ SessionEmpty'
    BY <2>1, <2>6 DEF Custody, Waiting, SessionEmpty
  <2>10. QED
    BY <2>7, <2>8, <2>9 DEF Custody
<1>3. CASE CloseLocked(t)
  <2> DEFINE taken == ({capture} \cup (IF TakesPending(t) THEN {pending} ELSE {})) \ {None}
  <2>1. /\ pc[t] = "close" /\ UNCHANGED <<device, mine>> /\ capture' = None
        /\ toRelease' = [toRelease EXCEPT ![t] = taken]
        /\ pc' = [pc EXCEPT ![t] = "release"]
        /\ pending' = IF TakesPending(t) THEN None ELSE pending
    BY <1>3 DEF CloseLocked, Goto
  <2>2. /\ Cancels(t) => pending \in Attempts
        /\ TakesPending(t) => /\ Cancels(t) /\ attempt[pending].phase = "completed"
                              /\ ~attempt[pending].claimed
    BY DEF TypeOK, OpeningType, Cancels, TakesPending
  <2>3. \A a \in Attempts :
          /\ attempt'[a].phase = attempt[a].phase
          /\ attempt'[a].claimed <=> attempt[a].claimed \/ (TakesPending(t) /\ a = pending)
    <3>1. CASE Cancels(t)
      BY <1>3, <2>2, <3>1 DEF CloseLocked, TypeOK, OpeningType, AttemptRecord
    <3>2. CASE ~Cancels(t)
      BY <1>3, <2>2, <3>2 DEF CloseLocked
    <3>3. QED
      BY <3>1, <3>2
  <2>4. taken \in SUBSET Attempts /\ \A a \in Attempts :
          a \in taken <=> a = capture \/ (TakesPending(t) /\ a = pending)
    BY <2>2, NoneAssumption DEF TypeOK, SharedType
  <2>5. toRelease[t] = {}
    BY <2>1 DEF Custody, CloseCustody, TypeOK, LocalsType
  <2>6. \A a \in Attempts, u \in Threads :
          a \in toRelease'[u] <=> IF u = t THEN a \in taken ELSE a \in toRelease[u]
    BY <2>1, <2>4 DEF TypeOK, LocalsType
  <2>7. /\ \A u \in Threads : u /= t => pc'[u] = pc[u]
        /\ pc'[t] = "release"
    BY <2>1 DEF TypeOK, LocalsType
  <2>8. \A a \in Attempts : Opening(a)' <=> Opening(a)
    BY <2>1, <2>7 DEF Opening
  <2>9. ASSUME NEW a \in Attempts
        PROVE  (Unclaimed(a) /\ SessionCustody(a) /\ OpenCustody(a))'
    BY <2>1, <2>2, <2>3, <2>8, NoneAssumption
       DEF Custody, Unclaimed, SessionCustody, OpenCustody, Claimed
  <2>10. ASSUME NEW a \in Attempts PROVE CloseCustody(a)'
    <3>1. a \in taken => /\ Claimed(a)' /\ device[a] \in {"live", "error"} /\ ~Opening(a)
                         /\ \A u \in Threads : a \notin toRelease[u]
      BY <2>2, <2>3, <2>4
         DEF Custody, Unclaimed, SessionCustody, OpenCustody, CloseCustody, Claimed
    <3>2. Claimed(a) => Claimed(a)'
      BY <2>3 DEF Claimed
    <3>3. QED
      BY <2>1, <2>6, <2>7, <2>8, <3>1, <3>2, NoneAssumption DEF Custody, CloseCustody
  <2>11. ASSUME NEW a \in Attempts PROVE NoLeak(a)'
    <3>1. Closing(a) \/ a \in taken => Closing(a)'
      BY <2>5, <2>6 DEF Closing
    <3>2. Claimed(a)' => Claimed(a) \/ a \in taken
      BY <2>3, <2>4 DEF Claimed
    <3>3. capture = a => a \in taken
      BY <2>4
    <3>4. QED
      BY <2>1, <2>8, <3>1, <3>2, <3>3 DEF Custody, NoLeak
  <2>12. Waiting' /\ SessionEmpty'
    BY <2>1, <2>3, <2>7 DEF Custody, Waiting, SessionEmpty
  <2>13. QED
    BY <2>9, <2>10, <2>11, <2>12 DEF Custody
<1>4. QED
  BY <1>1, <1>2, <1>3 DEF CloseStep

LEMMA CustodyOpen ==
    ASSUME TypeOK, Custody, OpenStep
    PROVE  Custody'
<1> USE ThreadsFacts
<1> DEFINE a0 == mine.attempt
<1>0. pc \in [Threads -> Pcs] /\ toRelease \in [Threads -> SUBSET Attempts]
  BY DEF TypeOK, LocalsType
<1>1. CASE OpenArm \/ OpenStartExhausted \/ OpenTimeout
  <2>1. /\ UNCHANGED <<attempt, device, pending, capture, toRelease>>
        /\ pc[Owner] \in {"arm", "start", "wait"}
    BY <1>1 DEF OpenArm, OpenStartExhausted, OpenTimeout, opening, shared
  <2>2. PICK l \in Pcs : Goto(Owner, l) /\ l \notin {"wait", "install", "inspect"}
    BY <1>1 DEF OpenArm, OpenStartExhausted, OpenTimeout, Pcs, OwnerPcs
  <2>3. mine'.attempt = mine.attempt
    <3>1. CASE OpenArm
      BY <3>1 DEF OpenArm, TypeOK, LocalsType
    <3>2. CASE OpenStartExhausted \/ OpenTimeout
      BY <3>2 DEF OpenStartExhausted, OpenTimeout
    <3>3. QED
      BY <1>1, <3>1, <3>2
  <2>4. pc[Owner] \in EmptyPcs
    BY <2>1 DEF EmptyPcs, OwnerPcs, ClosePcs
  <2>5. QED
    BY <2>1, <2>2, <2>3, <2>4, CustodyFrame
<1>2. CASE OpenStart
  <2>1. /\ pc[Owner] = "start" /\ pc' = [pc EXCEPT ![Owner] = "wait"]
        /\ UNCHANGED <<device, capture, toRelease>>
    BY <1>2 DEF OpenStart, Goto, shared
  <2>2. /\ pc'[Owner] = "wait" /\ \A u \in Threads : u /= Owner => pc'[u] = pc[u]
    BY <1>0, <2>1
  <2>3. PICK b \in Attempts :
          /\ mine'.attempt = b /\ pending' = b /\ (pending = b \/ pending = None)
          /\ IF pending = b THEN attempt' = attempt
             ELSE attempt[b].phase = "unused"
                  /\ attempt' = [attempt EXCEPT ![b].phase = "running"]
    <3>0. /\ mine \in [gen : Nat, attempt : Attempts \cup {None}, up : BOOLEAN]
          /\ pending \in Attempts \cup {None}
      BY DEF TypeOK, OpeningType, LocalsType
    <3>1. CASE pending /= None
      <4>1. mine' = [mine EXCEPT !.attempt = pending] /\ UNCHANGED <<pending, attempt>>
        BY <1>2, <3>1 DEF OpenStart
      <4>2. mine'.attempt = pending /\ pending \in Attempts
        BY <3>0, <3>1, <4>1
      <4>3. QED
        BY <4>1, <4>2
    <3>2. CASE pending = None
      <4>1. PICK b \in Attempts :
              /\ attempt[b].phase = "unused" /\ pending' = b
              /\ attempt' = [attempt EXCEPT ![b].phase = "running"]
              /\ mine' = [mine EXCEPT !.attempt = b]
        BY <1>2, <3>2 DEF OpenStart
      <4>2. mine'.attempt = b /\ pending /= b
        BY <3>0, <3>2, <4>1, NoneAssumption
      <4>3. QED
        BY <3>2, <4>1, <4>2
    <3>3. QED
      BY <3>1, <3>2
  <2>4. \A a \in Attempts :
          /\ attempt'[a].claimed = attempt[a].claimed
          /\ attempt'[a].phase = IF a = b /\ pending = None THEN "running"
                                                            ELSE attempt[a].phase
    BY <2>3, NoneAssumption DEF TypeOK, OpeningType, AttemptRecord
  <2>5. \A a \in Attempts : /\ Claimed(a)' <=> Claimed(a)
                            /\ ~Opening(a) /\ ~Opening(a)'
                            /\ Closing(a)' <=> Closing(a)
    BY <2>1, <2>2, <2>3, <2>4, NoneAssumption DEF Claimed, Opening, Closing
  <2>6. \A a \in Attempts : Unclaimed(a)'
    BY <2>1, <2>3, <2>4, NoneAssumption DEF Custody, Unclaimed
  <2>7. \A a \in Attempts : (SessionCustody(a) /\ OpenCustody(a) /\ NoLeak(a))'
    BY <2>1, <2>5 DEF Custody, SessionCustody, OpenCustody, NoLeak
  <2>8. \A a \in Attempts : CloseCustody(a)'
    BY <2>1, <2>2, <2>5 DEF Custody, CloseCustody
  <2>9. Waiting' /\ SessionEmpty'
    <3>1. attempt'[b].phase /= "unused"
      BY <2>3, <2>4, NoneAssumption DEF Custody, Unclaimed
    <3>2. "start" \in EmptyPcs
      BY DEF EmptyPcs, OwnerPcs
    <3>3. QED
      BY <2>1, <2>3, <3>1, <3>2 DEF Waiting, SessionEmpty, Custody
  <2>10. QED
    BY <2>6, <2>7, <2>8, <2>9 DEF Custody
<1>3. CASE OpenClaim
  <2>1. /\ pc[Owner] = "wait" /\ a0 \in Attempts
        /\ attempt[a0].phase \in {"completed", "discarding"}
        /\ UNCHANGED <<capture, toRelease, mine>>
    BY <1>3 DEF OpenClaim, shared, Custody, Waiting
  <2>2. CASE attempt[a0].claimed
    <3>1. /\ UNCHANGED <<attempt, device, pending>> /\ Goto(Owner, "idle")
          /\ "idle" \in Pcs /\ "idle" \notin EmptyPcs
      BY <1>3, <2>2 DEF OpenClaim, opening, Pcs, EmptyPcs, OwnerPcs, ClosePcs
    <3>2. QED
      BY <2>1, <3>1, CustodyFrame
  <2>3. CASE ~attempt[a0].claimed
    <3>1. /\ attempt' = [attempt EXCEPT ![a0].claimed = TRUE]
          /\ pending' = IF pending = a0 THEN None ELSE pending
          /\ device' = IF attempt[a0].cancelled THEN Release({a0}) ELSE device
          /\ pc' = [pc EXCEPT ![Owner] = IF device'[a0] = "live" THEN "inspect"
                                                                 ELSE "idle"]
      BY <1>3, <2>3 DEF OpenClaim, Goto
    <3>2. /\ attempt[a0].phase = "completed" /\ pending = a0 /\ pending' = None
          /\ capture /= a0 /\ \A u \in Threads : a0 \notin toRelease[u]
      BY <2>1, <2>3, <3>1
         DEF Custody, Unclaimed, SessionCustody, CloseCustody, Claimed
    <3>3. \A a \in Attempts :
            /\ attempt'[a].phase = attempt[a].phase
            /\ attempt'[a].claimed <=> attempt[a].claimed \/ a = a0
      BY <2>1, <3>1 DEF TypeOK, OpeningType, AttemptRecord
    <3>4. /\ \A a \in Attempts : a /= a0 => device'[a] = device[a]
          /\ device'[a0] \in {"live", "error", "released"}
      BY <2>1, <2>3, <3>1, <3>2 DEF Release, Custody, Unclaimed
    <3>5. /\ \A u \in Threads : u /= Owner => pc'[u] = pc[u]
          /\ pc'[Owner] = IF device'[a0] = "live" THEN "inspect" ELSE "idle"
      BY <1>0, <3>1
    <3>6. \A a \in Attempts : /\ ~Opening(a)
                              /\ Opening(a)' <=> a = a0 /\ device'[a0] = "live"
                              /\ Closing(a)' <=> Closing(a)
                              /\ Claimed(a)' <=> Claimed(a) \/ a = a0
      BY <2>1, <3>2, <3>3, <3>5 DEF Opening, Closing, Claimed
    <3>7. \A a \in Attempts : Unclaimed(a)'
      BY <2>1, <3>2, <3>3, <3>4, NoneAssumption DEF Custody, Unclaimed
    <3>8. \A a \in Attempts : (SessionCustody(a) /\ OpenCustody(a) /\ NoLeak(a))'
      BY <2>1, <3>2, <3>4, <3>6 DEF Custody, SessionCustody, OpenCustody, NoLeak
    <3>9. \A a \in Attempts : CloseCustody(a)'
      BY <2>1, <3>2, <3>4, <3>5, <3>6 DEF Custody, CloseCustody
    <3>10. Waiting' /\ SessionEmpty'
      <4>1. "wait" \in EmptyPcs
        BY DEF EmptyPcs, OwnerPcs
      <4>2. QED
        BY <2>1, <3>2, <3>3, <4>1 DEF Waiting, SessionEmpty, Custody
    <3>11. QED
      BY <3>7, <3>8, <3>9, <3>10 DEF Custody
  <2>4. QED
    BY <2>2, <2>3
<1>4. CASE OpenInspect /\ pc'[Owner] = "install"
  <2>1. /\ pc[Owner] = "inspect" /\ pc'[Owner] = "install"
        /\ UNCHANGED <<attempt, device, pending, capture, toRelease, mine>>
        /\ \A u \in Threads : u /= Owner => pc'[u] = pc[u]
    BY <1>0, <1>4 DEF OpenInspect, shared, Goto
  <2>2. \A a \in Attempts : /\ Opening(a)' <=> Opening(a)
                            /\ Closing(a)' <=> Closing(a)
                            /\ Claimed(a)' <=> Claimed(a)
    BY <2>1 DEF Opening, Closing, Claimed
  <2>3. \A a \in Attempts : /\ Unclaimed(a)' /\ SessionCustody(a)' /\ OpenCustody(a)'
                            /\ NoLeak(a)'
    BY <2>1, <2>2 DEF Custody, Unclaimed, SessionCustody, OpenCustody, NoLeak
  <2>4. \A a \in Attempts : CloseCustody(a)'
    BY <2>1, <2>2 DEF Custody, CloseCustody
  <2>5. Waiting' /\ SessionEmpty'
    BY <2>1 DEF Custody, Waiting, SessionEmpty, EmptyPcs, OwnerPcs
  <2>6. QED
    BY <2>3, <2>4, <2>5 DEF Custody
<1>5. CASE (OpenInspect /\ pc'[Owner] /= "install") \/ OpenDiscard
  <2>1. /\ UNCHANGED <<attempt, pending, capture, toRelease, mine>>
        /\ pc[Owner] \in {"inspect", "install"} /\ pc'[Owner] = "idle"
        /\ \A u \in Threads : u /= Owner => pc'[u] = pc[u]
        /\ device' = Release({a0})
    BY <1>0, <1>5 DEF OpenInspect, OpenDiscard, shared, Goto
  <2>2. \A a \in Attempts :
          device'[a] = IF a = a0 /\ device[a] = "live" THEN "released" ELSE device[a]
    BY <2>1 DEF Release
  <2>3. \A a \in Attempts : /\ Opening(a) <=> a = a0
                            /\ ~Opening(a)'
                            /\ Closing(a)' <=> Closing(a)
                            /\ Claimed(a)' <=> Claimed(a)
    BY <2>1 DEF Opening, Closing, Claimed
  <2>4. ASSUME NEW a \in Attempts
        PROVE  Unclaimed(a)' /\ SessionCustody(a)' /\ OpenCustody(a)' /\ NoLeak(a)'
    <3>1. a = a0 => Claimed(a) /\ capture /= a
      BY <2>3 DEF Custody, OpenCustody
    <3>2. Unclaimed(a)'
      BY <2>1, <2>2, <3>1 DEF Custody, Unclaimed, Claimed
    <3>3. SessionCustody(a)' /\ OpenCustody(a)' /\ NoLeak(a)'
      BY <2>1, <2>2, <2>3, <3>1 DEF Custody, SessionCustody, OpenCustody, NoLeak
    <3>4. QED
      BY <3>2, <3>3
  <2>5. \A a \in Attempts : CloseCustody(a)'
    BY <2>1, <2>2, <2>3 DEF Custody, CloseCustody
  <2>6. Waiting' /\ SessionEmpty'
    BY <2>1 DEF Waiting, SessionEmpty, EmptyPcs, OwnerPcs, ClosePcs
  <2>7. QED
    BY <2>4, <2>5, <2>6 DEF Custody
<1>6. CASE OpenInstall
  <2>1. /\ UNCHANGED <<attempt, device, pending, toRelease, mine>> /\ capture' = a0
        /\ pc[Owner] = "install" /\ pc'[Owner] = "idle"
        /\ \A u \in Threads : u /= Owner => pc'[u] = pc[u]
    BY <1>0, <1>6 DEF OpenInstall, Goto, opening
  <2>2. capture = None /\ a0 \in Attempts
    BY <2>1 DEF Custody, Waiting, SessionEmpty, EmptyPcs, OwnerPcs, ClosePcs
  <2>3. \A a \in Attempts : /\ Opening(a) <=> a = a0
                            /\ ~Opening(a)'
                            /\ capture /= a
                            /\ Closing(a)' <=> Closing(a)
                            /\ Claimed(a)' <=> Claimed(a)
    BY <2>1, <2>2, NoneAssumption DEF Opening, Closing, Claimed
  <2>4. \A a \in Attempts : Unclaimed(a)'
    BY <2>1 DEF Custody, Unclaimed
  <2>5. \A a \in Attempts : SessionCustody(a)' /\ OpenCustody(a)' /\ NoLeak(a)'
    BY <2>1, <2>3 DEF Custody, SessionCustody, OpenCustody, NoLeak
  <2>6. \A a \in Attempts : CloseCustody(a)'
    BY <2>1, <2>3 DEF Custody, CloseCustody
  <2>7. Waiting' /\ SessionEmpty'
    BY <2>1 DEF Waiting, SessionEmpty, EmptyPcs, OwnerPcs, ClosePcs
  <2>8. QED
    BY <2>4, <2>5, <2>6, <2>7 DEF Custody
<1>7. QED
  BY <1>1, <1>2, <1>3, <1>4, <1>5, <1>6 DEF OpenStep

LEMMA CustodyConstruction ==
    ASSUME TypeOK, Custody, NEW b \in Attempts, Construction(b)
    PROVE  Custody'
<1> USE ThreadsFacts
<1>1. UNCHANGED <<capture, toRelease, pc, mine>>
  BY DEF Construction, ConstructionEnds, ConstructionDiscards, shared, locals
<1>2. \A a \in Attempts : (Opening(a)' <=> Opening(a)) /\ (Closing(a)' <=> Closing(a))
  BY <1>1 DEF Opening, Closing
<1>3. CASE ConstructionEnds(b)
  <2>1. /\ attempt[b].phase = "running" /\ ~attempt[b].claimed /\ pending = b
        /\ capture /= b /\ ~Opening(b) /\ \A t \in Threads : b \notin toRelease[t]
    BY <1>3 DEF ConstructionEnds, Custody, Unclaimed, SessionCustody, OpenCustody,
                CloseCustody, Claimed
  <2>2. PICK result \in {"live", "error"} : device' = [device EXCEPT ![b] = result]
    BY <1>3 DEF ConstructionEnds
  <2>3. \A a \in Attempts : device'[a] = IF a = b THEN result ELSE device[a]
    BY <2>2 DEF TypeOK, OpeningType
  <2>4. CASE attempt[b].cancelled
    <3>1. /\ attempt' = [attempt EXCEPT ![b].phase = "discarding", ![b].claimed = TRUE]
          /\ pending' = None
      BY <1>3, <2>1, <2>4 DEF ConstructionEnds
    <3>2. \A a \in Attempts :
            /\ attempt'[a].phase = IF a = b THEN "discarding" ELSE attempt[a].phase
            /\ attempt'[a].claimed <=> attempt[a].claimed \/ a = b
      BY <3>1 DEF TypeOK, OpeningType, AttemptRecord
    <3>3. \A a \in Attempts : Claimed(a)' <=> Claimed(a)
      BY <2>1, <3>2 DEF Claimed
    <3>4. ASSUME NEW a \in Attempts PROVE Unclaimed(a)'
      <4>0. Unclaimed(a)
        BY DEF Custody
      <4>1. CASE a = b
        <5>1. /\ attempt'[a].phase = "discarding" /\ device'[a] \in {"live", "error"}
              /\ attempt'[a].claimed
          BY <2>3, <3>2, <4>1
        <5>2. pending' /= a
          BY <3>1, NoneAssumption
        <5>3. QED
          BY <5>1, <5>2 DEF Unclaimed
      <4>2. CASE a /= b
        BY <2>1, <2>3, <3>1, <3>2, <4>0, <4>2, NoneAssumption DEF Unclaimed
      <4>3. QED
        BY <4>1, <4>2
    <3>5. \A a \in Attempts : SessionCustody(a)' /\ OpenCustody(a)' /\ NoLeak(a)'
      BY <1>1, <1>2, <2>1, <2>3, <3>2, <3>3
         DEF Custody, SessionCustody, OpenCustody, NoLeak, Claimed
    <3>6. \A a \in Attempts : CloseCustody(a)'
      BY <1>1, <1>2, <2>1, <2>3, <3>3 DEF Custody, CloseCustody
    <3>7. Waiting' /\ SessionEmpty'
      BY <1>1, <3>2 DEF Custody, Waiting, SessionEmpty
    <3>8. QED
      BY <3>4, <3>5, <3>6, <3>7 DEF Custody
  <2>5. CASE ~attempt[b].cancelled
    <3>1. /\ attempt' = [attempt EXCEPT ![b].phase = "completed"]
          /\ pending' = pending
      BY <1>3, <2>5 DEF ConstructionEnds
    <3>2. \A a \in Attempts :
            /\ attempt'[a].phase = IF a = b THEN "completed" ELSE attempt[a].phase
            /\ attempt'[a].claimed = attempt[a].claimed
      BY <3>1 DEF TypeOK, OpeningType, AttemptRecord
    <3>3. \A a \in Attempts : Claimed(a)' <=> Claimed(a)
      BY <2>1, <3>2 DEF Claimed
    <3>4. \A a \in Attempts : Unclaimed(a)'
      BY <2>1, <2>3, <3>1, <3>2 DEF Custody, Unclaimed
    <3>5. \A a \in Attempts : SessionCustody(a)' /\ OpenCustody(a)' /\ NoLeak(a)'
      BY <1>1, <1>2, <2>1, <2>3, <3>2, <3>3
         DEF Custody, SessionCustody, OpenCustody, NoLeak, Claimed
    <3>6. \A a \in Attempts : CloseCustody(a)'
      BY <1>1, <1>2, <2>1, <2>3, <3>3 DEF Custody, CloseCustody
    <3>7. Waiting' /\ SessionEmpty'
      BY <1>1, <3>2 DEF Custody, Waiting, SessionEmpty
    <3>8. QED
      BY <3>4, <3>5, <3>6, <3>7 DEF Custody
  <2>6. QED
    BY <2>4, <2>5
<1>4. CASE ConstructionDiscards(b)
  <2>1. /\ attempt[b].phase = "discarding" /\ UNCHANGED pending
        /\ attempt' = [attempt EXCEPT ![b].phase = "completed"]
        /\ device' = Release({b})
    BY <1>4 DEF ConstructionDiscards
  <2>2. /\ attempt[b].claimed /\ pending /= b /\ device[b] \in {"live", "error"}
        /\ capture /= b /\ ~Opening(b) /\ \A t \in Threads : b \notin toRelease[t]
    BY <2>1 DEF Custody, Unclaimed, SessionCustody, OpenCustody, CloseCustody, Claimed
  <2>3. \A a \in Attempts :
          /\ attempt'[a].phase = IF a = b THEN "completed" ELSE attempt[a].phase
          /\ attempt'[a].claimed = attempt[a].claimed
    BY <2>1 DEF TypeOK, OpeningType, AttemptRecord
  <2>4. /\ \A a \in Attempts : a /= b => device'[a] = device[a]
        /\ device'[b] \in {"released", "error"}
    BY <2>1, <2>2 DEF Release
  <2>5. \A a \in Attempts : a /= b => (Claimed(a)' <=> Claimed(a))
    BY <2>3 DEF Claimed
  <2>6. ASSUME NEW a \in Attempts PROVE Unclaimed(a)'
    <3>0. Unclaimed(a)
      BY DEF Custody
    <3>1. CASE a = b
      BY <2>1, <2>2, <2>3, <2>4, <3>1 DEF Unclaimed
    <3>2. CASE a /= b
      BY <2>1, <2>2, <2>3, <2>4, <3>0, <3>2 DEF Unclaimed
    <3>3. QED
      BY <3>1, <3>2
  <2>7. \A a \in Attempts : SessionCustody(a)' /\ OpenCustody(a)' /\ NoLeak(a)'
    BY <1>1, <1>2, <2>2, <2>4, <2>5 DEF Custody, SessionCustody, OpenCustody, NoLeak
  <2>8. \A a \in Attempts : CloseCustody(a)'
    BY <1>1, <1>2, <2>2, <2>4, <2>5 DEF Custody, CloseCustody
  <2>9. Waiting' /\ SessionEmpty'
    BY <1>1, <2>3 DEF Custody, Waiting, SessionEmpty
  <2>10. QED
    BY <2>6, <2>7, <2>8, <2>9 DEF Custody
<1>5. QED
  BY <1>3, <1>4 DEF Construction

\* Calls, reads and the reader threads move no capture.
LEMMA CustodyCalls ==
    ASSUME TypeOK, Custody,
           OwnerCall \/ (\E t \in Closers : CallStopClose(t)) \/ ReadStep
    PROVE  Custody'
<1> USE ThreadsFacts
<1>1. PICK t \in Threads, l \in Pcs :
        /\ Goto(t, l) \/ UNCHANGED pc
        /\ l \notin {"wait", "install", "inspect"} /\ l \notin EmptyPcs
        /\ pc[t] \in {"idle", "done", "read"}
        /\ UNCHANGED <<attempt, device, pending, capture, toRelease>>
        /\ mine'.attempt = mine.attempt
  <2> DEFINE Kept == UNCHANGED <<attempt, device, pending, capture, toRelease>>
  <2>0. /\ {"idle", "close", "read"} \subseteq Pcs /\ Owner \in Threads
        /\ \A l \in {"idle", "close", "read"} :
             l \notin {"wait", "install", "inspect"} /\ l \notin EmptyPcs
    BY DEF Pcs, OwnerPcs, ClosePcs, EmptyPcs, Threads
  <2>1. CASE CallOpen \/ CallCloseForReconnect \/ CallFinalClose
    BY <2>0, <2>1 DEF CallOpen, CallCloseForReconnect, CallFinalClose, BeginClose, shared,
                      opening
  <2>2. CASE Restart
    BY <2>0, <2>2 DEF Restart, shared, opening
  <2>3. CASE ReadBegin
    <3>1. /\ pc[Owner] = "idle" /\ Kept
          /\ \/ UNCHANGED <<pc, mine>>
             \/ Goto(Owner, "read") /\ mine' = [mine EXCEPT !.up = LooksOpen]
      BY <2>3 DEF ReadBegin, shared, opening
    <3>2. mine'.attempt = mine.attempt
      BY <3>1 DEF TypeOK, LocalsType
    <3>3. QED
      BY <2>0, <3>1, <3>2
  <2>4. CASE \E u \in Closers : CallStopClose(u)
    BY <2>0, <2>4 DEF CallStopClose, BeginClose, shared, opening, Threads
  <2>5. CASE ReadStep
    BY <2>0, <2>5 DEF ReadStep, ReadFrame, ReadEmpty, shared, opening
  <2>6. QED
    BY <2>1, <2>2, <2>3, <2>4, <2>5 DEF OwnerCall
<1>2. QED
  BY <1>1, CustodyFrame

LEMMA CustodyStill ==
    ASSUME TypeOK, Custody,
           (\E a \in Attempts : ReaderStep(a)) \/ GraceExpires \/ UNCHANGED vars
    PROVE  Custody'
<1>1. UNCHANGED <<attempt, device, pending, capture, toRelease, pc, mine>>
  BY DEF ReaderStep, ReaderCheck, ReaderRead, ReaderPublish, ReaderRetry, ReaderFail,
         ReaderExit, GraceExpires, vars, shared, opening, locals
<1>2. \A a \in Attempts : /\ Unclaimed(a)' /\ SessionCustody(a)' /\ OpenCustody(a)'
                          /\ CloseCustody(a)' /\ NoLeak(a)'
  BY <1>1 DEF Custody, Unclaimed, SessionCustody, OpenCustody, CloseCustody, NoLeak,
              Opening, Closing, Claimed
<1>3. Waiting' /\ SessionEmpty'
  BY <1>1 DEF Custody, Waiting, SessionEmpty
<1>4. QED
  BY <1>2, <1>3 DEF Custody

LEMMA CustodyStep == TypeOK /\ Custody /\ [Next]_vars => Custody'
<1> SUFFICES ASSUME TypeOK, Custody, [Next]_vars PROVE Custody'
  OBVIOUS
<1>1. CASE OwnerCall \/ (\E t \in Closers : CallStopClose(t)) \/ ReadStep
  BY <1>1, CustodyCalls
<1>2. CASE \E t \in Threads : CloseStep(t)
  BY <1>2, CustodyClose
<1>3. CASE OpenStep
  BY <1>3, CustodyOpen
<1>4. CASE \E a \in Attempts : Construction(a)
  BY <1>4, CustodyConstruction
<1>5. CASE (\E a \in Attempts : ReaderStep(a)) \/ GraceExpires \/ UNCHANGED vars
  BY <1>5, CustodyStill
<1>6. QED
  BY <1>1, <1>2, <1>3, <1>4, <1>5 DEF Next, Terminated

THEOREM CustodyHolds == Spec => []Custody
BY CustodyInit, CustodyStep, TypeCorrect, PTL DEF Spec

-----------------------------------------------------------------------------
\* Whatever the timeouts, cancellations and restarts, and however many
\* threads close the source, the backend never runs two constructions.
THEOREM OneConstruction == Spec => []SingleConstruction
<1>1. TypeOK /\ Custody => SingleConstruction
  BY DEF Custody, Unclaimed, SingleConstruction
<1>2. QED
  BY <1>1, TypeCorrect, CustodyHolds, PTL

\* Keeps, one place at a time.
LEMMA KeepsFacts ==
    ASSUME NEW a \in Attempts
    PROVE  /\ Keeps(<<"attempt", Owner>>, a) <=>
                pending = a /\ attempt[a].phase = "completed" /\ ~attempt[a].claimed
           /\ Keeps(<<"construction", Owner>>, a) <=> attempt[a].phase = "discarding"
           /\ Keeps(<<"open", Owner>>, a) <=> Opening(a)
           /\ Keeps(<<"session", Owner>>, a) <=> capture = a
           /\ \A t \in Threads : Keeps(<<"close", t>>, a) <=> a \in toRelease[t]
BY DEF Keeps, Opening

LEMMA KeepersFacts ==
    /\ \A k \in Keepers : \/ k \in {<<"attempt", Owner>>, <<"construction", Owner>>,
                                    <<"open", Owner>>, <<"session", Owner>>}
                          \/ \E t \in Threads : k = <<"close", t>>
    /\ {<<"attempt", Owner>>, <<"construction", Owner>>, <<"open", Owner>>,
        <<"session", Owner>>} \subseteq Keepers
    /\ \A t \in Threads : <<"close", t>> \in Keepers
BY DEF Keepers

LEMMA OneKeeperFollows == TypeOK /\ Custody => OneKeeper
<1> SUFFICES ASSUME TypeOK, Custody, NEW a \in Attempts
             PROVE  /\ device[a] = "live" =>
                         \E k \in Keepers : \A j \in Keepers : Keeps(j, a) <=> j = k
                    /\ device[a] = "released" => \A j \in Keepers : ~Keeps(j, a)
  BY DEF OneKeeper
<1> DEFINE Only(k) == \A j \in Keepers : Keeps(j, a) <=> j = k
<1>0. attempt[a].phase \in {"unused", "running", "discarding", "completed"}
  BY DEF TypeOK, OpeningType, AttemptRecord
<1>1. Unclaimed(a) /\ SessionCustody(a) /\ OpenCustody(a) /\ CloseCustody(a) /\ NoLeak(a)
  BY DEF Custody
<1>2. ASSUME device[a] = "live" PROVE \E k \in Keepers : Only(k)
  <2>1. CASE attempt[a].phase = "discarding"
    <3>1. Only(<<"construction", Owner>>)
      BY <1>1, <2>1, KeepsFacts, KeepersFacts
         DEF SessionCustody, OpenCustody, CloseCustody, Claimed
    <3>2. QED
      BY <3>1, KeepersFacts
  <2>2. CASE attempt[a].phase = "completed" /\ ~attempt[a].claimed
    <3>1. Only(<<"attempt", Owner>>)
      BY <1>1, <2>2, KeepsFacts, KeepersFacts
         DEF Unclaimed, SessionCustody, OpenCustody, CloseCustody, Claimed
    <3>2. QED
      BY <3>1, KeepersFacts
  <2>3. CASE Claimed(a)
    <3>1. CASE capture = a
      <4>1. Only(<<"session", Owner>>)
        BY <1>1, <2>3, <3>1, KeepsFacts, KeepersFacts DEF OpenCustody, CloseCustody, Claimed
      <4>2. QED
        BY <4>1, KeepersFacts
    <3>2. CASE Opening(a)
      <4>1. Only(<<"open", Owner>>)
        BY <1>1, <2>3, <3>2, KeepsFacts, KeepersFacts DEF OpenCustody, CloseCustody, Claimed
      <4>2. QED
        BY <4>1, KeepersFacts
    <3>3. CASE Closing(a)
      <4>1. PICK t \in Threads : a \in toRelease[t]
        BY <3>3 DEF Closing
      <4>2. Only(<<"close", t>>)
        BY <1>1, <2>3, <4>1, KeepsFacts, KeepersFacts DEF CloseCustody, Claimed
      <4>3. QED
        BY <4>2, KeepersFacts
    <3>4. QED
      BY <1>1, <1>2, <2>3, <3>1, <3>2, <3>3 DEF NoLeak
  <2>4. QED
    BY <1>0, <1>1, <1>2, <2>1, <2>2, <2>3 DEF Unclaimed, Claimed
<1>3. ASSUME device[a] = "released" PROVE \A j \in Keepers : ~Keeps(j, a)
  BY <1>1, <1>3, KeepsFacts, KeepersFacts
     DEF Unclaimed, SessionCustody, OpenCustody, CloseCustody
<1>4. QED
  BY <1>2, <1>3

\* No capture leaks, and none is released twice or while it is in use, for
\* any number of attempts and of threads that close the source.
THEOREM CapturesAccountedFor == Spec => []OneKeeper
BY OneKeeperFollows, TypeCorrect, CustodyHolds, PTL

-----------------------------------------------------------------------------
(* Sessions: what the installed capture, its reader and the frames that    *)
(* wait for the Owner have in common.  A close raises the generation and   *)
(* takes the capture in one block, hence an installed capture belongs to   *)
(* the generation of now, which is the one its open armed (Current); and a *)
(* session is armed after its predecessor's packets were drained and when  *)
(* nobody can publish any (Drained).                                       *)

Current ==
    capture /= None => /\ reader[capture].pc /= "none"
                       /\ reader[capture].gen = generation
                       /\ mine.gen = generation
                       /\ ~stopEvent

Drained ==
    /\ pc[Owner] \in {"clear", "arm"} => queue = <<>>
    /\ pc[Owner] = "arm" => events = <<>>

Fresh(packets, gen) == \A i \in 1 .. Len(packets) : packets[i].gen = gen

\* The frames in the queue are younger than what was delivered, in the order
\* in which they were decoded.
InOrder(packets, first, last) ==
    /\ first <= last
    /\ \A i \in 1 .. Len(packets) : first < packets[i].seq /\ packets[i].seq <= last
    /\ \A i, j \in 1 .. Len(packets) : i < j => packets[i].seq < packets[j].seq

Waits == /\ Fresh(queue, mine.gen)
         /\ Fresh(events, mine.gen)
         /\ InOrder(queue, delivered.seq, sequence)

Sessions == Current /\ ConnectedHasReader /\ Drained /\ Waits

-----------------------------------------------------------------------------
(* What the queue operations do to packets.                                *)

LEMMA PacketElements ==
    ASSUME NEW q \in Seq(Packet), NEW i \in 1 .. Len(q)
    PROVE  q[i].gen \in Nat /\ q[i].seq \in Nat
<1>1. q[i] \in Packet
  OBVIOUS
<1>2. QED
  BY <1>1 DEF Packet

LEMMA AppendElements ==
    ASSUME NEW q \in Seq(Packet), NEW p \in Packet
    PROVE  /\ Len(Append(q, p)) = Len(q) + 1
           /\ \A i \in 1 .. Len(Append(q, p)) :
                IF i = Len(q) + 1 THEN Append(q, p)[i] = p
                ELSE i \in 1 .. Len(q) /\ Append(q, p)[i] = q[i]
OBVIOUS

LEMMA PushElements ==
    ASSUME NEW q \in Seq(Packet), NEW p \in Packet
    PROVE  \E d \in {0, 1} :
             /\ Len(Push(q, p)) = Len(q) + 1 - d
             /\ \A i \in 1 .. Len(Push(q, p)) :
                  IF i = Len(Push(q, p)) THEN Push(q, p)[i] = p
                  ELSE i + d \in 1 .. Len(q) /\ Push(q, p)[i] = q[i + d]
<1>1. CASE Len(q) = MaxBuffer
  <2> DEFINE rest == Tail(q)
             r    == Append(rest, p)
  <2>1. q /= <<>> /\ Len(q) \in Nat
    BY <1>1, BufferAssumption
  <2>2. /\ rest \in Seq(Packet) /\ Len(rest) = Len(q) - 1
        /\ \A i \in 1 .. Len(rest) : rest[i] = q[i + 1]
    BY <2>1
  <2>3. Push(q, p) = r
    BY <1>1 DEF Push
  <2> HIDE DEF rest
  <2>4. /\ Len(r) = Len(rest) + 1
        /\ \A i \in 1 .. Len(r) : IF i = Len(rest) + 1 THEN r[i] = p
                                  ELSE i \in 1 .. Len(rest) /\ r[i] = rest[i]
    BY <2>2, AppendElements
  <2> HIDE DEF r
  <2>5. \A i \in 1 .. Len(r) : IF i = Len(r) THEN r[i] = p
                               ELSE i + 1 \in 1 .. Len(q) /\ r[i] = q[i + 1]
    BY <2>1, <2>2, <2>4
  <2>6. Len(r) = Len(q) + 1 - 1
    BY <2>1, <2>2, <2>4
  <2>7. QED
    BY <2>3, <2>5, <2>6
<1>2. CASE Len(q) /= MaxBuffer
  <2>1. Push(q, p) = Append(q, p)
    BY <1>2 DEF Push
  <2>2. Len(Push(q, p)) = Len(q) + 1 - 0
    BY <2>1
  <2>3. \A i \in 1 .. Len(Push(q, p)) :
          IF i = Len(Push(q, p)) THEN Push(q, p)[i] = p
          ELSE i + 0 \in 1 .. Len(q) /\ Push(q, p)[i] = q[i + 0]
    BY <2>1
  <2>4. QED
    BY <2>2, <2>3
<1>3. QED
  BY <1>1, <1>2

\* A reader adds a packet of the session, younger than all before it.
LEMMA PushWaits ==
    ASSUME NEW q \in Seq(Packet), NEW g \in Nat, NEW first \in Nat, NEW last \in Nat,
           Fresh(q, g), InOrder(q, first, last)
    PROVE  /\ Fresh(Push(q, [gen |-> g, seq |-> last + 1]), g)
           /\ InOrder(Push(q, [gen |-> g, seq |-> last + 1]), first, last + 1)
<1> DEFINE p == [gen |-> g, seq |-> last + 1]
           r == Push(q, p)
<1>1. p \in Packet /\ p.gen = g /\ p.seq = last + 1
  BY DEF Packet
<1>2. PICK d \in {0, 1} :
        /\ Len(r) = Len(q) + 1 - d
        /\ \A i \in 1 .. Len(r) : IF i = Len(r) THEN r[i] = p
                                  ELSE i + d \in 1 .. Len(q) /\ r[i] = q[i + d]
  BY <1>1, PushElements
<1>3. /\ Len(q) \in Nat
      /\ \A i \in 1 .. Len(q) : q[i].gen \in Nat /\ q[i].seq \in Nat
  BY PacketElements
<1> HIDE DEF p, r
<1>4. Fresh(r, g)
  BY <1>1, <1>2 DEF Fresh
<1>5. InOrder(r, first, last + 1)
  <2>1. \A i \in 1 .. Len(r) : first < r[i].seq /\ r[i].seq <= last + 1
    BY <1>1, <1>2, <1>3 DEF InOrder
  <2>2. ASSUME NEW i \in 1 .. Len(r), NEW j \in 1 .. Len(r), i < j
        PROVE  r[i].seq < r[j].seq
    <3>1. i + d \in 1 .. Len(q) /\ r[i] = q[i + d]
      BY <1>2, <1>3, <2>2
    <3>2. CASE j = Len(r)
      <4>1. r[j].seq = last + 1
        BY <1>1, <1>2, <3>2
      <4>2. r[i].seq \in Nat /\ r[i].seq <= last
        BY <1>3, <3>1 DEF InOrder
      <4>3. QED
        BY <4>1, <4>2
    <3>3. CASE j /= Len(r)
      <4>1. j + d \in 1 .. Len(q) /\ r[j] = q[j + d] /\ i + d < j + d
        BY <1>2, <1>3, <2>2, <3>3
      <4>2. QED
        BY <3>1, <4>1 DEF InOrder
    <3>4. QED
      BY <3>2, <3>3
  <2>3. QED
    BY <2>1, <2>2 DEF InOrder
<1>6. QED
  BY <1>4, <1>5 DEF p, r

\* Taking the first packet leaves the rest in order, behind what was taken.
LEMMA TakeWaits ==
    ASSUME NEW q \in Seq(Packet), q /= <<>>, NEW g \in Nat, NEW first \in Nat,
           NEW last \in Nat, Fresh(q, g), InOrder(q, first, last)
    PROVE  /\ Head(q).gen = g /\ first < Head(q).seq
           /\ Fresh(Tail(q), g) /\ InOrder(Tail(q), Head(q).seq, last)
<1>1. /\ Head(q) = q[1] /\ 1 \in 1 .. Len(q)
      /\ Len(Tail(q)) = Len(q) - 1 /\ Len(q) \in Nat
      /\ \A i \in 1 .. Len(Tail(q)) : Tail(q)[i] = q[i + 1] /\ i + 1 \in 1 .. Len(q)
  OBVIOUS
<1>2. \A i \in 1 .. Len(q) : q[i].gen \in Nat /\ q[i].seq \in Nat
  BY PacketElements
<1>3. Head(q).gen = g /\ first < Head(q).seq /\ Head(q).seq <= last
  BY <1>1 DEF Fresh, InOrder
<1>4. Fresh(Tail(q), g)
  BY <1>1 DEF Fresh
<1>5. \A i \in 1 .. Len(Tail(q)) : Head(q).seq < Tail(q)[i].seq /\ Tail(q)[i].seq <= last
  BY <1>1, <1>2 DEF InOrder
<1>6. \A i, j \in 1 .. Len(Tail(q)) : i < j => Tail(q)[i].seq < Tail(q)[j].seq
  BY <1>1, <1>2 DEF InOrder
<1>7. QED
  BY <1>3, <1>4, <1>5, <1>6 DEF InOrder

LEMMA TakeEvents ==
    ASSUME NEW q \in Seq(Packet), q /= <<>>, NEW g \in Nat, Fresh(q, g)
    PROVE  Head(q).gen = g /\ Fresh(Tail(q), g)
<1>1. /\ Head(q) = q[1] /\ 1 \in 1 .. Len(q)
      /\ Len(Tail(q)) = Len(q) - 1
      /\ \A i \in 1 .. Len(Tail(q)) : Tail(q)[i] = q[i + 1] /\ i + 1 \in 1 .. Len(q)
  OBVIOUS
<1>2. QED
  BY <1>1 DEF Fresh

LEMMA EmptyWaits ==
    /\ \A g : Fresh(<<>>, g)
    /\ \A first, last \in Nat : first <= last => InOrder(<<>>, first, last)
BY DEF Fresh, InOrder

-----------------------------------------------------------------------------
(* One lemma per group of actions.                                         *)

LEMMA SessionsInit == Init => Sessions
<1> SUFFICES ASSUME Init PROVE Sessions
  OBVIOUS
<1>1. Current /\ ConnectedHasReader /\ Drained
  BY DEF Init, Current, ConnectedHasReader, Drained
<1>2. queue = <<>> /\ events = <<>> /\ delivered.seq = 0 /\ sequence = 0
  BY DEF Init
<1>3. Waits
  BY <1>2, EmptyWaits DEF Waits
<1>4. QED
  BY <1>1, <1>3 DEF Sessions

\* A step that touches neither the session nor the packets.
LEMMA SessionsFrame ==
    ASSUME Sessions,
           UNCHANGED <<generation, stopEvent, capture, connected, buffers, reader,
                       delivered>>,
           mine'.gen = mine.gen,
           pc'[Owner] \in {"clear", "arm"} => pc'[Owner] = pc[Owner]
    PROVE  Sessions'
<1>1. Current' /\ ConnectedHasReader' /\ Drained'
  BY DEF Sessions, Current, ConnectedHasReader, Drained, buffers
<1>2. Waits'
  BY DEF Sessions, Waits, buffers
<1>3. QED
  BY <1>1, <1>2 DEF Sessions

LEMMA SessionsCalls ==
    ASSUME TypeOK, Sessions,
           \/ CallOpen \/ CallCloseForReconnect \/ CallFinalClose \/ Restart
           \/ \E t \in Closers : CallStopClose(t)
    PROVE  Sessions'
<1>1. pc \in [Threads -> Pcs] /\ Owner \in Threads /\ \A t \in Closers : t \in Threads
  BY ThreadsFacts DEF TypeOK, LocalsType
<1>2. PICK t \in Threads, l \in {"close", "idle"} :
        pc' = [pc EXCEPT ![t] = l] /\ mine' = mine
  BY <1>1 DEF CallOpen, CallCloseForReconnect, CallFinalClose, Restart, CallStopClose,
              BeginClose, Goto
<1>3. pc'[Owner] \in {"clear", "arm"} => pc'[Owner] = pc[Owner]
  BY <1>1, <1>2
<1>4. UNCHANGED <<generation, stopEvent, capture, connected, buffers, reader, delivered>>
  BY DEF CallOpen, CallCloseForReconnect, CallFinalClose, Restart, CallStopClose, shared
<1>5. QED
  BY <1>2, <1>3, <1>4, SessionsFrame

LEMMA SessionsClose ==
    ASSUME TypeOK, Sessions, NEW t \in Threads, CloseStep(t)
    PROVE  Sessions'
<1>0. pc \in [Threads -> Pcs] /\ Owner \in Threads
  BY ThreadsFacts DEF TypeOK, LocalsType
<1>1. CASE CloseLocked(t)
  <2>1. /\ capture' = None /\ connected' = FALSE /\ pc' = [pc EXCEPT ![t] = "release"]
        /\ UNCHANGED <<queue, events, sequence, mine, delivered>>
    BY <1>1 DEF CloseLocked, Goto, buffers
  <2>2. Current' /\ ConnectedHasReader' /\ Drained'
    BY <1>0, <2>1 DEF Sessions, Current, ConnectedHasReader, Drained
  <2>3. Waits'
    BY <2>1 DEF Sessions, Waits
  <2>4. QED
    BY <2>2, <2>3 DEF Sessions
<1>2. CASE CloseRelease(t)
  <2>1. /\ UNCHANGED <<generation, stopEvent, capture, connected, buffers, reader, mine,
                       delivered>>
        /\ pc' = [pc EXCEPT ![t] = "drain"]
    BY <1>2 DEF CloseRelease, Goto, shared
  <2>2. QED
    BY <1>0, <2>1, SessionsFrame
<1>3. CASE CloseDrain(t)
  <2>1. /\ UNCHANGED <<generation, stopEvent, capture, connected, events, sequence, reader,
                       mine, delivered>>
        /\ queue' = <<>> /\ pc' = [pc EXCEPT ![t] = "clear"]
    BY <1>3 DEF CloseDrain, Goto, shared
  <2>2. Current' /\ ConnectedHasReader' /\ Drained'
    BY <1>0, <2>1 DEF Sessions, Current, ConnectedHasReader, Drained
  <2>3. delivered.seq \in Nat /\ sequence \in Nat
    BY DEF TypeOK, BuffersType, DeliveredType, Results
  <2>4. Waits'
    BY <2>1, <2>3, EmptyWaits DEF Sessions, Waits, InOrder
  <2>5. QED
    BY <2>2, <2>4 DEF Sessions
<1>4. CASE CloseClear(t)
  <2>1. /\ UNCHANGED <<generation, stopEvent, capture, connected, queue, sequence, reader,
                       mine, delivered>>
        /\ events' = <<>> /\ pc[t] = "clear"
    BY <1>4 DEF CloseClear, shared
  <2>2. PICK l \in {"arm", "close", "done", "idle"} : Goto(t, l)
    BY <1>4 DEF CloseClear
  <2>3. Current' /\ ConnectedHasReader'
    BY <2>1 DEF Sessions, Current, ConnectedHasReader
  <2>4. Drained'
    BY <1>0, <2>1, <2>2 DEF Sessions, Drained, Goto
  <2>5. Waits'
    BY <2>1, EmptyWaits DEF Sessions, Waits
  <2>6. QED
    BY <2>3, <2>4, <2>5 DEF Sessions
<1>5. QED
  BY <1>1, <1>2, <1>3, <1>4 DEF CloseStep

LEMMA SessionsOpen ==
    ASSUME TypeOK, Custody, Sessions, OpenStep
    PROVE  Sessions'
<1>0. /\ pc \in [Threads -> Pcs] /\ Owner \in Threads
      /\ mine \in [gen : Nat, attempt : Attempts \cup {None}, up : BOOLEAN]
      /\ reader \in [Attempts -> ReaderRecord]
  BY ThreadsFacts DEF TypeOK, LocalsType, ReaderType
<1>1. CASE OpenArm
  <2>1. /\ pc[Owner] = "arm" /\ pc' = [pc EXCEPT ![Owner] = "start"]
        /\ mine' = [mine EXCEPT !.gen = generation]
        /\ UNCHANGED <<capture, connected, queue, events, sequence, reader, generation,
                       delivered>>
    BY <1>1 DEF OpenArm, Goto, buffers
  <2>2. capture = None /\ queue = <<>> /\ events = <<>>
    BY <2>1 DEF Custody, SessionEmpty, EmptyPcs, OwnerPcs, Sessions, Drained
  <2>3. Current' /\ ConnectedHasReader' /\ Drained'
    BY <1>0, <2>1, <2>2 DEF Sessions, Current, ConnectedHasReader, Drained
  <2>4. Waits'
    BY <2>1, <2>2, EmptyWaits DEF Sessions, Waits
  <2>5. QED
    BY <2>3, <2>4 DEF Sessions
<1>2. CASE OpenStart
  <2>1. /\ UNCHANGED <<generation, stopEvent, capture, connected, buffers, reader,
                       delivered>>
        /\ pc' = [pc EXCEPT ![Owner] = "wait"]
        /\ \E a : mine' = [mine EXCEPT !.attempt = a]
    BY <1>2 DEF OpenStart, Goto, shared
  <2>2. mine'.gen = mine.gen
    BY <1>0, <2>1
  <2>3. QED
    BY <1>0, <2>1, <2>2, SessionsFrame
<1>3. CASE OpenStartExhausted \/ OpenTimeout \/ OpenClaim \/ OpenInspect \/ OpenDiscard
  <2>1. /\ UNCHANGED <<generation, stopEvent, capture, connected, buffers, reader, mine,
                       delivered>>
        /\ \E l \in {"idle", "inspect", "install"} : pc' = [pc EXCEPT ![Owner] = l]
    BY <1>3 DEF OpenStartExhausted, OpenTimeout, OpenClaim, OpenInspect, OpenDiscard, Goto,
                shared
  <2>2. QED
    BY <1>0, <2>1, SessionsFrame
<1>4. CASE OpenInstall
  <2>1. /\ pc[Owner] = "install" /\ mine.gen = generation /\ ~stopEvent
        /\ capture' = mine.attempt /\ connected' = TRUE /\ events' = <<>>
        /\ reader' = [reader EXCEPT ![mine.attempt] = [pc |-> "check", gen |-> mine.gen]]
        /\ pc' = [pc EXCEPT ![Owner] = "idle"]
        /\ UNCHANGED <<generation, stopEvent, queue, sequence, mine, delivered>>
    BY <1>4 DEF OpenInstall, OpenIsCurrent, Goto
  <2>2. mine.attempt \in Attempts
    BY <2>1 DEF Custody, Waiting
  <2>3. reader'[capture'] = [pc |-> "check", gen |-> generation] /\ capture' /= None
    BY <1>0, <2>1, <2>2, NoneAssumption
  <2>4. Current' /\ ConnectedHasReader' /\ Drained'
    BY <1>0, <2>1, <2>3 DEF Current, ConnectedHasReader, Drained
  <2>5. Waits'
    BY <2>1, EmptyWaits DEF Sessions, Waits
  <2>6. QED
    BY <2>4, <2>5 DEF Sessions
<1>5. QED
  BY <1>1, <1>2, <1>3, <1>4 DEF OpenStep

\* Only the reader of the installed capture publishes, and when it leaves it
\* takes the connection with it.
LEMMA SessionsReader ==
    ASSUME TypeOK, Custody, Sessions, NEW a \in Attempts, ReaderStep(a)
    PROVE  Sessions'
<1>0. /\ reader \in [Attempts -> ReaderRecord]
      /\ queue \in Seq(Packet) /\ events \in Seq(Packet) /\ sequence \in Nat
      /\ delivered.seq \in Nat /\ reader[a].gen \in Nat
      /\ capture \in Attempts \cup {None}
  BY DEF TypeOK, ReaderType, ReaderRecord, BuffersType, SharedType, DeliveredType, Results
<1>1. PICK l : reader' = [reader EXCEPT ![a].pc = l]
               /\ l \in {"check", "reading", "frame", "invalid", "exiting", "exited"}
  BY DEF ReaderStep, ReaderCheck, ReaderRead, ReaderPublish, ReaderRetry, ReaderFail,
         ReaderExit, ReaderGoto
<1>2. /\ \A b \in Attempts : b /= a => reader'[b] = reader[b]
      /\ reader'[a].gen = reader[a].gen /\ reader'[a].pc = l
  BY <1>0, <1>1 DEF ReaderRecord
<1>3. UNCHANGED <<generation, stopEvent, capture, mine, pc, delivered>>
  BY DEF ReaderStep, ReaderCheck, ReaderRead, ReaderPublish, ReaderRetry, ReaderFail,
         ReaderExit, shared, locals
<1>4. capture = a => SessionActive(a) /\ mine.gen = reader[a].gen
  BY <1>0, NoneAssumption DEF Sessions, Current, SessionActive
<1>5. SessionActive(a) => capture = a
  BY DEF SessionActive
<1>6. Current'
  BY <1>0, <1>1, <1>2, <1>3 DEF Sessions, Current
<1>7. ConnectedHasReader'
  <2>1. connected' => connected
    BY DEF ReaderStep, ReaderCheck, ReaderRead, ReaderPublish, ReaderRetry, ReaderFail,
           ReaderExit, shared
  <2>2. l = "exited" => connected' = (connected /\ ~SessionActive(a))
    BY <1>0, <1>1, <1>2
       DEF ReaderStep, ReaderCheck, ReaderRead, ReaderPublish, ReaderRetry, ReaderFail,
           ReaderExit, ReaderGoto, ReaderRecord
  <2>3. connected' /\ capture = a => l /= "exited"
    BY <1>4, <2>2
  <2>4. QED
    BY <1>0, <1>1, <1>2, <1>3, <2>1, <2>3 DEF Sessions, ConnectedHasReader
<1>8. CASE SessionActive(a)
  <2>1. capture \in Attempts /\ capture /= None /\ mine.gen = reader[a].gen
    BY <1>0, <1>4, <1>5, <1>8, NoneAssumption
  <2>2. Drained'
    <3>1. pc[Owner] \notin {"clear", "arm"}
      BY <2>1 DEF Custody, SessionEmpty, EmptyPcs, OwnerPcs, ClosePcs
    <3>2. QED
      BY <1>3, <3>1 DEF Drained
  <2>3. CASE ReaderPublish(a)
    <3>1. /\ sequence' = sequence + 1 /\ UNCHANGED events
          /\ queue' = Push(queue, [gen |-> reader[a].gen, seq |-> sequence + 1])
      BY <1>8, <2>3 DEF ReaderPublish, NextSequence
    <3>2. Fresh(queue, reader[a].gen) /\ InOrder(queue, delivered.seq, sequence)
      BY <2>1 DEF Sessions, Waits
    <3>3. Fresh(queue', mine.gen) /\ InOrder(queue', delivered.seq, sequence')
      BY <1>0, <2>1, <3>1, <3>2, PushWaits
    <3>4. QED
      BY <1>3, <1>6, <1>7, <2>2, <3>1, <3>3 DEF Sessions, Waits
  <2>4. CASE ReaderFail(a)
    <3>1. /\ events' = Append(events, [gen |-> mine.gen, seq |-> 0])
          /\ UNCHANGED <<queue, sequence>>
      BY <1>8, <2>1, <2>4 DEF ReaderFail
    <3>2. [gen |-> mine.gen, seq |-> 0] \in Packet
      BY <1>0, <2>1 DEF Packet
    <3>3. Fresh(events', mine.gen)
      BY <1>0, <3>1, <3>2, AppendElements DEF Sessions, Waits, Fresh
    <3>4. QED
      BY <1>3, <1>6, <1>7, <2>2, <3>1, <3>3 DEF Sessions, Waits
  <2>5. CASE ~ReaderPublish(a) /\ ~ReaderFail(a)
    <3>1. UNCHANGED <<queue, events, sequence>>
      BY <2>5 DEF ReaderStep, ReaderCheck, ReaderRead, ReaderRetry, ReaderExit, buffers
    <3>2. QED
      BY <1>3, <1>6, <1>7, <2>2, <3>1 DEF Sessions, Waits
  <2>6. QED
    BY <2>3, <2>4, <2>5
<1>9. CASE ~SessionActive(a)
  <2>1. UNCHANGED <<queue, events, sequence>>
    BY <1>9 DEF ReaderStep, ReaderCheck, ReaderRead, ReaderPublish, ReaderRetry, ReaderFail,
                ReaderExit, buffers
  <2>2. Drained' /\ Waits'
    BY <1>3, <2>1 DEF Sessions, Drained, Waits
  <2>3. QED
    BY <1>6, <1>7, <2>2 DEF Sessions
<1>10. QED
  BY <1>8, <1>9

\* read(): what it hands out, and what stays behind.
LEMMA ReadDelivers ==
    ASSUME TypeOK, Sessions, ReadBegin \/ ReadStep
    PROVE  /\ Waits'
           /\ mine'.gen = mine.gen
           /\ delivered' /= delivered =>
                /\ delivered'.gen = mine.gen
                /\ delivered'.kind = "frame" => delivered'.seq > delivered.seq
<1>0. /\ queue \in Seq(Packet) /\ events \in Seq(Packet) /\ sequence \in Nat
      /\ delivered.seq \in Nat /\ mine.gen \in Nat
      /\ mine \in [gen : Nat, attempt : Attempts \cup {None}, up : BOOLEAN]
      /\ Fresh(queue, mine.gen) /\ Fresh(events, mine.gen)
      /\ InOrder(queue, delivered.seq, sequence)
  BY DEF TypeOK, BuffersType, DeliveredType, Results, LocalsType, Sessions, Waits
<1>1. mine'.gen = mine.gen /\ sequence' = sequence
  <2>1. sequence' = sequence /\ (mine' = mine \/ mine' = [mine EXCEPT !.up = LooksOpen])
    BY DEF ReadBegin, ReadStep, ReadFrame, ReadEmpty
  <2>2. QED
    BY <1>0, <2>1
<1>2. CASE ReadFrame
  <2>1. /\ queue /= <<>> /\ queue' = Tail(queue) /\ UNCHANGED events
        /\ delivered' = [kind |-> "frame", gen |-> Head(queue).gen, seq |-> Head(queue).seq]
    BY <1>2 DEF ReadFrame, Deliver
  <2>2. /\ Head(queue).gen = mine.gen /\ delivered.seq < Head(queue).seq
        /\ Fresh(Tail(queue), mine.gen) /\ InOrder(Tail(queue), Head(queue).seq, sequence)
    BY <1>0, <2>1, TakeWaits
  <2>3. delivered'.gen = mine.gen /\ delivered'.seq = Head(queue).seq
    BY <2>1, <2>2
  <2>4. Waits'
    BY <1>0, <1>1, <2>1, <2>2, <2>3 DEF Waits
  <2>5. Head(queue).seq \in Nat
    BY <1>0, <2>1, PacketElements
  <2>6. QED
    BY <1>0, <1>1, <2>2, <2>3, <2>4, <2>5
<1>3. CASE PopEvent
  <2>1. /\ events /= <<>> /\ events' = Tail(events) /\ UNCHANGED queue
        /\ delivered' = [kind |-> "corrupt", gen |-> Head(events).gen, seq |-> delivered.seq]
    BY <1>3 DEF PopEvent, Deliver
  <2>2. Head(events).gen = mine.gen /\ Fresh(Tail(events), mine.gen)
    BY <1>0, <2>1, TakeEvents
  <2>3. /\ delivered'.kind = "corrupt" /\ delivered'.gen = mine.gen
        /\ delivered'.seq = delivered.seq
    BY <2>1, <2>2
  <2>4. Waits'
    BY <1>0, <1>1, <2>1, <2>2, <2>3 DEF Waits
  <2>5. QED
    BY <1>1, <2>3, <2>4
<1>4. CASE ~ReadFrame /\ ~PopEvent
  <2>1. UNCHANGED <<queue, events>>
    BY <1>4 DEF ReadBegin, ReadStep, ReadEmpty
  <2>2. \/ UNCHANGED delivered
        \/ \E k \in {"timeout", "disconnected"} :
             delivered' = [kind |-> k, gen |-> mine.gen, seq |-> delivered.seq]
    BY <1>4 DEF ReadBegin, ReadStep, ReadEmpty, Deliver
  <2>3. /\ delivered'.seq = delivered.seq
        /\ delivered' /= delivered => delivered'.gen = mine.gen /\ delivered'.kind /= "frame"
    BY <2>2
  <2>4. Waits'
    BY <1>0, <1>1, <2>1, <2>3 DEF Waits
  <2>5. QED
    BY <1>1, <2>3, <2>4
<1>5. QED
  BY <1>2, <1>3, <1>4

LEMMA SessionsReads ==
    ASSUME TypeOK, Sessions, ReadBegin \/ ReadStep
    PROVE  Sessions'
<1>1. /\ pc[Owner] \in {"idle", "read"}
      /\ UNCHANGED <<generation, stopEvent, capture, connected, reader>>
      /\ pc' = pc \/ \E l \in {"idle", "read"} : pc' = [pc EXCEPT ![Owner] = l]
  BY DEF ReadBegin, ReadStep, ReadFrame, ReadEmpty, Goto, shared
<1>2. Waits' /\ mine'.gen = mine.gen
  BY ReadDelivers
<1>3. pc'[Owner] \notin {"clear", "arm"}
  BY <1>1, ThreadsFacts DEF TypeOK, LocalsType
<1>4. Current' /\ ConnectedHasReader' /\ Drained'
  BY <1>1, <1>2, <1>3 DEF Sessions, Current, ConnectedHasReader, Drained
<1>5. QED
  BY <1>2, <1>4 DEF Sessions

LEMMA SessionsStill ==
    ASSUME Sessions,
           (\E a \in Attempts : Construction(a)) \/ GraceExpires \/ UNCHANGED vars
    PROVE  Sessions'
<1>1. /\ UNCHANGED <<generation, stopEvent, capture, connected, buffers, reader, delivered,
                     mine, pc>>
  BY DEF Construction, ConstructionEnds, ConstructionDiscards, GraceExpires, vars, shared,
         locals
<1>2. QED
  BY <1>1, SessionsFrame

LEMMA SessionsStep == TypeOK /\ Custody /\ Sessions /\ [Next]_vars => Sessions'
<1> SUFFICES ASSUME TypeOK, Custody, Sessions, [Next]_vars PROVE Sessions'
  OBVIOUS
<1>1. CASE \/ CallOpen \/ CallCloseForReconnect \/ CallFinalClose \/ Restart
           \/ \E t \in Closers : CallStopClose(t)
  BY <1>1, SessionsCalls
<1>2. CASE ReadBegin \/ ReadStep
  BY <1>2, SessionsReads
<1>3. CASE \E t \in Threads : CloseStep(t)
  BY <1>3, SessionsClose
<1>4. CASE OpenStep
  BY <1>4, SessionsOpen
<1>5. CASE \E a \in Attempts : ReaderStep(a)
  BY <1>5, SessionsReader
<1>6. CASE (\E a \in Attempts : Construction(a)) \/ GraceExpires \/ UNCHANGED vars
  BY <1>6, SessionsStill
<1>7. QED
  BY <1>1, <1>2, <1>3, <1>4, <1>5, <1>6 DEF Next, OwnerCall, Terminated

\* The inductive invariant of a session, for any number of captures, frames,
\* reconnects and threads that close the source.
THEOREM SessionsAgree == Spec => []Sessions
BY SessionsInit, SessionsStep, TypeCorrect, CustodyHolds, PTL DEF Spec

\* A source that calls itself connected has a reader that runs on the
\* installed capture, in the generation of now: the Owner never waits for
\* frames that nobody decodes.
THEOREM ConnectedIsRead == Spec => []ConnectedHasReader
<1>1. Sessions => ConnectedHasReader
  BY DEF Sessions
<1>2. QED
  BY <1>1, SessionsAgree, PTL

\* What changes the last delivery is a read.
LEMMA DeliveryIsARead ==
    ASSUME Next, delivered' /= delivered
    PROVE  ReadBegin \/ ReadStep
<1>1. CASE \E a \in Attempts : Construction(a) \/ ReaderStep(a)
  BY <1>1 DEF Construction, ConstructionEnds, ConstructionDiscards, ReaderStep, ReaderCheck,
              ReaderRead, ReaderPublish, ReaderRetry, ReaderFail, ReaderExit
<1>2. CASE OpenStep
  BY <1>2 DEF OpenStep, OpenArm, OpenStart, OpenStartExhausted, OpenTimeout, OpenClaim,
              OpenInspect, OpenInstall, OpenDiscard
<1>3. CASE \E t \in Threads : CloseStep(t)
  BY <1>3 DEF CloseStep, CloseLocked, CloseRelease, CloseDrain, CloseClear
<1>4. CASE OwnerCall \/ (\E t \in Closers : CallStopClose(t)) \/ ReadStep
  BY <1>4 DEF OwnerCall, CallOpen, CallCloseForReconnect, CallFinalClose, Restart,
              CallStopClose
<1>5. CASE GraceExpires \/ Terminated
  BY <1>5 DEF GraceExpires, Terminated, vars
<1>6. QED
  BY <1>1, <1>2, <1>3, <1>4, <1>5 DEF Next

LEMMA DeliveriesFit ==
    TypeOK /\ Sessions /\ [Next]_vars /\ delivered' /= delivered =>
        /\ delivered'.gen = mine.gen
        /\ delivered'.kind = "frame" => delivered'.seq > delivered.seq
<1> SUFFICES ASSUME TypeOK, Sessions, [Next]_vars, delivered' /= delivered
             PROVE  /\ delivered'.gen = mine.gen
                    /\ delivered'.kind = "frame" => delivered'.seq > delivered.seq
  OBVIOUS
<1>1. Next
  BY DEF vars
<1>2. ReadBegin \/ ReadStep
  BY <1>1, DeliveryIsARead
<1>3. QED
  BY <1>2, ReadDelivers

\* No frame and no status of a replaced stream crosses a reconnect: what
\* read() hands out belongs to the session the Owner opened last.
THEOREM DeliveriesAreFresh == Spec => FreshDelivery
<1>1. TypeOK /\ Sessions /\ [Next]_vars =>
        [delivered' /= delivered => delivered'.gen = mine.gen]_vars
  BY DeliveriesFit
<1>2. QED
  BY <1>1, TypeCorrect, SessionsAgree, PTL DEF Spec, FreshDelivery

\* Frames come out in the order in which they were decoded, each at most
\* once, whatever is dropped, closed, opened and started again in between.
THEOREM FramesComeInOrder == Spec => FramesInOrder
<1>1. TypeOK /\ Sessions /\ [Next]_vars =>
        [delivered'.kind = "frame" /\ delivered' /= delivered
           => delivered'.seq > delivered.seq]_vars
  BY DeliveriesFit
<1>2. QED
  BY <1>1, TypeCorrect, SessionsAgree, PTL DEF Spec, FramesInOrder
=============================================================================
