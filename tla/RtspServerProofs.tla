-------------------------- MODULE RtspServerProofs --------------------------
(***************************************************************************)
(* What holds of RtspServer for every number of clients, every capacity    *)
(* and limit of a queue, and all access units within the limit.            *)
(***************************************************************************)
EXTENDS RtspServer, FiniteSetTheorems, WellFoundedInduction, TLAPS

-----------------------------------------------------------------------------
(* The bytes of a queue: the pairs of a unit's place and a place in it.    *)

Cells(queue) == UNION {{i} \X (1..queue[i].size) : i \in DOMAIN queue}

LEMMA UnitFacts ==
    ASSUME NEW u \in Units
    PROVE  u.key \in BOOLEAN /\ u.size \in Nat /\ u.size > 0
BY RtspAssumption

LEMMA QueueElements ==
    ASSUME NEW q \in Seq(Units)
    PROVE  /\ Len(q) \in Nat /\ DOMAIN q = 1..Len(q)
           /\ \A i \in 1..Len(q) : /\ q[i] \in Units /\ q[i].size \in Nat
                                   /\ q[i].size > 0 /\ q[i].key \in BOOLEAN
<1>1. Len(q) \in Nat /\ DOMAIN q = 1..Len(q)
  OBVIOUS
<1>2. \A i \in 1..Len(q) : q[i] \in Units
  OBVIOUS
<1>3. QED
  BY <1>1, <1>2, UnitFacts

LEMMA IntervalFacts ==
    ASSUME NEW n \in Nat
    PROVE  IsFiniteSet(1..n) /\ Cardinality(1..n) = n
<1>1. 1 \in Int /\ n \in Int
  OBVIOUS
<1>2. IsFiniteSet(1..n) /\ Cardinality(1..n) = IF 1 > n THEN 0 ELSE n - 1 + 1
  BY <1>1, FS_Interval
<1>3. QED
  BY <1>2

LEMMA CellFacts ==
    ASSUME NEW q \in Seq(Units)
    PROVE  \A x : x \in Cells(q) <=>
             \E i \in 1..Len(q) : \E k \in 1..q[i].size : x = <<i, k>>
<1>1. DOMAIN q = 1..Len(q)
  BY QueueElements
<1>2. QED
  BY <1>1 DEF Cells

LEMMA CellsFinite ==
    ASSUME NEW q \in Seq(Units)
    PROVE  IsFiniteSet(Cells(q)) /\ Bytes(q) = Cardinality(Cells(q)) /\ Bytes(q) \in Nat
<1> DEFINE f == [i \in 1..Len(q) |-> {i} \X (1..q[i].size)]
           S == {{i} \X (1..q[i].size) : i \in DOMAIN q}
<1>1. Len(q) \in Nat /\ DOMAIN q = 1..Len(q) /\ \A i \in 1..Len(q) : q[i].size \in Nat
  BY QueueElements
<1>2. IsFiniteSet(1..Len(q))
  BY <1>1, IntervalFacts
<1>3. f \in Surjection(1..Len(q), S)
  BY <1>1 DEF Surjection
<1>4. IsFiniteSet(S)
  <2> HIDE DEF f, S
  <2>1. QED
    BY <1>2, <1>3, FS_Surjection
<1>5. ASSUME NEW T \in S PROVE IsFiniteSet(T)
  <2>1. PICK i \in 1..Len(q) : T = {i} \X (1..q[i].size)
    BY <1>1, <1>5
  <2>2. IsFiniteSet({i}) /\ IsFiniteSet(1..q[i].size)
    BY <1>1, FS_Singleton, IntervalFacts
  <2>3. IsFiniteSet({i} \X (1..q[i].size))
    BY <2>2, FS_Product
  <2>4. QED
    BY <2>1, <2>3
<1>6. Cells(q) = UNION S
  BY DEF Cells
<1>7. IsFiniteSet(UNION S)
  <2> HIDE DEF S
  <2>1. QED
    BY <1>4, <1>5, FS_UNION
<1>8. IsFiniteSet(Cells(q))
  BY <1>6, <1>7
<1>9. Bytes(q) = Cardinality(Cells(q))
  BY DEF Bytes, Cells
<1>10. QED
  BY <1>8, <1>9, FS_CardinalityType

LEMMA BytesEmpty == Bytes(<<>>) = 0
<1>1. UNION {{i} \X (1..<<>>[i].size) : i \in DOMAIN <<>>} = {}
  OBVIOUS
<1>2. QED
  BY <1>1, FS_EmptySet DEF Bytes

LEMMA BytesOne ==
    ASSUME NEW q \in Seq(Units), Len(q) = 1
    PROVE  Bytes(q) = q[1].size
<1> DEFINE size == q[1].size
<1>0. 1 \in 1..Len(q)
  OBVIOUS
<1>1. size \in Nat /\ 1 \in 1..Len(q)
  BY <1>0, QueueElements
<1>2. \A x : x \in Cells(q) <=> \E i \in 1..Len(q) : \E k \in 1..q[i].size : x = <<i, k>>
  BY CellFacts
<1>3. \A x : x \in Cells(q) <=> \E k \in 1..size : x = <<1, k>>
  BY <1>1, <1>2
<1> HIDE DEF size
<1>4. Cells(q) = {1} \X (1..size)
  BY <1>3
<1>5. /\ IsFiniteSet({1}) /\ Cardinality({1}) = 1
      /\ IsFiniteSet(1..size) /\ Cardinality(1..size) = size
  BY <1>1, FS_Singleton, IntervalFacts
<1>6. Cardinality({1} \X (1..size)) = 1 * size
  <2>1. Cardinality({1} \X (1..size)) = Cardinality({1}) * Cardinality(1..size)
    BY <1>5, FS_Product
  <2>2. QED
    BY <1>5, <2>1
<1>7. Bytes(q) = Cardinality(Cells(q))
  BY CellsFinite
<1>8. 1 * size = size
  BY <1>1
<1>9. QED
  BY <1>4, <1>6, <1>7, <1>8 DEF size

\* The bytes of a queue are those of its first units and those of the rest.
LEMMA BytesSplit ==
    ASSUME NEW q \in Seq(Units), NEW n \in 0..Len(q)
    PROVE  /\ SubSeq(q, 1, n) \in Seq(Units) /\ SubSeq(q, n + 1, Len(q)) \in Seq(Units)
           /\ Bytes(q) = Bytes(SubSeq(q, 1, n)) + Bytes(SubSeq(q, n + 1, Len(q)))
<1> DEFINE p == SubSeq(q, 1, n)
           r == SubSeq(q, n + 1, Len(q))
<1>0. Len(q) \in Nat /\ n \in Nat /\ n <= Len(q) /\ \A i \in 1..Len(q) : q[i].size \in Nat
  BY QueueElements
<1>1. /\ p \in Seq(Units) /\ Len(p) = n /\ \A i \in 1..n : p[i] = q[i]
  BY <1>0
<1>2. /\ r \in Seq(Units) /\ Len(r) = Len(q) - n
      /\ \A i \in 1..(Len(q) - n) : r[i] = q[i + n]
  BY <1>0
<1> HIDE DEF p, r
<1> DEFINE A == Cells(p)
           B == Cells(q) \ A
           C == Cells(r)
           f == [x \in C |-> <<x[1] + n, x[2]>>]
<1>3. \A x : x \in A <=> \E i \in 1..n : \E k \in 1..q[i].size : x = <<i, k>>
  BY <1>0, <1>1, CellFacts
<1>4. \A x : x \in C <=> \E i \in 1..(Len(q) - n) : \E k \in 1..q[i + n].size : x = <<i, k>>
  <2>1. \A x : x \in C <=> \E i \in 1..Len(r) : \E k \in 1..r[i].size : x = <<i, k>>
    BY <1>2, CellFacts
  <2>2. \A i \in 1..(Len(q) - n) : r[i].size = q[i + n].size
    BY <1>2
  <2>3. QED
    BY <1>2, <2>1, <2>2
<1>5. \A x : x \in Cells(q) <=> \E i \in 1..Len(q) : \E k \in 1..q[i].size : x = <<i, k>>
  BY CellFacts
<1>6. IsFiniteSet(A) /\ IsFiniteSet(C) /\ IsFiniteSet(Cells(q))
  BY <1>1, <1>2, CellsFinite
<1>7. A \subseteq Cells(q)
  BY <1>0, <1>3, <1>5
<1>8. \A x : x \in B <=>
        \E i \in (n + 1)..Len(q) : \E k \in 1..q[i].size : x = <<i, k>>
  <2>1. ASSUME NEW x \in B
        PROVE  \E i \in (n + 1)..Len(q) : \E k \in 1..q[i].size : x = <<i, k>>
    <3>1. PICK i \in 1..Len(q) : \E k \in 1..q[i].size : x = <<i, k>>
      BY <1>5
    <3>1a. PICK k \in 1..q[i].size : x = <<i, k>>
      BY <3>1
    <3>2. i \notin 1..n
      BY <1>3, <3>1a
    <3>3. QED
      BY <1>0, <3>1a, <3>2
  <2>2. ASSUME NEW i \in (n + 1)..Len(q), NEW k \in 1..q[i].size PROVE <<i, k>> \in B
    <3>1. <<i, k>> \in Cells(q)
      BY <1>0, <1>5
    <3>2. <<i, k>> \notin A
      BY <1>0, <1>3
    <3>3. QED
      BY <3>1, <3>2
  <2>3. QED
    BY <2>1, <2>2
<1>9. f \in Bijection(C, B)
  <2> HIDE DEF A, B, C
  <2>1. ASSUME NEW x \in C PROVE f[x] \in B
    <3>1. PICK i \in 1..(Len(q) - n) : \E k \in 1..q[i + n].size : x = <<i, k>>
      BY <1>4
    <3>1a. PICK k \in 1..q[i + n].size : x = <<i, k>>
      BY <3>1
    <3>2. f[x] = <<i + n, k>> /\ i + n \in (n + 1)..Len(q)
      BY <1>0, <3>1a
    <3>3. QED
      BY <1>8, <3>1a, <3>2
  <2>2. ASSUME NEW x \in C, NEW y \in C, f[x] = f[y] PROVE x = y
    <3>1. PICK i \in 1..(Len(q) - n) : \E k \in 1..q[i + n].size : x = <<i, k>>
      BY <1>4
    <3>1a. PICK k \in 1..q[i + n].size : x = <<i, k>>
      BY <3>1
    <3>2. PICK j \in 1..(Len(q) - n) : \E m \in 1..q[j + n].size : y = <<j, m>>
      BY <1>4
    <3>2a. PICK m \in 1..q[j + n].size : y = <<j, m>>
      BY <3>2
    <3>3. f[x] = <<i + n, k>> /\ f[y] = <<j + n, m>>
      BY <3>1a, <3>2a
    <3>4. i + n = j + n /\ k = m
      BY <2>2, <3>3
    <3>5. QED
      BY <1>0, <3>1a, <3>2a, <3>4
  <2>3. ASSUME NEW y \in B PROVE \E x \in C : f[x] = y
    <3>1. PICK i \in (n + 1)..Len(q) : \E k \in 1..q[i].size : y = <<i, k>>
      BY <1>8
    <3>1a. PICK k \in 1..q[i].size : y = <<i, k>>
      BY <3>1
    <3>2. i - n \in 1..(Len(q) - n) /\ (i - n) + n = i
      BY <1>0
    <3>3. <<i - n, k>> \in C
      BY <1>4, <3>2
    <3>4. f[<<i - n, k>>] = <<i, k>>
      BY <3>2, <3>3
    <3>5. QED
      BY <3>1a, <3>3, <3>4
  <2>4. f \in [C -> B]
    BY <2>1
  <2> HIDE DEF f
  <2>5. DOMAIN f = C
    BY <2>4
  <2>6. QED
    BY <2>2, <2>3, <2>4, <2>5 DEF Bijection, Injection, Surjection, IsInjective
<1>10. IsFiniteSet(B) /\ Cardinality(B) = Cardinality(C)
  <2> HIDE DEF A, B, C, f
  <2>1. ExistsBijection(C, B)
    BY <1>9 DEF ExistsBijection
  <2>2. QED
    BY <1>6, <2>1, FS_Bijection
<1>11. Cells(q) = A \cup B /\ A \cap B = {}
  BY <1>7
<1>12. Cardinality(Cells(q)) = Cardinality(A) + Cardinality(B)
  <2> HIDE DEF A, B, C, f
  <2>1. /\ Cardinality(A \cup B) = Cardinality(A) + Cardinality(B) - Cardinality(A \cap B)
        /\ Cardinality(A) \in Nat /\ Cardinality(B) \in Nat
    BY <1>6, <1>10, FS_Union, FS_CardinalityType
  <2>2. Cardinality(A \cap B) = 0
    BY <1>11, FS_EmptySet
  <2>3. Cardinality(A) + Cardinality(B) - 0 = Cardinality(A) + Cardinality(B)
    BY <2>1
  <2>4. QED
    BY <1>11, <2>1, <2>2, <2>3
<1>13. /\ Bytes(p) = Cardinality(A) /\ Bytes(r) = Cardinality(C)
       /\ Bytes(q) = Cardinality(Cells(q))
  BY <1>1, <1>2, CellsFinite
<1>14. Bytes(q) = Bytes(p) + Bytes(r)
  BY <1>10, <1>12, <1>13
<1>15. QED
  BY <1>1, <1>2, <1>14 DEF p, r

LEMMA BytesAppend ==
    ASSUME NEW q \in Seq(Units), NEW u \in Units
    PROVE  Append(q, u) \in Seq(Units) /\ Bytes(Append(q, u)) = Bytes(q) + u.size
<1> DEFINE r == Append(q, u)
           l == SubSeq(r, Len(q) + 1, Len(r))
<1>1. r \in Seq(Units) /\ Len(r) = Len(q) + 1 /\ Len(q) \in Nat /\ r[Len(q) + 1] = u
  OBVIOUS
<1>2. SubSeq(r, 1, Len(q)) = q
  OBVIOUS
<1> HIDE DEF r
<1>3. Len(q) \in 0..Len(r)
  BY <1>1
<1>4. Bytes(r) = Bytes(q) + Bytes(l) /\ l \in Seq(Units)
  BY <1>1, <1>2, <1>3, BytesSplit
<1>5. Len(l) = 1 /\ l[1] = u
  BY <1>1
<1>6. Bytes(l) = u.size
  <2> HIDE DEF l
  <2>1. QED
    BY <1>4, <1>5, BytesOne
<1>7. QED
  BY <1>1, <1>4, <1>6 DEF r

LEMMA BytesTail ==
    ASSUME NEW q \in Seq(Units), q /= <<>>
    PROVE  /\ Head(q) \in Units /\ Tail(q) \in Seq(Units)
           /\ Bytes(q) = Head(q).size + Bytes(Tail(q))
<1> DEFINE f == SubSeq(q, 1, 1)
<1>1. /\ Len(q) \in Nat /\ Len(q) > 0 /\ Head(q) \in Units /\ Tail(q) \in Seq(Units)
      /\ Head(q) = q[1]
  OBVIOUS
<1>2. Len(f) = 1 /\ f[1] = q[1]
  BY <1>1
<1>3. SubSeq(q, 1 + 1, Len(q)) = Tail(q)
  BY <1>1
<1>4. 1 \in 0..Len(q)
  BY <1>1
<1>5. f \in Seq(Units) /\ Bytes(q) = Bytes(f) + Bytes(SubSeq(q, 1 + 1, Len(q)))
  BY <1>4, BytesSplit
<1>6. Bytes(f) = q[1].size
  <2> HIDE DEF f
  <2>1. QED
    BY <1>2, <1>5, BytesOne
<1>7. QED
  BY <1>1, <1>3, <1>5, <1>6

-----------------------------------------------------------------------------
(* The buffer of one session.  Its count of bytes may differ from what is  *)
(* in the queue: a unit that the writer has taken is counted until the     *)
(* writer has the lock (InHand), and if the queue is cleared in between,   *)
(* that unit is taken off a second time.  Only one unit is ever in the     *)
(* hand, and a clear makes up for the one before (Account): the count is   *)
(* never more than one unit too low.                                       *)

Requests == {"none", "pooled", "read", "health", "answer", "answer last", "answer play", "play",
             "reset", "clear", "armed", "start writer", "name writer", "leave", "closing", "gone"}
Writers  == {"none", "loop", "take", "count", "lock", "send", "close", "closing", "dead"}
Closings == {"no", "sink", "queue", "clear", "writer", "socket", "done"}
Insides  == {"nobody", "offers", "polls", "drops", "resets", "closes"}
Locks    == {"free", "request", "writer"}
Queues   == Seq(Units)
Hands    == Units \cup {Nobody}

SessionRecord ==
    [request : Requests, setup : BOOLEAN, playing : BOOLEAN, closed : BOOLEAN,
     closing : Closings, queue : Queues, bytes : Nat, awaiting : BOOLEAN,
     inside : Insides, lock : Locks, writer : Writers, seen : BOOLEAN,
     interrupted : BOOLEAN, hand : Hands, late : BOOLEAN, whole : BOOLEAN,
     missed : BOOLEAN]

InHand(s) == IF s.writer = "count" THEN s.hand.size ELSE 0

HandInv(s) == s.writer = "count" => s.hand \in Units /\ s.hand.size <= MaxQueueBytes

\* A clear leaves the count alone until it is through.
Account(s) == /\ s.inside \notin Clearing => s.bytes <= Bytes(s.queue) + InHand(s)
              /\ Bytes(s.queue) + InHand(s) <= s.bytes + MaxQueueBytes

Bounded(s) == /\ Len(s.queue) <= Capacity
              /\ s.bytes <= 2 * MaxQueueBytes /\ Bytes(s.queue) <= 2 * MaxQueueBytes
              /\ \A i \in 1..Len(s.queue) : s.queue[i].size <= MaxQueueBytes

\* The key frame of the unit at i is before it in the queue, or was sent.
HasKeyBefore(s, i) == s.whole \/ \E j \in 1..(i - 1) : s.queue[j].key

\* Unless the queue is being cleared every unit has its key frame, and so will
\* the next one that is offered.
Decodable(s) ==
    s.inside \notin Clearing =>
      /\ s.awaiting => s.queue = <<>>
      /\ ~s.closed => \A i \in 1..Len(s.queue) : ~s.queue[i].key => HasKeyBefore(s, i)
      /\ ~s.closed /\ ~s.awaiting => HasKeyBefore(s, Len(s.queue) + 1)

BufferInv(s) == HandInv(s) /\ Account(s) /\ Bounded(s) /\ Decodable(s)

\* A thread that clears has the buffer's lock; after a clear by offer() a key
\* frame is awaited, after one by a close the session has ended.  Only a request
\* thread with an answer to write holds outputLock as one.
SessionInv(s) == /\ s \in SessionRecord /\ BufferInv(s)
                 /\ s.inside = "drops" => s.awaiting
                 /\ s.request = "clear" => s.inside = "resets"
                 /\ s.closing = "clear" => s.inside = "closes"
                 /\ s.closing \in {"sink", "queue", "clear"} => s.closed
                 /\ s.lock = "request" => s.request \in Answers

LEMMA LimitFacts ==
    /\ Capacity \in Nat /\ Capacity > 0 /\ MaxQueueBytes \in Nat /\ MaxQueueBytes > 0
    /\ 2 * MaxQueueBytes = MaxQueueBytes + MaxQueueBytes
BY RtspAssumption

LEMMA InHandType ==
    ASSUME NEW s, HandInv(s)
    PROVE  InHand(s) \in Nat /\ InHand(s) <= MaxQueueBytes
BY UnitFacts, LimitFacts DEF HandInv, InHand

LEMMA LeastNumber ==
    ASSUME NEW S \in SUBSET Nat, S /= {}
    PROVE  \E u \in S : \A v \in S : u <= v
<1> DEFINE R == {ss \in Nat \X Nat : ss[1] < ss[2]}
<1>1. IsWellFoundedOn(R, Nat)
  BY NatLessThanWellFounded DEF OpToRel
<1>2. \E u \in S : \A v \in S : ~(<<v, u>> \in R)
  <2> HIDE DEF R
  <2>1. QED
    BY <1>1, WFMin
<1>3. PICK u \in S : \A v \in S : ~(<<v, u>> \in R)
  BY <1>2
<1>4. ASSUME NEW v \in S PROVE u <= v
  <2>1. ~(<<v, u>> \in R)
    BY <1>3
  <2>2. QED
    BY <2>1
<1>5. QED
  BY <1>4

\* An empty queue.
LEMMA EmptyInv ==
    ASSUME NEW t \in SessionRecord, HandInv(t), t.queue = <<>>, t.bytes = 0, t.closed \/ t.awaiting
    PROVE  BufferInv(t)
<1>1. InHand(t) \in Nat /\ InHand(t) <= MaxQueueBytes
  BY InHandType
<1>2. Len(<<>>) = 0
  OBVIOUS
<1>3. Account(t) /\ Bounded(t)
  BY <1>1, <1>2, BytesEmpty, LimitFacts DEF Account, Bounded
<1>4. Decodable(t)
  BY <1>2 DEF Decodable
<1>5. QED
  BY <1>3, <1>4 DEF BufferInv

\* The oldest unit leaves the queue, by whoever polls.
LEMMA TailFacts ==
    ASSUME NEW s \in SessionRecord, s.queue /= <<>>, Bounded(s)
    PROVE  /\ Head(s.queue) \in Units /\ Head(s.queue).size \in Nat /\ Head(s.queue).key \in BOOLEAN
           /\ Head(s.queue).size <= MaxQueueBytes
           /\ Tail(s.queue) \in Queues /\ Bytes(Tail(s.queue)) \in Nat /\ Bytes(s.queue) \in Nat
           /\ Bytes(s.queue) = Head(s.queue).size + Bytes(Tail(s.queue))
           /\ Len(s.queue) \in Nat /\ Len(Tail(s.queue)) = Len(s.queue) - 1
           /\ Head(s.queue) = s.queue[1] /\ Len(s.queue) > 0
           /\ \A i \in 1..(Len(s.queue) - 1) : Tail(s.queue)[i] = s.queue[i + 1]
<1>1. s.queue \in Seq(Units)
  BY DEF SessionRecord, Queues
<1>2. /\ Head(s.queue) \in Units /\ Tail(s.queue) \in Queues
      /\ Bytes(s.queue) = Head(s.queue).size + Bytes(Tail(s.queue))
  BY <1>1, BytesTail DEF Queues
<1>3. Bytes(Tail(s.queue)) \in Nat /\ Bytes(s.queue) \in Nat
  BY <1>1, <1>2, CellsFinite DEF Queues
<1>4. /\ Len(s.queue) \in Nat /\ Len(Tail(s.queue)) = Len(s.queue) - 1 /\ Len(s.queue) > 0
      /\ Head(s.queue) = s.queue[1]
      /\ \A i \in 1..(Len(s.queue) - 1) : Tail(s.queue)[i] = s.queue[i + 1]
  BY <1>1
<1>5. Head(s.queue).size <= MaxQueueBytes
  BY <1>4 DEF Bounded
<1>6. QED
  BY <1>2, <1>3, <1>4, <1>5, UnitFacts

LEMMA TailBounded ==
    ASSUME NEW s \in SessionRecord, s.queue /= <<>>, Bounded(s),
           NEW t, t.queue = Tail(s.queue), t.bytes \in Nat, t.bytes <= s.bytes
    PROVE  Bounded(t)
<1> DEFINE q == s.queue
           r == Tail(q)
<1>1. /\ Len(q) \in Nat /\ Len(r) = Len(q) - 1
      /\ \A i \in 1..(Len(q) - 1) : r[i] = q[i + 1]
      /\ Bytes(r) \in Nat /\ Bytes(q) \in Nat /\ Head(q).size \in Nat /\ Bytes(q) = Head(q).size + Bytes(r)
  BY TailFacts
<1>2. /\ Len(q) <= Capacity /\ s.bytes <= 2 * MaxQueueBytes /\ Bytes(q) <= 2 * MaxQueueBytes
      /\ \A i \in 1..Len(q) : q[i].size <= MaxQueueBytes
  BY DEF Bounded
<1>3. s.bytes \in Nat
  BY DEF SessionRecord
<1>q. t.queue = r
  OBVIOUS
<1> HIDE DEF q, r
<1>4. \A i \in 1..Len(r) : r[i].size <= MaxQueueBytes
  BY <1>1, <1>2
<1>5. Len(r) <= Capacity /\ Bytes(r) <= 2 * MaxQueueBytes /\ t.bytes <= 2 * MaxQueueBytes
  BY <1>1, <1>2, <1>3, LimitFacts
<1>6. QED
  BY <1>4, <1>5, <1>q DEF Bounded

\* If the unit that leaves is a key frame, then the writer has taken it.
LEMMA TailDecodable ==
    ASSUME NEW s \in SessionRecord, s.queue /= <<>>, Bounded(s), Decodable(s), s.inside \notin Clearing,
           NEW t, t.queue = Tail(s.queue), t.closed = s.closed, t.awaiting = s.awaiting,
           t.whole = (s.whole \/ Head(s.queue).key)
    PROVE  Decodable(t)
<1> DEFINE q == s.queue
           r == Tail(q)
           u == Head(q)
<1>1. /\ Len(q) \in Nat /\ Len(r) = Len(q) - 1 /\ Len(q) > 0 /\ q[1] = u
      /\ \A i \in 1..(Len(q) - 1) : r[i] = q[i + 1]
  BY TailFacts
<1>2. t.queue = r /\ t.whole = (s.whole \/ u.key)
  OBVIOUS
<1>3. ~s.awaiting
  BY <1>1 DEF Decodable
<1>4. /\ ~s.closed => \A i \in 1..Len(q) : ~q[i].key => HasKeyBefore(s, i)
      /\ ~s.closed => HasKeyBefore(s, Len(q) + 1)
  BY <1>3 DEF Decodable
<1>5. \A i : HasKeyBefore(s, i) <=> s.whole \/ \E j \in 1..(i - 1) : q[j].key
  BY DEF HasKeyBefore
<1>6. \A i : HasKeyBefore(t, i) <=> s.whole \/ u.key \/ \E j \in 1..(i - 1) : r[j].key
  BY <1>2 DEF HasKeyBefore
<1> HIDE DEF q, r, u
<1>7. ASSUME NEW i \in 1..(Len(r) + 1), HasKeyBefore(s, i + 1) PROVE HasKeyBefore(t, i)
  <2>1. CASE s.whole \/ u.key
    BY <1>6, <2>1
  <2>2. CASE ~(s.whole \/ u.key)
    <3>1. PICK j \in 1..((i + 1) - 1) : q[j].key
      BY <1>5, <1>7, <2>2
    <3>2. j /= 1
      BY <1>1, <2>2, <3>1
    <3>3. j - 1 \in 1..(i - 1) /\ (j - 1) + 1 = j /\ j - 1 \in 1..(Len(q) - 1)
      BY <1>1, <3>1, <3>2
    <3>4. r[j - 1] = q[j]
      BY <1>1, <3>3
    <3>5. QED
      BY <1>6, <3>1, <3>3, <3>4
  <2>3. QED
    BY <2>1, <2>2
<1>8. ASSUME ~s.closed, NEW i \in 1..Len(r), ~r[i].key PROVE HasKeyBefore(t, i)
  <2>1. i + 1 \in 1..Len(q) /\ ~q[i + 1].key /\ i \in 1..(Len(r) + 1)
    BY <1>1, <1>8
  <2>2. QED
    BY <1>4, <1>7, <1>8, <2>1
<1>9. ASSUME ~s.closed PROVE HasKeyBefore(t, Len(r) + 1)
  <2>1. Len(q) + 1 = (Len(r) + 1) + 1 /\ Len(r) + 1 \in 1..(Len(r) + 1)
    BY <1>1
  <2>2. QED
    BY <1>4, <1>7, <1>9, <2>1
<1>10. t.closed = s.closed /\ t.awaiting = s.awaiting
  OBVIOUS
<1>11. QED
  BY <1>2, <1>3, <1>8, <1>9, <1>10 DEF Decodable

\* A poll of a clear.
LEMMA PolledInv ==
    ASSUME NEW s, SessionInv(s), s.queue /= <<>>, s.inside \in Clearing
    PROVE  SessionInv(Polled(s))
<1> DEFINE r == Tail(s.queue)
           w == s.whole /\ ~Head(s.queue).key
           t == [s EXCEPT !.queue = r, !.whole = w]
<1>0. s \in SessionRecord /\ BufferInv(s) /\ s.bytes \in Nat
  BY DEF SessionInv, SessionRecord
<1>1. /\ r \in Queues /\ Bytes(r) \in Nat /\ Bytes(s.queue) \in Nat /\ Head(s.queue).size \in Nat
      /\ Bytes(s.queue) = Head(s.queue).size + Bytes(r) /\ Head(s.queue).key \in BOOLEAN
  BY <1>0, TailFacts DEF BufferInv
<1>2. w \in BOOLEAN
  BY <1>0, <1>1 DEF SessionRecord
<1>3. Polled(s) = t
  BY <1>0 DEF Polled, SessionRecord
<1>q. r = Tail(s.queue)
  OBVIOUS
<1> HIDE DEF r, w, t
<1>4. /\ t \in SessionRecord /\ t.queue = r /\ t.bytes = s.bytes /\ t.writer = s.writer /\ t.hand = s.hand
      /\ t.inside = s.inside /\ t.closed = s.closed /\ t.closing = s.closing /\ t.awaiting = s.awaiting
      /\ t.request = s.request /\ t.lock = s.lock
  BY <1>0, <1>1, <1>2 DEF SessionRecord, t
<1>5. HandInv(t) /\ InHand(t) = InHand(s) /\ InHand(s) \in Nat
  BY <1>0, <1>4, InHandType DEF BufferInv, HandInv, InHand
<1>6. Account(t)
  <2>1. Bytes(s.queue) + InHand(s) <= s.bytes + MaxQueueBytes
    BY <1>0 DEF BufferInv, Account
  <2>2. Bytes(r) + InHand(s) <= s.bytes + MaxQueueBytes
    BY <1>0, <1>1, <1>5, <2>1, LimitFacts
  <2>3. QED
    BY <1>4, <1>5, <2>2 DEF Account
<1>7. Bounded(t)
  BY <1>0, <1>4, <1>q, TailBounded DEF BufferInv
<1>8. Decodable(t)
  BY <1>4 DEF Decodable
<1>9. QED
  BY <1>3, <1>4, <1>5, <1>6, <1>7, <1>8 DEF SessionInv, BufferInv

\* A poll of offer(): a key frame is followed by a clear.
LEMMA DropOldestInv ==
    ASSUME NEW s, SessionInv(s), s.queue /= <<>>, s.inside = "polls"
    PROVE  SessionInv(DropOldest(s)) /\ DropOldest(s).inside \in {"offers", "drops"}
<1> DEFINE u == Head(s.queue)
           r == Tail(s.queue)
           b == Less(s.bytes, u.size)
           w == s.whole /\ ~u.key
           a == s.awaiting \/ u.key
           i == IF u.key THEN "drops" ELSE "offers"
           t == [s EXCEPT !.queue = r, !.whole = w, !.bytes = b, !.awaiting = a, !.inside = i]
<1>0. s \in SessionRecord /\ BufferInv(s) /\ s.bytes \in Nat
  BY DEF SessionInv, SessionRecord
<1>1. /\ r \in Queues /\ Bytes(r) \in Nat /\ Bytes(s.queue) \in Nat /\ u.size \in Nat
      /\ Bytes(s.queue) = u.size + Bytes(r) /\ u.key \in BOOLEAN
  BY <1>0, TailFacts DEF BufferInv
<1>2. w \in BOOLEAN /\ a \in BOOLEAN /\ i \in Insides /\ i \in {"offers", "drops"}
  BY <1>0, <1>1 DEF SessionRecord, Insides
<1>3. b \in Nat /\ b <= s.bytes /\ b = IF s.bytes > u.size THEN s.bytes - u.size ELSE 0
  BY <1>0, <1>1 DEF Less
<1>4. DropOldest(s) = t
  BY <1>0 DEF DropOldest, Polled, SessionRecord
<1>q. /\ r = Tail(s.queue) /\ u = Head(s.queue) /\ w = (s.whole /\ ~u.key) /\ a = (s.awaiting \/ u.key)
      /\ i = IF u.key THEN "drops" ELSE "offers"
  OBVIOUS
<1> HIDE DEF u, r, b, w, a, i, t
<1>5. /\ t \in SessionRecord /\ t.queue = r /\ t.bytes = b /\ t.writer = s.writer /\ t.hand = s.hand
      /\ t.inside = i /\ t.closed = s.closed /\ t.closing = s.closing /\ t.awaiting = a /\ t.whole = w
      /\ t.request = s.request /\ t.lock = s.lock
  BY <1>0, <1>1, <1>2, <1>3 DEF SessionRecord, t
<1>6. HandInv(t) /\ InHand(t) = InHand(s) /\ InHand(s) \in Nat
  BY <1>0, <1>5, InHandType DEF BufferInv, HandInv, InHand
<1>7. Account(t)
  <2>1. /\ s.bytes <= Bytes(s.queue) + InHand(s)
        /\ Bytes(s.queue) + InHand(s) <= s.bytes + MaxQueueBytes
    BY <1>0 DEF BufferInv, Account, Clearing
  <2>2. b <= Bytes(r) + InHand(s) /\ Bytes(r) + InHand(s) <= b + MaxQueueBytes
    BY <1>0, <1>1, <1>3, <1>6, <2>1, LimitFacts
  <2>3. QED
    BY <1>5, <1>6, <2>2 DEF Account
<1>8. Bounded(t)
  BY <1>0, <1>3, <1>5, <1>q, TailBounded DEF BufferInv
<1>9. Decodable(t)
  <2>1. CASE u.key
    BY <1>5, <1>q, <2>1 DEF Decodable, Clearing
  <2>2. CASE ~u.key
    <3>1. t.awaiting = s.awaiting /\ t.whole = (s.whole \/ u.key)
      BY <1>0, <1>5, <1>q, <2>2 DEF SessionRecord
    <3>2. s.inside \notin Clearing
      BY DEF Clearing
    <3>3. QED
      BY <1>0, <1>5, <1>q, <3>1, <3>2, TailDecodable DEF BufferInv
  <2>3. QED
    BY <2>1, <2>2
<1>10. /\ t.inside = "drops" => t.awaiting
       /\ s.request /= "clear" /\ s.closing /= "clear"
  BY <1>5, <1>q DEF SessionInv
<1>11. QED
  BY <1>2, <1>4, <1>5, <1>6, <1>7, <1>8, <1>9, <1>10 DEF SessionInv, BufferInv

\* A clear that is through.
LEMMA ClearedInv ==
    ASSUME NEW s \in SessionRecord, HandInv(s), s.queue = <<>>
    PROVE  /\ Cleared(s) \in SessionRecord /\ HandInv(Cleared(s))
           /\ Cleared(s).queue = <<>> /\ Cleared(s).bytes = 0 /\ Cleared(s).inside = "nobody"
           /\ Cleared(s).awaiting = s.awaiting /\ Cleared(s).closed = s.closed
           /\ Cleared(s).closing = s.closing /\ Cleared(s).lock = s.lock /\ Cleared(s).request = s.request
<1> DEFINE t == Cleared(s)
<1>1. t = [s EXCEPT !.bytes = 0, !.whole = FALSE, !.inside = "nobody"]
  BY DEF Cleared
<1> HIDE DEF t
<1>2. /\ t \in SessionRecord /\ t.queue = <<>> /\ t.bytes = 0 /\ t.inside = "nobody"
      /\ t.writer = s.writer /\ t.hand = s.hand /\ t.awaiting = s.awaiting /\ t.closed = s.closed
      /\ t.closing = s.closing /\ t.lock = s.lock /\ t.request = s.request
  BY <1>1 DEF SessionRecord, Insides
<1>3. HandInv(t)
  BY <1>2 DEF HandInv
<1>4. QED
  BY <1>2, <1>3 DEF t

Appended(s, unit) ==
    [s EXCEPT !.queue = Append(@, unit), !.bytes = @ + unit.size, !.awaiting = @ /\ ~unit.key]

LEMMA AppendedInv ==
    ASSUME NEW s \in SessionRecord, BufferInv(s), s.inside \notin Clearing, NEW unit \in Units,
           unit.size <= MaxQueueBytes, ~(s.awaiting /\ ~unit.key),
           Len(s.queue) < Capacity,
           s.bytes + unit.size <= 2 * MaxQueueBytes,
           Bytes(s.queue) + unit.size <= 2 * MaxQueueBytes
    PROVE  LET t == Appended(s, unit) IN
           /\ t \in SessionRecord /\ BufferInv(t) /\ t.closed = s.closed /\ t.closing = s.closing
           /\ t.lock = s.lock /\ t.request = s.request /\ t.inside = s.inside
<1> DEFINE t == Appended(s, unit)
           q == Append(s.queue, unit)
           n == Len(s.queue)
<1>0. /\ s.queue \in Seq(Units) /\ s.bytes \in Nat /\ n \in Nat
      /\ unit.size \in Nat /\ unit.key \in BOOLEAN /\ s.awaiting \in BOOLEAN
  BY UnitFacts DEF SessionRecord, Queues
<1>1. /\ q \in Queues /\ Bytes(q) = Bytes(s.queue) + unit.size /\ Bytes(s.queue) \in Nat
  BY <1>0, BytesAppend, CellsFinite DEF Queues
<1>2. /\ Len(q) = n + 1 /\ q[n + 1] = unit /\ \A i \in 1..n : q[i] = s.queue[i]
  BY <1>0
<1>3. s.bytes + unit.size \in Nat
  BY <1>0
<1>4. t = [s EXCEPT !.queue = q, !.bytes = s.bytes + unit.size, !.awaiting = FALSE]
  BY <1>0 DEF Appended, SessionRecord
<1> HIDE DEF t, q
<1>5. t \in SessionRecord
  BY <1>1, <1>3, <1>4 DEF SessionRecord
<1>6. /\ t.queue = q /\ t.bytes = s.bytes + unit.size /\ t.awaiting = FALSE
      /\ t.writer = s.writer /\ t.hand = s.hand /\ t.closed = s.closed
      /\ t.closing = s.closing /\ t.whole = s.whole
      /\ t.lock = s.lock /\ t.request = s.request /\ t.inside = s.inside
  BY <1>4 DEF SessionRecord
<1>7. HandInv(t) /\ InHand(t) = InHand(s) /\ InHand(s) \in Nat
  BY <1>6, InHandType DEF BufferInv, HandInv, InHand
<1>8. Account(t)
  <2>1. /\ s.bytes <= Bytes(s.queue) + InHand(s)
        /\ Bytes(s.queue) + InHand(s) <= s.bytes + MaxQueueBytes
    BY DEF BufferInv, Account
  <2>2. /\ s.bytes + unit.size <= (Bytes(s.queue) + unit.size) + InHand(s)
        /\ (Bytes(s.queue) + unit.size) + InHand(s) <= (s.bytes + unit.size) + MaxQueueBytes
    BY <1>0, <1>1, <1>7, <2>1, LimitFacts
  <2>3. QED
    BY <1>1, <1>6, <1>7, <2>2 DEF Account
<1>9. Bounded(t)
  <2>1. \A i \in 1..n : s.queue[i].size <= MaxQueueBytes
    BY DEF BufferInv, Bounded
  <2>2. ASSUME NEW i \in 1..Len(q) PROVE q[i].size <= MaxQueueBytes
    <3>1. CASE i \in 1..n
      BY <1>2, <2>1, <3>1
    <3>2. CASE i = n + 1
      BY <1>2, <3>2
    <3>3. QED
      BY <1>0, <1>2, <3>1, <3>2
  <2>3. Len(q) <= Capacity
    BY <1>0, <1>2, LimitFacts
  <2>4. QED
    BY <1>1, <1>6, <2>2, <2>3 DEF Bounded
<1>10. Decodable(t)
  <2>0. Decodable(s)
    BY DEF BufferInv
  <2>1. ASSUME NEW i \in 1..(n + 2), NEW m \in 1..(n + 1), m <= i, HasKeyBefore(s, m)
        PROVE  HasKeyBefore(t, i)
    <3>1. CASE s.whole
      BY <1>6, <3>1 DEF HasKeyBefore
    <3>2. CASE ~s.whole
      <4>1. PICK j \in 1..(m - 1) : s.queue[j].key
        BY <2>1, <3>2 DEF HasKeyBefore
      <4>2. j \in 1..n /\ j \in 1..(i - 1)
        BY <1>0, <2>1, <4>1
      <4>3. q[j].key
        BY <1>2, <4>1, <4>2
      <4>4. QED
        BY <1>6, <4>2, <4>3 DEF HasKeyBefore
    <3>3. QED
      BY <3>1, <3>2
  <2>2. ASSUME ~s.closed, ~unit.key PROVE HasKeyBefore(s, n + 1)
    BY <2>0, <2>2 DEF Decodable
  <2>3. ASSUME ~s.closed, NEW i \in 1..Len(q), ~q[i].key PROVE HasKeyBefore(t, i)
    <3>1. CASE i \in 1..n
      <4>1. ~s.queue[i].key
        BY <1>2, <2>3, <3>1
      <4>2. HasKeyBefore(s, i)
        BY <2>0, <2>3, <3>1, <4>1 DEF Decodable
      <4>3. i \in 1..(n + 2) /\ i \in 1..(n + 1) /\ i <= i
        BY <1>0, <3>1
      <4>4. QED
        BY <2>1, <4>2, <4>3
    <3>2. CASE i = n + 1
      <4>1. HasKeyBefore(s, n + 1)
        BY <1>2, <2>2, <2>3, <3>2
      <4>2. n + 1 \in 1..(n + 2) /\ n + 1 \in 1..(n + 1) /\ n + 1 <= n + 1
        BY <1>0
      <4>3. QED
        BY <2>1, <3>2, <4>1, <4>2
    <3>3. QED
      BY <1>0, <1>2, <3>1, <3>2
  <2>4. ASSUME ~s.closed PROVE HasKeyBefore(t, Len(q) + 1)
    <3>1. CASE unit.key
      <4>1. n + 1 \in 1..((Len(q) + 1) - 1) /\ q[n + 1].key
        BY <1>0, <1>2, <3>1
      <4>2. QED
        BY <1>6, <4>1 DEF HasKeyBefore
    <3>2. CASE ~unit.key
      <4>1. HasKeyBefore(s, n + 1)
        BY <2>2, <2>4, <3>2
      <4>2. /\ n + 2 \in 1..(n + 2) /\ n + 1 \in 1..(n + 1) /\ n + 1 <= n + 2
            /\ Len(q) + 1 = n + 2
        BY <1>0, <1>2
      <4>3. QED
        BY <2>1, <4>1, <4>2
    <3>3. QED
      BY <3>1, <3>2
  <2>5. QED
    BY <1>6, <2>3, <2>4 DEF Decodable
<1>11. QED
  BY <1>5, <1>6, <1>7, <1>8, <1>9, <1>10 DEF BufferInv, t

\* The end of offer(): the loop has made room.
LEMMA AcceptsInv ==
    ASSUME NEW s, SessionInv(s), s.inside = "offers", NEW unit \in Units, unit.size <= MaxQueueBytes,
           ~NoRoom(s, unit)
    PROVE  SessionInv(Accepts(s, unit)) /\ Accepts(s, unit).inside = "offers"
<1>0. /\ s \in SessionRecord /\ BufferInv(s) /\ s.bytes \in Nat /\ s.inside \notin Clearing
      /\ s.queue \in Seq(Units) /\ unit.size \in Nat
  BY UnitFacts DEF SessionInv, SessionRecord, Queues, Clearing
<1>1. CASE Refuses(s, unit)
  BY <1>1 DEF Accepts
<1>2. CASE ~Refuses(s, unit)
  <2> DEFINE t == Appended(s, unit)
  <2>1. Accepts(s, unit) = t
    BY <1>2 DEF Accepts, Appended
  <2>2. /\ Bytes(s.queue) \in Nat /\ InHand(s) \in Nat /\ InHand(s) <= MaxQueueBytes
        /\ s.bytes <= Bytes(s.queue) + InHand(s)
        /\ Bytes(s.queue) + InHand(s) <= s.bytes + MaxQueueBytes
        /\ Len(s.queue) \in Nat /\ Len(s.queue) <= Capacity
    BY <1>0, InHandType, CellsFinite DEF BufferInv, Account, Bounded
  <2>3. /\ Len(s.queue) < Capacity
        /\ s.bytes + unit.size <= 2 * MaxQueueBytes /\ Bytes(s.queue) + unit.size <= 2 * MaxQueueBytes
    <3>1. CASE s.queue = <<>>
      <4>1. Len(s.queue) = 0 /\ Bytes(s.queue) = 0
        BY <3>1, BytesEmpty
      <4>2. QED
        BY <1>0, <2>2, <4>1, LimitFacts
    <3>2. CASE s.queue /= <<>>
      <4>1. s.bytes + unit.size <= MaxQueueBytes /\ Len(s.queue) /= Capacity
        BY <1>0, <3>2, LimitFacts DEF NoRoom
      <4>2. QED
        BY <1>0, <2>2, <4>1, LimitFacts
    <3>3. QED
      BY <3>1, <3>2
  <2>4. ~(s.awaiting /\ ~unit.key)
    BY <1>2 DEF Refuses
  <2>5. /\ t \in SessionRecord /\ BufferInv(t) /\ t.closed = s.closed /\ t.closing = s.closing
        /\ t.lock = s.lock /\ t.request = s.request /\ t.inside = s.inside
    BY <1>0, <2>3, <2>4, AppendedInv
  <2> HIDE DEF t
  <2>6. SessionInv(t)
    BY <2>5 DEF SessionInv
  <2>7. QED
    BY <2>1, <2>5, <2>6
<1>3. QED
  BY <1>1, <1>2

-----------------------------------------------------------------------------
(* The steps of a session.                                                 *)

\* A step that leaves the queue and the unit in the hand alone, but may take
\* the lock, or give it back when no clear is underway.
Alike(s, t) ==
    /\ t \in SessionRecord
    /\ t.queue = s.queue /\ t.bytes = s.bytes /\ t.awaiting = s.awaiting /\ t.whole = s.whole
    /\ t.hand = s.hand /\ (t.writer = "count" <=> s.writer = "count")
    /\ t.inside = s.inside \/ s.inside \notin Clearing
    /\ s.closed => t.closed
    /\ t.inside = "drops" => t.awaiting
    /\ t.request = "clear" => t.inside = "resets"
    /\ t.closing = "clear" => t.inside = "closes"
    /\ t.closing \in {"sink", "queue", "clear"} => t.closed
    /\ t.lock = "request" => t.request \in Answers

Offering == {"offers", "polls", "drops"}

\* One of any thread but the encoder's.
Quiet(s, t) == Alike(s, t) /\ (t.inside \in Offering => t.inside = s.inside)

LEMMA AlikeInv ==
    ASSUME NEW s, NEW t, SessionInv(s), Alike(s, t)
    PROVE  SessionInv(t)
<1>1. HandInv(t) /\ InHand(t) = InHand(s)
  BY DEF SessionInv, BufferInv, Alike, HandInv, InHand
<1>2. Account(t) /\ Bounded(t)
  BY <1>1 DEF SessionInv, BufferInv, Alike, Account, Bounded
<1>3. Decodable(t)
  <2>1. \A i : HasKeyBefore(t, i) <=> HasKeyBefore(s, i)
    BY DEF Alike, HasKeyBefore
  <2>2. QED
    BY <2>1 DEF SessionInv, BufferInv, Alike, Decodable
<1>4. QED
  BY <1>1, <1>2, <1>3 DEF SessionInv, BufferInv, Alike

LEMMA QuietInv ==
    ASSUME NEW s, NEW t, SessionInv(s), Quiet(s, t)
    PROVE  SessionInv(t)
BY AlikeInv DEF Quiet

\* The writer takes the oldest unit: it is counted until CountUnit.
LEMMA TakeInv ==
    ASSUME NEW s, SessionInv(s), s.writer = "take", s.queue /= <<>>
    PROVE  SessionInv([s EXCEPT !.writer = "count", !.hand = Head(s.queue), !.queue = Tail(@),
                                !.whole = @ \/ Head(s.queue).key])
<1> DEFINE q == s.queue
           r == Tail(q)
           u == Head(q)
           w == s.whole \/ u.key
           t == [s EXCEPT !.writer = "count", !.hand = u, !.queue = Tail(@), !.whole = @ \/ u.key]
<1>0. s \in SessionRecord /\ BufferInv(s) /\ q \in Seq(Units)
  BY DEF SessionInv, SessionRecord, Queues
<1>1. /\ u \in Units /\ r \in Queues /\ Bytes(q) = u.size + Bytes(r)
      /\ u.size \in Nat /\ u.key \in BOOLEAN
  BY <1>0, BytesTail, UnitFacts DEF Queues
<1>2. /\ Len(q) \in Nat /\ Len(r) = Len(q) - 1 /\ Len(q) > 0 /\ q[1] = u
      /\ \A i \in 1..(Len(q) - 1) : r[i] = q[i + 1]
  BY <1>0
<1>3. Bytes(r) \in Nat /\ s.bytes \in Nat
  BY <1>0, <1>1, CellsFinite DEF Queues, SessionRecord
<1>4. t = [s EXCEPT !.writer = "count", !.hand = u, !.queue = r, !.whole = w]
  BY <1>0 DEF SessionRecord
<1>5. w \in BOOLEAN /\ u \in Hands
  BY <1>0, <1>1 DEF SessionRecord, Hands
<1> HIDE DEF q, r, u, w, t
<1>6. t \in SessionRecord
  BY <1>0, <1>1, <1>4, <1>5 DEF SessionRecord, Writers
<1>7. /\ t.queue = r /\ t.bytes = s.bytes /\ t.awaiting = s.awaiting /\ t.writer = "count"
      /\ t.hand = u /\ t.closed = s.closed /\ t.closing = s.closing /\ t.whole = w
      /\ t.lock = s.lock /\ t.request = s.request /\ t.inside = s.inside
  BY <1>0, <1>4 DEF SessionRecord
<1>8. HandInv(t)
  <2>1. u.size <= MaxQueueBytes
    BY <1>0, <1>2 DEF BufferInv, Bounded, q
  <2>2. QED
    BY <1>1, <1>7, <2>1 DEF HandInv
<1>9. Account(t)
  <2>1. InHand(s) = 0 /\ InHand(t) = u.size
    BY <1>7 DEF InHand
  <2>2. /\ s.inside \notin Clearing => s.bytes <= Bytes(q) + 0
        /\ Bytes(q) + 0 <= s.bytes + MaxQueueBytes
    BY <1>0, <2>1 DEF BufferInv, Account, q
  <2>3. Bytes(q) + 0 = Bytes(r) + u.size
    BY <1>1, <1>3
  <2>4. QED
    BY <1>7, <2>1, <2>2, <2>3 DEF Account, q
<1>10. Bounded(t)
  BY <1>0, <1>3, <1>7, TailBounded DEF BufferInv, q, r
<1>11. Decodable(t)
  <2>1. CASE s.inside \in Clearing
    BY <1>7, <2>1 DEF Decodable
  <2>2. CASE s.inside \notin Clearing
    BY <1>0, <1>7, <2>2, TailDecodable DEF BufferInv, q, r, u, w
  <2>3. QED
    BY <2>1, <2>2
<1>12. QED
  BY <1>6, <1>7, <1>8, <1>9, <1>10, <1>11 DEF SessionInv, BufferInv, t, u, q

\* Taken off, it may be taken off again: the count is at most a unit too low.
LEMMA CountInv ==
    ASSUME NEW s, SessionInv(s), s.writer = "count", Unlocked(s)
    PROVE  SessionInv([s EXCEPT !.writer = "lock", !.bytes = Less(@, s.hand.size), !.hand = Nobody])
<1> DEFINE b == Less(s.bytes, s.hand.size)
           t == [s EXCEPT !.writer = "lock", !.bytes = Less(@, s.hand.size), !.hand = Nobody]
<1>0. s \in SessionRecord /\ BufferInv(s) /\ s.queue \in Seq(Units) /\ s.bytes \in Nat
  BY DEF SessionInv, SessionRecord, Queues
<1>1. /\ s.hand \in Units /\ s.hand.size <= MaxQueueBytes /\ s.hand.size \in Nat
      /\ InHand(s) = s.hand.size /\ Bytes(s.queue) \in Nat
  BY <1>0, UnitFacts, CellsFinite DEF BufferInv, HandInv, InHand
<1>2. b \in Nat /\ b = IF s.bytes > s.hand.size THEN s.bytes - s.hand.size ELSE 0
  BY <1>0, <1>1 DEF Less
<1>3. t = [s EXCEPT !.writer = "lock", !.bytes = b, !.hand = Nobody]
  BY <1>0 DEF SessionRecord
<1> HIDE DEF b, t
<1>4. t \in SessionRecord
  BY <1>0, <1>2, <1>3 DEF SessionRecord, Writers, Hands
<1>5. /\ t.queue = s.queue /\ t.bytes = b /\ t.awaiting = s.awaiting /\ t.writer = "lock"
      /\ t.closed = s.closed /\ t.closing = s.closing /\ t.whole = s.whole
      /\ t.lock = s.lock /\ t.request = s.request /\ t.inside = s.inside
  BY <1>0, <1>3 DEF SessionRecord
<1>6. HandInv(t) /\ InHand(t) = 0
  BY <1>5 DEF HandInv, InHand
<1>i. s.inside = "nobody" /\ s.inside \notin Clearing
  BY DEF Unlocked, Clearing
<1>7. /\ s.bytes <= Bytes(s.queue) + s.hand.size
      /\ Bytes(s.queue) + s.hand.size <= s.bytes + MaxQueueBytes
  BY <1>0, <1>1, <1>i DEF BufferInv, Account
<1>8. b <= Bytes(s.queue) + 0 /\ Bytes(s.queue) + 0 <= b + MaxQueueBytes /\ b <= s.bytes
  BY <1>0, <1>1, <1>2, <1>7, LimitFacts
<1>9. Account(t)
  BY <1>5, <1>6, <1>8 DEF Account
<1>10. Bounded(t)
  <2>1. /\ Len(s.queue) <= Capacity /\ s.bytes <= 2 * MaxQueueBytes
        /\ Bytes(s.queue) <= 2 * MaxQueueBytes
        /\ \A i \in 1..Len(s.queue) : s.queue[i].size <= MaxQueueBytes
    BY <1>0 DEF BufferInv, Bounded
  <2>2. b <= 2 * MaxQueueBytes
    BY <1>0, <1>2, <1>8, <2>1, LimitFacts
  <2>3. QED
    BY <1>5, <2>1, <2>2 DEF Bounded
<1>11. Decodable(t)
  <2>1. \A i : HasKeyBefore(t, i) <=> HasKeyBefore(s, i)
    BY <1>5 DEF HasKeyBefore
  <2>2. QED
    BY <1>0, <1>5, <1>i, <2>1 DEF BufferInv, Decodable
<1>12. QED
  BY <1>4, <1>5, <1>6, <1>9, <1>10, <1>11 DEF SessionInv, BufferInv, t

-----------------------------------------------------------------------------
(* The server.                                                             *)

ServerInv ==
    /\ server \in {"new", "listening", "closing", "joining", "stopped"}
    /\ toClose \in SUBSET Clients /\ sessions \in SUBSET Clients /\ sinks \in SUBSET Clients
    /\ accepting \in Clients \cup {"no", "listening"}

EncoderInv == \/ encoder = Idle
              \/ encoder \in [unit : Units, todo : SUBSET Clients, at : Clients \cup {Nobody}]

SessionsInv == /\ session \in [Clients -> SessionRecord]
               /\ \A c \in Clients : SessionInv(session[c])

\* The encoder holds a buffer's lock only while it offers a unit there, one that
\* is not too big.
OfferingInv == \A c \in Clients : session[c].inside \in Offering =>
                 encoder.at = c /\ encoder.unit \in Units /\ encoder.unit.size <= MaxQueueBytes

RtspInv == ServerInv /\ EncoderInv /\ SessionsInv /\ OfferingInv

LEMMA SetInv ==
    ASSUME SessionsInv, NEW c \in Clients, NEW s, SessionInv(s), Set(c, s)
    PROVE  SessionsInv'
<1>1. session' = [session EXCEPT ![c] = s] /\ s \in SessionRecord
  BY DEF Set, SessionInv
<1>2. session' \in [Clients -> SessionRecord]
  BY <1>1 DEF SessionsInv
<1>3. ASSUME NEW d \in Clients PROVE SessionInv(session'[d])
  <2>1. session'[d] = IF d = c THEN s ELSE session[d]
    BY <1>1 DEF SessionsInv
  <2>2. QED
    BY <2>1 DEF SessionsInv
<1>4. QED
  BY <1>2, <1>3 DEF SessionsInv

LEMMA OfferingKept ==
    ASSUME OfferingInv, SessionsInv, NEW c \in Clients, NEW s, Set(c, s), UNCHANGED encoder,
           s.inside \in Offering => s.inside = session[c].inside
    PROVE  OfferingInv'
<1>1. ASSUME NEW d \in Clients, session'[d].inside \in Offering PROVE session[d].inside \in Offering
  <2>1. session'[d] = IF d = c THEN s ELSE session[d]
    BY DEF Set, SessionsInv
  <2>2. QED
    BY <1>1, <2>1
<1>2. QED
  BY <1>1 DEF OfferingInv

LEMMA QuietSet ==
    ASSUME SessionsInv, OfferingInv, NEW c \in Clients, NEW s, Quiet(session[c], s), Set(c, s), UNCHANGED encoder
    PROVE  SessionsInv' /\ OfferingInv'
<1>1. SessionInv(session[c])
  BY DEF SessionsInv
<1>2. SessionInv(s)
  BY <1>1, QuietInv
<1>3. s.inside \in Offering => s.inside = session[c].inside
  BY DEF Quiet
<1>4. QED
  BY <1>2, <1>3, SetInv, OfferingKept

\* A thread that is about its own client only.
LEMMA OwnStep ==
    ASSUME RtspInv, NEW c \in Clients, NEW s, Quiet(session[c], s), Set(c, s),
           UNCHANGED <<server, toClose, accepting, sessions, encoder>>,
           sinks' \in SUBSET Clients
    PROVE  RtspInv'
<1>1. SessionsInv' /\ OfferingInv'
  BY QuietSet DEF RtspInv
<1>2. ServerInv' /\ EncoderInv'
  BY DEF RtspInv, ServerInv, EncoderInv
<1>3. QED
  BY <1>1, <1>2 DEF RtspInv

-----------------------------------------------------------------------------
(* closeSink.                                                              *)

LEMMA BeginCloseQuiet ==
    ASSUME NEW s, SessionInv(s)
    PROVE  Quiet(s, BeginClose(s))
<1>0. s \in SessionRecord
  BY DEF SessionInv
<1>1. CASE s.closed
  BY <1>0, <1>1 DEF SessionInv, Quiet, Alike, BeginClose
<1>2. CASE ~s.closed
  <2>1. BeginClose(s) = [s EXCEPT !.closed = TRUE, !.closing = "sink"]
    BY <1>2 DEF BeginClose
  <2>2. [s EXCEPT !.closed = TRUE, !.closing = "sink"] \in SessionRecord
    BY <1>0 DEF SessionRecord, Closings
  <2>3. QED
    BY <1>0, <2>1, <2>2 DEF SessionInv, Quiet, Alike, SessionRecord
<1>3. QED
  BY <1>1, <1>2

LEMMA ClosingStep ==
    ASSUME RtspInv, NEW c \in Clients, Closing(c)
    PROVE  RtspInv'
<1> DEFINE s == session[c]
<1>0. SessionInv(s) /\ s \in SessionRecord
  BY DEF RtspInv, SessionsInv, SessionInv
<1>1. CASE CloseSink(c)
  <2> DEFINE t == [s EXCEPT !.playing = FALSE, !.closing = "queue"]
  <2>1. Quiet(s, t)
    BY <1>0, <1>1 DEF CloseSink, SessionInv, Quiet, Alike, SessionRecord, Closings
  <2>2. /\ Set(c, t) /\ sinks' = sinks \ {c}
        /\ UNCHANGED <<server, toClose, accepting, sessions, encoder>>
    BY <1>1 DEF CloseSink
  <2> HIDE DEF t
  <2>3. sinks' \in SUBSET Clients
    BY <2>2 DEF RtspInv, ServerInv
  <2>4. QED
    BY <2>1, <2>2, <2>3, OwnStep
<1>5. CASE CloseLocks(c)
  <2> DEFINE t == [s EXCEPT !.closing = "clear", !.inside = "closes"]
  <2>1. Quiet(s, t)
    BY <1>0, <1>5 DEF CloseLocks, Unlocked, SessionInv, Quiet, Alike, SessionRecord, Closings, Insides, Clearing,
                      Offering
  <2>2. /\ Set(c, t) /\ sinks' = sinks
        /\ UNCHANGED <<server, toClose, accepting, sessions, encoder>>
    BY <1>5 DEF CloseLocks
  <2> HIDE DEF t
  <2>3. sinks' \in SUBSET Clients
    BY <2>2 DEF RtspInv, ServerInv
  <2>4. QED
    BY <2>1, <2>2, <2>3, OwnStep
<1>6. CASE CloseClears(c)
  <2>0. s.closing = "clear" /\ s.inside = "closes" /\ s.closed
    BY <1>0, <1>6 DEF CloseClears, SessionInv
  <2>1. CASE s.queue = <<>>
    <3> DEFINE u == Cleared(s)
               t == [u EXCEPT !.closing = "writer"]
    <3>1. /\ u \in SessionRecord /\ HandInv(u) /\ u.queue = <<>> /\ u.bytes = 0 /\ u.inside = "nobody"
          /\ u.closed /\ u.closing = s.closing /\ u.lock = s.lock /\ u.request = s.request
      BY <1>0, <2>0, <2>1, ClearedInv DEF SessionInv, BufferInv
    <3>2. Set(c, t) /\ UNCHANGED <<server, toClose, accepting, sessions, sinks, encoder>>
      BY <1>6, <2>1 DEF CloseClears
    <3> HIDE DEF u
    <3>3. /\ t \in SessionRecord /\ t.queue = <<>> /\ t.bytes = 0 /\ t.inside = "nobody" /\ t.closed
          /\ t.closing = "writer" /\ t.lock = u.lock /\ t.request = u.request /\ t.writer = u.writer
          /\ t.hand = u.hand
      BY <3>1 DEF SessionRecord, Closings
    <3> HIDE DEF t
    <3>4. HandInv(t)
      BY <3>1, <3>3 DEF HandInv
    <3>5. BufferInv(t)
      BY <3>3, <3>4, EmptyInv
    <3>6. s.request /= "clear"
      BY <1>0, <2>0 DEF SessionInv
    <3>7. SessionInv(t)
      BY <1>0, <3>1, <3>3, <3>5, <3>6 DEF SessionInv
    <3>8. SessionsInv' /\ OfferingInv'
      BY <3>2, <3>3, <3>7, SetInv, OfferingKept DEF RtspInv, Offering
    <3>9. ServerInv' /\ EncoderInv'
      BY <3>2 DEF RtspInv, ServerInv, EncoderInv
    <3>10. QED
      BY <3>8, <3>9 DEF RtspInv
  <2>2. CASE s.queue /= <<>>
    <3>1. SessionInv(Polled(s))
      BY <1>0, <2>0, <2>2, PolledInv DEF Clearing
    <3>2. Polled(s).inside = s.inside
      BY <1>0 DEF Polled, SessionRecord
    <3>3. Set(c, Polled(s)) /\ UNCHANGED <<server, toClose, accepting, sessions, sinks, encoder>>
      BY <1>6, <2>2 DEF CloseClears
    <3>4. SessionsInv' /\ OfferingInv'
      BY <3>1, <3>2, <3>3, SetInv, OfferingKept DEF RtspInv
    <3>5. ServerInv' /\ EncoderInv'
      BY <3>3 DEF RtspInv, ServerInv, EncoderInv
    <3>6. QED
      BY <3>4, <3>5 DEF RtspInv
  <2>3. QED
    BY <2>1, <2>2
<1>2. CASE CloseWriter(c)
  <2> DEFINE t == [s EXCEPT !.closing = "socket", !.interrupted = s.seen,
                            !.missed = ~s.seen /\ s.writer \notin {"none", "dead"}]
  <2>1. Quiet(s, t)
    BY <1>0 DEF SessionInv, Quiet, Alike, SessionRecord, Closings
  <2>2. /\ Set(c, t) /\ sinks' = sinks
        /\ UNCHANGED <<server, toClose, accepting, sessions, encoder>>
    BY <1>2 DEF CloseWriter
  <2> HIDE DEF t
  <2>3. sinks' \in SUBSET Clients
    BY <2>2 DEF RtspInv, ServerInv
  <2>4. QED
    BY <2>1, <2>2, <2>3, OwnStep
<1>3. CASE CloseSocket(c)
  <2> DEFINE t == [s EXCEPT !.closing = "done"]
  <2>1. Quiet(s, t)
    BY <1>0 DEF SessionInv, Quiet, Alike, SessionRecord, Closings
  <2>2. /\ Set(c, t) /\ sessions' = sessions \ {c}
        /\ UNCHANGED <<server, toClose, accepting, sinks, encoder>>
    BY <1>3 DEF CloseSocket
  <2> HIDE DEF t
  <2>3. SessionsInv' /\ OfferingInv'
    BY <2>1, <2>2, QuietSet DEF RtspInv
  <2>4. ServerInv' /\ EncoderInv'
    BY <2>2 DEF RtspInv, ServerInv, EncoderInv
  <2>5. QED
    BY <2>3, <2>4 DEF RtspInv
<1>4. QED
  BY <1>1, <1>2, <1>3, <1>5, <1>6 DEF Closing

-----------------------------------------------------------------------------
(* The main thread and the accept thread.                                  *)

LEMMA FreshInv ==
    /\ SessionInv(Fresh)
    /\ SessionInv([Fresh EXCEPT !.request = "pooled"])
<1>1. /\ <<>> \in Queues /\ Len(<<>>) = 0 /\ Bytes(<<>>) = 0 /\ 0 \in Nat /\ Nobody \in Hands
  BY BytesEmpty DEF Queues, Hands
<1>2. Fresh \in SessionRecord
  BY <1>1 DEF Fresh, SessionRecord, Requests, Closings, Insides, Locks, Writers
<1>3. HandInv(Fresh) /\ InHand(Fresh) = 0
  BY DEF Fresh, HandInv, InHand
<1>4. Fresh.queue = <<>> /\ Fresh.bytes = 0 /\ Fresh.awaiting
  BY DEF Fresh
<1>5. Account(Fresh) /\ Bounded(Fresh) /\ Decodable(Fresh)
  BY <1>1, <1>3, <1>4, LimitFacts DEF Account, Bounded, Decodable
<1>6. SessionInv(Fresh)
  <2>1. Fresh.closing = "no" /\ Fresh.lock = "free" /\ Fresh.inside = "nobody" /\ Fresh.request = "none"
    BY DEF Fresh
  <2>2. QED
    BY <1>2, <1>3, <1>5, <2>1 DEF SessionInv, BufferInv
<1>7. Quiet(Fresh, [Fresh EXCEPT !.request = "pooled"])
  BY <1>2, <1>6 DEF Quiet, Alike, SessionInv, SessionRecord, Requests, Answers, Fresh
<1>8. QED
  BY <1>6, <1>7, QuietInv

LEMMA MainStep ==
    ASSUME RtspInv, MainThread
    PROVE  RtspInv'
<1>1. CASE \E bound \in BOOLEAN : StartServer(bound)
  <2>1. UNCHANGED session
    BY <1>1 DEF StartServer
  <2>2. ServerInv' /\ EncoderInv' /\ SessionsInv' /\ OfferingInv'
    BY <1>1, <2>1 DEF StartServer, RtspInv, ServerInv, EncoderInv, SessionsInv, OfferingInv
  <2>3. QED
    BY <2>2 DEF RtspInv
<1>2. CASE StopServer \/ StopListener
  <2>1. UNCHANGED session
    BY <1>2 DEF StopServer, StopListener
  <2>2. ServerInv' /\ EncoderInv' /\ SessionsInv' /\ OfferingInv'
    BY <1>2, <2>1 DEF StopServer, StopListener, RtspInv, ServerInv, EncoderInv, SessionsInv, OfferingInv
  <2>3. QED
    BY <2>2 DEF RtspInv
<1>3. CASE StopExecutor
  <2> DEFINE gone(c) == [session[c] EXCEPT !.request = "gone"]
             f == [c \in Clients |-> IF session[c].request = "pooled" THEN gone(c) ELSE session[c]]
  <2>1. session' = f
    BY <1>3 DEF StopExecutor
  <2>2. ASSUME NEW c \in Clients 
        PROVE SessionInv(f[c]) /\ f[c] \in SessionRecord /\ f[c].inside = session[c].inside
    <3>1. SessionInv(session[c]) /\ session[c] \in SessionRecord
      BY DEF RtspInv, SessionsInv, SessionInv
    <3>2. CASE session[c].request = "pooled"
      <4>1. f[c] = gone(c)
        BY <3>2
      <4>2. Quiet(session[c], gone(c))
        BY <3>1, <3>2 DEF SessionInv, Quiet, Alike, SessionRecord, Requests, Answers
      <4>5. gone(c).inside = session[c].inside
        BY <3>1 DEF SessionRecord
      <4> HIDE DEF gone, f
      <4>3. SessionInv(gone(c))
        BY <3>1, <4>2, QuietInv
      <4>4. QED
        BY <4>1, <4>2, <4>3, <4>5 DEF SessionInv
    <3>3. CASE session[c].request /= "pooled"
      BY <3>1, <3>3
    <3>4. QED
      BY <3>2, <3>3
  <2>3. SessionsInv'
    <3>1. f \in [Clients -> SessionRecord]
      BY <2>2
    <3> HIDE DEF f
    <3>2. QED
      BY <2>1, <2>2, <3>1 DEF SessionsInv
  <2>6. OfferingInv'
    <3> HIDE DEF f
    <3>1. UNCHANGED encoder /\ \A c \in Clients : session'[c].inside = session[c].inside
      BY <1>3, <2>1, <2>2 DEF StopExecutor
    <3>2. QED
      BY <3>1 DEF RtspInv, OfferingInv
  <2>4. ServerInv' /\ EncoderInv'
    BY <1>3 DEF StopExecutor, RtspInv, ServerInv, EncoderInv
  <2>5. QED
    BY <2>3, <2>4, <2>6 DEF RtspInv
<1>4. CASE \E c \in Clients : StopCloses(c)
  <2>1. PICK c \in Clients : StopCloses(c)
    BY <1>4
  <2>2. SessionInv(session[c])
    BY DEF RtspInv, SessionsInv
  <2>3. SessionsInv' /\ OfferingInv'
    <3>0. UNCHANGED encoder
      BY <2>1 DEF StopCloses
    <3>1. CASE Set(c, BeginClose(session[c]))
      <4>1. Quiet(session[c], BeginClose(session[c]))
        BY <2>2, BeginCloseQuiet
      <4>2. QED
        BY <3>0, <3>1, <4>1, QuietSet DEF RtspInv
    <3>2. CASE UNCHANGED session
      BY <3>0, <3>2 DEF RtspInv, SessionsInv, OfferingInv
    <3>3. QED
      BY <2>1, <3>1, <3>2 DEF StopCloses
  <2>4. ServerInv' /\ EncoderInv'
    BY <2>1 DEF StopCloses, RtspInv, ServerInv, EncoderInv
  <2>5. QED
    BY <2>3, <2>4 DEF RtspInv
<1>5. QED
  BY <1>1, <1>2, <1>3, <1>4 DEF MainThread

LEMMA AcceptStep ==
    ASSUME RtspInv, AcceptThread
    PROVE  RtspInv'
<1>1. CASE (\E c \in Clients : Accept(c)) \/ AcceptEnds
  <2>1. UNCHANGED session
    BY <1>1 DEF Accept, AcceptEnds
  <2>2. ServerInv' /\ EncoderInv' /\ SessionsInv' /\ OfferingInv'
    BY <1>1, <2>1 DEF Accept, AcceptEnds, RtspInv, ServerInv, EncoderInv, SessionsInv, OfferingInv
  <2>3. QED
    BY <2>2 DEF RtspInv
<1>2. CASE Accepted
  <2> DEFINE s == [Fresh EXCEPT !.request = "pooled"]
  <2>1. accepting \in Clients
    BY <1>2 DEF Accepted
  <2>2. UNCHANGED session \/ Set(accepting, s)
    BY <1>2 DEF Accepted
  <2>3. SessionInv(s) /\ s.inside = "nobody"
    BY FreshInv DEF Fresh
  <2>4. SessionsInv' /\ OfferingInv'
    <3>0. UNCHANGED encoder
      BY <1>2 DEF Accepted
    <3> HIDE DEF s
    <3>1. CASE UNCHANGED session
      BY <3>0, <3>1 DEF RtspInv, SessionsInv, OfferingInv
    <3>2. CASE Set(accepting, s)
      BY <2>1, <2>3, <3>0, <3>2, SetInv, OfferingKept DEF RtspInv, Offering
    <3>3. QED
      BY <2>2, <3>1, <3>2
  <2>5. ServerInv' /\ EncoderInv'
    BY <1>2 DEF Accepted, RtspInv, ServerInv, EncoderInv
  <2>6. QED
    BY <2>4, <2>5 DEF RtspInv
<1>3. QED
  BY <1>1, <1>2 DEF AcceptThread

-----------------------------------------------------------------------------
(* The encoder thread.                                                     *)

LEMMA ServedInv ==
    ASSUME EncoderInv, NEW c \in Clients, encoder /= Idle, encoder' = Served(c)
    PROVE  EncoderInv'
<1> DEFINE E == [unit : Units, todo : SUBSET Clients, at : Clients \cup {Nobody}]
<1>1. encoder \in E
  BY DEF EncoderInv
<1>2. [encoder EXCEPT !.todo = @ \ {c}, !.at = Nobody] \in E
  BY <1>1
<1> HIDE DEF E
<1>3. encoder' = Idle \/ encoder' \in E
  BY <1>2 DEF Served
<1>4. QED
  BY <1>3 DEF EncoderInv, E

\* A step of the encoder on the session it is at.
LEMMA OfferSet ==
    ASSUME RtspInv, encoder.at \in Clients, NEW s, SessionInv(s), Set(encoder.at, s),
           UNCHANGED <<server, toClose, accepting, sessions, sinks>>,
           \/ encoder' = Served(encoder.at) /\ s.inside \notin Offering
           \/ /\ UNCHANGED encoder
              /\ encoder.unit \in Units /\ encoder.unit.size <= MaxQueueBytes
    PROVE  RtspInv'
<1>0. ServerInv /\ EncoderInv /\ SessionsInv /\ OfferingInv
  BY DEF RtspInv
<1>1. encoder /= Idle
  BY RtspAssumption DEF Idle
<1>2. SessionsInv'
  BY <1>0, SetInv
<1>3. EncoderInv'
  <2>1. CASE encoder' = Served(encoder.at)
    BY <1>0, <1>1, <2>1, ServedInv
  <2>2. CASE UNCHANGED encoder
    BY <1>0, <2>2 DEF EncoderInv
  <2>3. QED
    BY <2>1, <2>2
<1>4. OfferingInv'
  <2>1. ASSUME NEW d \in Clients, d /= encoder.at PROVE session'[d].inside \notin Offering
    <3>1. session'[d] = session[d]
      BY <1>0, <2>1 DEF Set, SessionsInv
    <3>2. QED
      BY <1>0, <2>1, <3>1 DEF OfferingInv
  <2>2. session'[encoder.at] = s
    BY <1>0 DEF Set, SessionsInv
  <2>3. QED
    BY <2>1, <2>2 DEF OfferingInv
<1>5. ServerInv'
  BY <1>0 DEF ServerInv
<1>6. QED
  BY <1>2, <1>3, <1>4, <1>5 DEF RtspInv

LEMMA OfferStep ==
    ASSUME RtspInv, Offer
    PROVE  RtspInv'
<1> DEFINE c == encoder.at
           unit == encoder.unit
           s == session[c]
<1>0. /\ c \in Clients /\ UNCHANGED <<server, toClose, accepting, sessions, sinks>>
      /\ ServerInv /\ EncoderInv /\ SessionsInv /\ OfferingInv
  BY DEF Offer, EnqueueOffers, OfferLooks, OfferPolls, OfferClears, OfferEnds, RtspInv
<1>1. encoder /= Idle /\ unit \in Units
  BY <1>0, RtspAssumption DEF Idle, EncoderInv
<1>2. SessionInv(s) /\ s \in SessionRecord
  BY <1>0 DEF SessionsInv, SessionInv
<1>3. s.inside \in Offering => unit.size <= MaxQueueBytes
  BY <1>0 DEF OfferingInv
<1>4. CASE EnqueueOffers
  <2>1. CASE UNCHANGED session /\ encoder' = Served(c)
    <3>1. EncoderInv'
      BY <1>0, <1>1, <2>1, ServedInv
    <3>2. s.inside \notin Offering
      BY <1>4 DEF EnqueueOffers, Unlocked, Offering
    <3>3. SessionsInv' /\ OfferingInv' /\ ServerInv'
      BY <1>0, <2>1, <3>2 DEF SessionsInv, OfferingInv, ServerInv
    <3>4. QED
      BY <3>1, <3>3 DEF RtspInv
  <2>2. CASE ~(UNCHANGED session /\ encoder' = Served(c))
    <3> DEFINE t == [s EXCEPT !.inside = "offers"]
    <3>1. s.inside = "nobody" /\ ~TooBig(unit) /\ Set(c, t) /\ UNCHANGED encoder
      BY <1>4, <2>2 DEF EnqueueOffers, Unlocked
    <3>2. Alike(s, t)
      BY <1>2, <3>1 DEF SessionInv, Alike, SessionRecord, Insides, Clearing
    <3>3. unit.size <= MaxQueueBytes
      BY <1>1, <3>1, UnitFacts, LimitFacts DEF TooBig
    <3> HIDE DEF t
    <3>4. SessionInv(t)
      BY <1>2, <3>2, AlikeInv
    <3>5. QED
      BY <1>0, <1>1, <3>1, <3>3, <3>4, OfferSet
  <2>3. QED
    BY <2>1, <2>2
<1>5. CASE OfferLooks
  <2> DEFINE t == [s EXCEPT !.inside = "polls"]
  <2>1. s.inside = "offers" /\ Set(c, t) /\ UNCHANGED encoder
    BY <1>5 DEF OfferLooks
  <2>2. Alike(s, t)
    BY <1>2, <2>1 DEF SessionInv, Alike, SessionRecord, Insides, Clearing
  <2> HIDE DEF t
  <2>3. SessionInv(t) /\ unit.size <= MaxQueueBytes
    BY <1>2, <1>3, <2>1, <2>2, AlikeInv DEF Offering
  <2>4. QED
    BY <1>0, <1>1, <2>1, <2>3, OfferSet
<1>6. CASE OfferPolls
  <2>1. s.inside = "polls" /\ UNCHANGED encoder /\ unit.size <= MaxQueueBytes
    BY <1>3, <1>6 DEF OfferPolls, Offering
  <2>2. CASE s.queue = <<>>
    <3> DEFINE t == [s EXCEPT !.inside = "offers"]
    <3>1. Set(c, t)
      BY <1>6, <2>2 DEF OfferPolls
    <3>2. Alike(s, t)
      BY <1>2, <2>1 DEF SessionInv, Alike, SessionRecord, Insides, Clearing
    <3> HIDE DEF t
    <3>3. SessionInv(t)
      BY <1>2, <3>2, AlikeInv
    <3>4. QED
      BY <1>0, <1>1, <2>1, <3>1, <3>3, OfferSet
  <2>3. CASE s.queue /= <<>>
    <3>1. Set(c, DropOldest(s))
      BY <1>6, <2>3 DEF OfferPolls
    <3>2. SessionInv(DropOldest(s))
      BY <1>2, <2>1, <2>3, DropOldestInv
    <3>3. QED
      BY <1>0, <1>1, <2>1, <3>1, <3>2, OfferSet
  <2>4. QED
    BY <2>2, <2>3
<1>7. CASE OfferClears
  <2>1. s.inside = "drops" /\ UNCHANGED encoder /\ unit.size <= MaxQueueBytes
    BY <1>3, <1>7 DEF OfferClears, Offering
  <2>2. CASE s.queue = <<>>
    <3> DEFINE u == Cleared(s)
               t == [u EXCEPT !.inside = "offers"]
    <3>1. Set(c, t)
      BY <1>7, <2>2 DEF OfferClears
    <3>2. s.awaiting /\ s.request /= "clear" /\ s.closing /= "clear" /\ HandInv(s)
      BY <1>2, <2>1 DEF SessionInv, BufferInv
    <3>3. /\ u \in SessionRecord /\ HandInv(u) /\ u.queue = <<>> /\ u.bytes = 0 /\ u.awaiting
          /\ u.closed = s.closed /\ u.closing = s.closing /\ u.lock = s.lock /\ u.request = s.request
      BY <1>2, <2>2, <3>2, ClearedInv
    <3> HIDE DEF u
    <3>4. /\ t \in SessionRecord /\ t.queue = <<>> /\ t.bytes = 0 /\ t.awaiting /\ t.inside = "offers"
          /\ t.closed = u.closed /\ t.closing = u.closing /\ t.lock = u.lock /\ t.request = u.request
          /\ t.writer = u.writer /\ t.hand = u.hand
      BY <3>3 DEF SessionRecord, Insides
    <3> HIDE DEF t
    <3>5. HandInv(t)
      BY <3>3, <3>4 DEF HandInv
    <3>6. BufferInv(t)
      BY <3>4, <3>5, EmptyInv
    <3>7. SessionInv(t)
      BY <1>2, <3>2, <3>3, <3>4, <3>6 DEF SessionInv
    <3>8. QED
      BY <1>0, <1>1, <2>1, <3>1, <3>7, OfferSet
  <2>3. CASE s.queue /= <<>>
    <3>1. Set(c, Polled(s))
      BY <1>7, <2>3 DEF OfferClears
    <3>2. SessionInv(Polled(s))
      BY <1>2, <2>1, <2>3, PolledInv DEF Clearing
    <3>3. QED
      BY <1>0, <1>1, <2>1, <3>1, <3>2, OfferSet
  <2>4. QED
    BY <2>2, <2>3
<1>8. CASE OfferEnds
  <2> DEFINE u == Accepts(s, unit)
             t == [u EXCEPT !.inside = "nobody"]
  <2>1. s.inside = "offers" /\ ~NoRoom(s, unit) /\ Set(c, t) /\ encoder' = Served(c)
    BY <1>8 DEF OfferEnds
  <2>2. SessionInv(u) /\ u.inside = "offers"
    BY <1>1, <1>2, <1>3, <2>1, AcceptsInv DEF Offering
  <2> HIDE DEF u
  <2>3. Alike(u, t) /\ t.inside = "nobody"
    BY <2>2 DEF SessionInv, Alike, SessionRecord, Insides, Clearing
  <2> HIDE DEF t
  <2>4. SessionInv(t) /\ t.inside \notin Offering
    BY <2>2, <2>3, AlikeInv DEF Offering
  <2>5. QED
    BY <1>0, <2>1, <2>4, OfferSet
<1>9. QED
  BY <1>4, <1>5, <1>6, <1>7, <1>8 DEF Offer

LEMMA EncoderStep ==
    ASSUME RtspInv, EncoderThread
    PROVE  RtspInv'
<1>0. ServerInv /\ EncoderInv /\ SessionsInv /\ OfferingInv
  BY DEF RtspInv
<1>1. CASE \E unit \in Units : Publish(unit)
  <2>1. EncoderInv'
    BY <1>0, <1>1 DEF Publish, ServerInv, EncoderInv
  <2>2. ServerInv' /\ SessionsInv'
    BY <1>0, <1>1 DEF Publish, ServerInv, SessionsInv
  <2>3. encoder.at \notin Clients /\ UNCHANGED session
    BY <1>1, RtspAssumption DEF Publish, Idle
  <2>4. OfferingInv'
    BY <1>0, <2>3 DEF OfferingInv
  <2>5. QED
    BY <2>1, <2>2, <2>4 DEF RtspInv
<1>2. CASE \E c \in Clients : EnqueueChecks(c)
  <2>1. PICK c \in Clients : EnqueueChecks(c)
    BY <1>2
  <2>2. encoder /= Idle
    BY <2>1 DEF EnqueueChecks, Idle
  <2>3. EncoderInv'
    <3>1. CASE encoder' = Served(c)
      BY <1>0, <2>2, <3>1, ServedInv
    <3>2. CASE encoder' = [encoder EXCEPT !.at = c]
      BY <1>0, <2>2, <3>2 DEF EncoderInv
    <3>3. QED
      BY <2>1, <3>1, <3>2 DEF EnqueueChecks
  <2>4. ServerInv' /\ SessionsInv'
    BY <1>0, <2>1 DEF EnqueueChecks, ServerInv, SessionsInv
  <2>5. encoder.at \notin Clients /\ UNCHANGED session
    BY <2>1, RtspAssumption DEF EnqueueChecks
  <2>6. OfferingInv'
    BY <1>0, <2>5 DEF OfferingInv
  <2>7. QED
    BY <2>3, <2>4, <2>6 DEF RtspInv
<1>3. CASE Offer
  BY <1>3, OfferStep
<1>4. QED
  BY <1>1, <1>2, <1>3 DEF EncoderThread

-----------------------------------------------------------------------------
(* The request thread.                                                     *)

LEMMA ClientStep ==
    ASSUME RtspInv, NEW c \in Clients, ClientActs(c)
    PROVE  RtspInv'
<1> DEFINE s == session[c]
<1>0. SessionInv(s) /\ s \in SessionRecord
  BY DEF RtspInv, SessionsInv, SessionInv
<1>1. CASE \E next \in {"answer", "answer last"} : AnswerRequest(c, next)
  <2>0. PICK next \in {"answer", "answer last"} : AnswerRequest(c, next)
    BY <1>1
  <2> DEFINE t == [s EXCEPT !.request = next]
  <2>1. Quiet(s, t)
    BY <1>0 DEF SessionInv, Quiet, Alike, SessionRecord, Requests, Answers
  <2>2. Set(c, t) /\ sinks' = sinks
    BY <2>0 DEF AnswerRequest, Serves
  <2>3. UNCHANGED <<server, toClose, accepting, sessions, encoder>>
    BY <2>0 DEF AnswerRequest, Serves
  <2> HIDE DEF t, s
  <2>4. sinks' \in SUBSET Clients
    BY <2>2 DEF RtspInv, ServerInv
  <2>5. QED
    BY <2>1, <2>2, <2>3, <2>4, OwnStep DEF s
<1>2. CASE Setup(c)
  <2> DEFINE t == [s EXCEPT !.request = "answer", !.setup = TRUE]
  <2>1. Quiet(s, t)
    BY <1>0, <1>2 DEF Setup, Reads, SessionInv, Quiet, Alike, SessionRecord, Requests, Answers
  <2>2. Set(c, t) /\ sinks' = sinks
    BY <1>2 DEF Setup, Serves
  <2>3. UNCHANGED <<server, toClose, accepting, sessions, encoder>>
    BY <1>2 DEF Setup, Serves
  <2> HIDE DEF t, s
  <2>4. sinks' \in SUBSET Clients
    BY <2>2 DEF RtspInv, ServerInv
  <2>5. QED
    BY <2>1, <2>2, <2>3, <2>4, OwnStep DEF s
<1>3. CASE Play(c)
  <2> DEFINE t == [s EXCEPT !.request = "play"]
  <2>1. Quiet(s, t)
    BY <1>0, <1>3 DEF Play, Reads, SessionInv, Quiet, Alike, SessionRecord, Requests, Answers
  <2>2. Set(c, t) /\ sinks' = sinks
    BY <1>3 DEF Play, Serves
  <2>3. UNCHANGED <<server, toClose, accepting, sessions, encoder>>
    BY <1>3 DEF Play, Serves
  <2> HIDE DEF t, s
  <2>4. sinks' \in SUBSET Clients
    BY <2>2 DEF RtspInv, ServerInv
  <2>5. QED
    BY <2>1, <2>2, <2>3, <2>4, OwnStep DEF s
<1>4. CASE GivesUp(c)
  <2> DEFINE t == [s EXCEPT !.request = "leave"]
  <2>1. Quiet(s, t)
    BY <1>0, <1>4 DEF GivesUp, Reads, SessionInv, Quiet, Alike, SessionRecord, Requests, Answers
  <2>2. Set(c, t) /\ sinks' = sinks
    BY <1>4 DEF GivesUp, Serves
  <2>3. UNCHANGED <<server, toClose, accepting, sessions, encoder>>
    BY <1>4 DEF GivesUp, Serves
  <2> HIDE DEF t, s
  <2>4. sinks' \in SUBSET Clients
    BY <2>2 DEF RtspInv, ServerInv
  <2>5. QED
    BY <2>1, <2>2, <2>3, <2>4, OwnStep DEF s
<1>5. QED
  BY <1>1, <1>2, <1>3, <1>4 DEF ClientActs

LEMMA RequestStep ==
    ASSUME RtspInv, NEW c \in Clients, RequestThread(c)
    PROVE  RtspInv'
<1> DEFINE s == session[c]
<1>0. SessionInv(s) /\ s \in SessionRecord
  BY DEF RtspInv, SessionsInv, SessionInv
<1>1. CASE ServeBegins(c)
  <2> DEFINE t == [s EXCEPT !.request = "read"]
  <2>1. Quiet(s, t)
    BY <1>0, <1>1 DEF ServeBegins, SessionInv, Quiet, Alike, SessionRecord, Requests, Answers
  <2>2. Set(c, t) /\ sinks' = sinks
    BY <1>1 DEF ServeBegins, Serves
  <2>3. UNCHANGED <<server, toClose, accepting, sessions, encoder>>
    BY <1>1 DEF ServeBegins, Serves
  <2> HIDE DEF t, s
  <2>4. sinks' \in SUBSET Clients
    BY <2>2 DEF RtspInv, ServerInv
  <2>5. QED
    BY <2>1, <2>2, <2>3, <2>4, OwnStep DEF s
<1>2. CASE PlayArms(c)
  <2> DEFINE t == [s EXCEPT !.playing = TRUE, !.request = "reset"]
  <2>1. Quiet(s, t)
    BY <1>0, <1>2 DEF PlayArms, SessionInv, Quiet, Alike, SessionRecord, Requests, Answers
  <2>2. Set(c, t) /\ sinks' = sinks
    BY <1>2 DEF PlayArms, Serves
  <2>3. UNCHANGED <<server, toClose, accepting, sessions, encoder>>
    BY <1>2 DEF PlayArms, Serves
  <2> HIDE DEF t, s
  <2>4. sinks' \in SUBSET Clients
    BY <2>2 DEF RtspInv, ServerInv
  <2>5. QED
    BY <2>1, <2>2, <2>3, <2>4, OwnStep DEF s
<1>12. CASE PlayLocks(c)
  <2> DEFINE t == [s EXCEPT !.request = "clear", !.inside = "resets"]
  <2>1. Quiet(s, t)
    BY <1>0, <1>12 DEF PlayLocks, Unlocked, SessionInv, Quiet, Alike, SessionRecord, Requests, Answers, Insides,
                       Clearing, Offering
  <2>2. Set(c, t) /\ sinks' = sinks
    BY <1>12 DEF PlayLocks, Serves
  <2>3. UNCHANGED <<server, toClose, accepting, sessions, encoder>>
    BY <1>12 DEF PlayLocks, Serves
  <2> HIDE DEF t, s
  <2>4. sinks' \in SUBSET Clients
    BY <2>2 DEF RtspInv, ServerInv
  <2>5. QED
    BY <2>1, <2>2, <2>3, <2>4, OwnStep DEF s
<1>13. CASE PlayClears(c)
  <2>1. s.inside = "resets" /\ s.queue /= <<>>
    BY <1>0, <1>13 DEF PlayClears, SessionInv
  <2>2. SessionInv(Polled(s)) /\ Polled(s).inside = s.inside
    BY <1>0, <2>1, PolledInv DEF Clearing, Polled, SessionRecord
  <2>3. Set(c, Polled(s)) /\ UNCHANGED <<server, toClose, accepting, sessions, sinks, encoder>>
    BY <1>13 DEF PlayClears, Serves
  <2>4. SessionsInv' /\ OfferingInv'
    BY <2>2, <2>3, SetInv, OfferingKept DEF RtspInv
  <2>5. ServerInv' /\ EncoderInv'
    BY <2>3 DEF RtspInv, ServerInv, EncoderInv
  <2>6. QED
    BY <2>4, <2>5 DEF RtspInv
<1>14. CASE PlayJoins(c)
  <2> DEFINE u == Cleared(s)
             t == [u EXCEPT !.awaiting = TRUE, !.request = "armed"]
  <2>1. /\ HandInv(s) /\ s.request = "clear" /\ s.queue = <<>> /\ s.inside = "resets"
        /\ s.closing /= "clear" /\ s.lock /= "request"
    BY <1>0, <1>14 DEF PlayJoins, SessionInv, BufferInv, Answers
  <2>2. /\ u \in SessionRecord /\ HandInv(u) /\ u.queue = <<>> /\ u.bytes = 0 /\ u.inside = "nobody"
        /\ u.closed = s.closed /\ u.closing = s.closing /\ u.lock = s.lock
    BY <1>0, <2>1, ClearedInv
  <2>3. /\ Set(c, t) /\ sinks' = sinks \cup {c}
        /\ UNCHANGED <<server, toClose, accepting, sessions, encoder>>
    BY <1>14 DEF PlayJoins, Serves
  <2> HIDE DEF u
  <2>4. /\ t \in SessionRecord /\ t.queue = <<>> /\ t.bytes = 0 /\ t.awaiting /\ t.inside = "nobody"
        /\ t.closed = u.closed /\ t.closing = u.closing /\ t.lock = u.lock /\ t.request = "armed"
        /\ t.writer = u.writer /\ t.hand = u.hand
    BY <2>2 DEF SessionRecord, Requests
  <2> HIDE DEF t
  <2>5. HandInv(t)
    BY <2>2, <2>4 DEF HandInv
  <2>6. BufferInv(t)
    BY <2>4, <2>5, EmptyInv
  <2>7. SessionInv(t)
    BY <1>0, <2>1, <2>2, <2>4, <2>6 DEF SessionInv
  <2>8. SessionsInv' /\ OfferingInv'
    BY <2>3, <2>4, <2>7, SetInv, OfferingKept DEF RtspInv, Offering
  <2>9. ServerInv' /\ EncoderInv'
    BY <2>3 DEF RtspInv, ServerInv, EncoderInv
  <2>10. QED
    BY <2>8, <2>9 DEF RtspInv
<1>3. CASE PlayChecks(c)
  <2> DEFINE t == IF s.closed THEN [s EXCEPT !.request = "leave"]
                              ELSE [s EXCEPT !.request = "answer play"]
  <2>1. Quiet(s, t)
    BY <1>0, <1>3 DEF PlayChecks, SessionInv, Quiet, Alike, SessionRecord, Requests, Answers
  <2>2. Set(c, t) /\ (sinks' = sinks \ {c} \/ sinks' = sinks)
    BY <1>3 DEF PlayChecks
  <2>3. UNCHANGED <<server, toClose, accepting, sessions, encoder>>
    BY <1>3 DEF PlayChecks, Serves
  <2> HIDE DEF t, s
  <2>4. sinks' \in SUBSET Clients
    BY <2>2 DEF RtspInv, ServerInv
  <2>5. QED
    BY <2>1, <2>2, <2>3, <2>4, OwnStep DEF s
<1>4. CASE AnswerBegins(c)
  <2> DEFINE t == [s EXCEPT !.lock = "request"]
  <2>1. Quiet(s, t)
    BY <1>0, <1>4 DEF AnswerBegins, SessionInv, Quiet, Alike, SessionRecord, Requests, Answers, Locks
  <2>2. Set(c, t) /\ sinks' = sinks
    BY <1>4 DEF AnswerBegins, Serves
  <2>3. UNCHANGED <<server, toClose, accepting, sessions, encoder>>
    BY <1>4 DEF AnswerBegins, Serves
  <2> HIDE DEF t, s
  <2>4. sinks' \in SUBSET Clients
    BY <2>2 DEF RtspInv, ServerInv
  <2>5. QED
    BY <2>1, <2>2, <2>3, <2>4, OwnStep DEF s
<1>5. CASE StartWriter(c)
  <2> DEFINE t == IF s.writer \in {"none", "dead"}
                    THEN [s EXCEPT !.writer = "loop", !.seen = FALSE, !.request = "name writer"]
                    ELSE [s EXCEPT !.request = "health"]
  <2>1. Quiet(s, t)
    BY <1>0, <1>5 DEF StartWriter, SessionInv, Quiet, Alike, SessionRecord, Requests, Writers, Answers
  <2>2. Set(c, t) /\ sinks' = sinks
    BY <1>5 DEF StartWriter
  <2>3. UNCHANGED <<server, toClose, accepting, sessions, encoder>>
    BY <1>5 DEF StartWriter, Serves
  <2> HIDE DEF t, s
  <2>4. sinks' \in SUBSET Clients
    BY <2>2 DEF RtspInv, ServerInv
  <2>5. QED
    BY <2>1, <2>2, <2>3, <2>4, OwnStep DEF s
<1>6. CASE NameWriter(c)
  <2> DEFINE t == [s EXCEPT !.seen = TRUE, !.request = "health"]
  <2>1. Quiet(s, t)
    BY <1>0, <1>6 DEF NameWriter, SessionInv, Quiet, Alike, SessionRecord, Requests, Answers
  <2>2. Set(c, t) /\ sinks' = sinks
    BY <1>6 DEF NameWriter, Serves
  <2>3. UNCHANGED <<server, toClose, accepting, sessions, encoder>>
    BY <1>6 DEF NameWriter, Serves
  <2> HIDE DEF t, s
  <2>4. sinks' \in SUBSET Clients
    BY <2>2 DEF RtspInv, ServerInv
  <2>5. QED
    BY <2>1, <2>2, <2>3, <2>4, OwnStep DEF s
<1>7. CASE CheckHealth(c)
  <2> DEFINE r == IF Unhealthy(s) THEN "leave" ELSE "read"
             t == [s EXCEPT !.request = r]
  <2>1. r \in {"leave", "read"} /\ s.request \in {"health", "read"}
    BY <1>7 DEF CheckHealth, Reads
  <2>2. Set(c, t) /\ sinks' = sinks
    BY <1>7 DEF CheckHealth
  <2>3. UNCHANGED <<server, toClose, accepting, sessions, encoder>>
    BY <1>7 DEF CheckHealth, Serves
  <2> HIDE DEF r
  <2>4. Quiet(s, t)
    BY <1>0, <2>1 DEF SessionInv, Quiet, Alike, SessionRecord, Requests, Answers
  <2> HIDE DEF t, s
  <2>5. sinks' \in SUBSET Clients
    BY <2>2 DEF RtspInv, ServerInv
  <2>6. QED
    BY <2>2, <2>3, <2>4, <2>5, OwnStep DEF s
<1>8. CASE Interrupted(c)
  <2> DEFINE t == [s EXCEPT !.request = "leave"]
  <2>1. Quiet(s, t)
    BY <1>0, <1>8 DEF Interrupted, SessionInv, Quiet, Alike, SessionRecord, Requests, Answers
  <2>2. Set(c, t) /\ sinks' = sinks
    BY <1>8 DEF Interrupted, Serves
  <2>3. UNCHANGED <<server, toClose, accepting, sessions, encoder>>
    BY <1>8 DEF Interrupted, Serves
  <2> HIDE DEF t, s
  <2>4. sinks' \in SUBSET Clients
    BY <2>2 DEF RtspInv, ServerInv
  <2>5. QED
    BY <2>1, <2>2, <2>3, <2>4, OwnStep DEF s
<1>9. CASE Leave(c)
  <2> DEFINE u == BeginClose(s)
             r == IF s.closed THEN "gone" ELSE "closing"
             t == [u EXCEPT !.request = r]
  <2>1. Set(c, t) /\ sinks' = sinks
    BY <1>9 DEF Leave
  <2>2. UNCHANGED <<server, toClose, accepting, sessions, encoder>>
    BY <1>9 DEF Leave, Serves
  <2>3. u \in SessionRecord /\ SessionInv(u) /\ Quiet(s, u) /\ u.request = s.request /\ u.lock = s.lock
    <3>1. Quiet(s, u)
      BY <1>0, BeginCloseQuiet
    <3>2. u.request = s.request /\ u.lock = s.lock
      BY <1>0 DEF BeginClose, SessionRecord
    <3> HIDE DEF u
    <3>3. SessionInv(u)
      BY <1>0, <3>1, QuietInv
    <3>4. QED
      BY <3>1, <3>2, <3>3 DEF SessionInv
  <2>4. s.request = "leave" /\ r \in {"gone", "closing"}
    BY <1>9 DEF Leave
  <2> HIDE DEF u, r, s
  <2>5. Quiet(u, t)
    BY <2>3, <2>4 DEF SessionInv, Quiet, Alike, SessionRecord, Requests, Answers
  <2> HIDE DEF t
  <2>6. SessionInv(t)
    BY <2>3, <2>5, QuietInv
  <2>7. SessionsInv' /\ OfferingInv'
    <3>1. t.inside \in Offering => t.inside = s.inside
      BY <2>3, <2>5 DEF Quiet
    <3>2. QED
      BY <2>1, <2>2, <2>6, <3>1, SetInv, OfferingKept DEF RtspInv, s
  <2>8. ServerInv' /\ EncoderInv'
    BY <2>1, <2>2 DEF RtspInv, ServerInv, EncoderInv
  <2>9. QED
    BY <2>7, <2>8 DEF RtspInv
<1>10. CASE Left(c)
  <2> DEFINE t == [s EXCEPT !.request = "gone"]
  <2>1. Quiet(s, t)
    BY <1>0, <1>10 DEF Left, SessionInv, Quiet, Alike, SessionRecord, Requests, Answers
  <2>2. Set(c, t) /\ sinks' = sinks
    BY <1>10 DEF Left, Serves
  <2>3. UNCHANGED <<server, toClose, accepting, sessions, encoder>>
    BY <1>10 DEF Left, Serves
  <2> HIDE DEF t, s
  <2>4. sinks' \in SUBSET Clients
    BY <2>2 DEF RtspInv, ServerInv
  <2>5. QED
    BY <2>1, <2>2, <2>3, <2>4, OwnStep DEF s
<1>11. QED
  BY <1>1, <1>2, <1>3, <1>4, <1>5, <1>6, <1>7, <1>8, <1>9, <1>10,
     <1>12, <1>13, <1>14 DEF RequestThread

-----------------------------------------------------------------------------
(* The writer thread, and the writes of both.                              *)

LEMMA PeerStep ==
    ASSUME RtspInv, NEW c \in Clients, Peer(c)
    PROVE  RtspInv'
<1> DEFINE s == session[c]
<1>0. SessionInv(s) /\ s \in SessionRecord
  BY DEF RtspInv, SessionsInv, SessionInv
<1>1. CASE AnswerEnds(c)
  <2> DEFINE r == AfterAnswer(s.request)
             t == [s EXCEPT !.lock = "free", !.request = r]
  <2>1. s.lock = "request" /\ Set(c, t) /\ sinks' = sinks
    BY <1>1 DEF AnswerEnds
  <2>2. UNCHANGED <<server, toClose, accepting, sessions, encoder>>
    BY <1>1 DEF AnswerEnds, Serves
  <2>3. r \in {"health", "leave", "start writer"}
    BY <1>0, <2>1 DEF SessionInv, Answers, AfterAnswer
  <2> HIDE DEF r, s
  <2>4. t \in SessionRecord
    BY <1>0, <2>3 DEF SessionRecord, Requests, Locks
  <2>5. Quiet(s, t)
    BY <1>0, <2>3, <2>4 DEF SessionInv, Quiet, Alike, SessionRecord
  <2> HIDE DEF t
  <2>6. sinks' \in SUBSET Clients
    BY <2>1 DEF RtspInv, ServerInv
  <2>7. QED
    BY <2>1, <2>2, <2>5, <2>6, OwnStep DEF s
<1>2. CASE AnswerFails(c)
  <2> DEFINE t == [s EXCEPT !.lock = "free", !.request = "leave"]
  <2>1. Quiet(s, t)
    BY <1>0, <1>2 DEF AnswerFails, SessionInv, Quiet, Alike, SessionRecord, Requests, Locks
  <2>2. Set(c, t) /\ sinks' = sinks
    BY <1>2 DEF AnswerFails, Serves
  <2>3. UNCHANGED <<server, toClose, accepting, sessions, encoder>>
    BY <1>2 DEF AnswerFails, Serves
  <2> HIDE DEF t, s
  <2>4. sinks' \in SUBSET Clients
    BY <2>2 DEF RtspInv, ServerInv
  <2>5. QED
    BY <2>1, <2>2, <2>3, <2>4, OwnStep DEF s
<1>3. CASE SendEnds(c)
  <2> DEFINE t == [s EXCEPT !.writer = "loop", !.lock = "free", !.late = FALSE]
  <2>1. Quiet(s, t)
    BY <1>0, <1>3 DEF SendEnds, SessionInv, Quiet, Alike, SessionRecord, Writers, Locks
  <2>2. Set(c, t) /\ sinks' = sinks
    BY <1>3 DEF SendEnds, Writes
  <2>3. UNCHANGED <<server, toClose, accepting, sessions, encoder>>
    BY <1>3 DEF SendEnds, Writes
  <2> HIDE DEF t, s
  <2>4. sinks' \in SUBSET Clients
    BY <2>2 DEF RtspInv, ServerInv
  <2>5. QED
    BY <2>1, <2>2, <2>3, <2>4, OwnStep DEF s
<1>4. CASE SendFails(c)
  <2> DEFINE t == [s EXCEPT !.writer = "close", !.lock = "free", !.late = FALSE]
  <2>1. Quiet(s, t)
    BY <1>0, <1>4 DEF SendFails, SessionInv, Quiet, Alike, SessionRecord, Writers, Locks
  <2>2. Set(c, t) /\ sinks' = sinks
    BY <1>4 DEF SendFails, Writes
  <2>3. UNCHANGED <<server, toClose, accepting, sessions, encoder>>
    BY <1>4 DEF SendFails, Writes
  <2> HIDE DEF t, s
  <2>4. sinks' \in SUBSET Clients
    BY <2>2 DEF RtspInv, ServerInv
  <2>5. QED
    BY <2>1, <2>2, <2>3, <2>4, OwnStep DEF s
<1>5. QED
  BY <1>1, <1>2, <1>3, <1>4 DEF Peer

LEMMA WriterStep ==
    ASSUME RtspInv, NEW c \in Clients, WriterThread(c)
    PROVE  RtspInv'
<1> DEFINE s == session[c]
<1>0. SessionInv(s) /\ s \in SessionRecord
  BY DEF RtspInv, SessionsInv, SessionInv
<1>1. CASE WriterLoop(c)
  <2> DEFINE r == IF s.closed THEN "dead" ELSE "take"
             t == [s EXCEPT !.writer = r]
  <2>1. s.writer = "loop" /\ r \in {"dead", "take"} /\ Set(c, t) /\ sinks' = sinks
    BY <1>1 DEF WriterLoop, Writes
  <2>2. UNCHANGED <<server, toClose, accepting, sessions, encoder>>
    BY <1>1 DEF WriterLoop, Writes
  <2> HIDE DEF r
  <2>3. Quiet(s, t)
    BY <1>0, <2>1 DEF SessionInv, Quiet, Alike, SessionRecord, Writers
  <2> HIDE DEF t, s
  <2>4. sinks' \in SUBSET Clients
    BY <2>1 DEF RtspInv, ServerInv
  <2>5. QED
    BY <2>1, <2>2, <2>3, <2>4, OwnStep DEF s
<1>2. CASE TakeUnit(c)
  <2> DEFINE t == [s EXCEPT !.writer = "count", !.hand = Head(s.queue), !.queue = Tail(@),
                        !.whole = @ \/ Head(s.queue).key]
  <2>1. s.writer = "take" /\ s.queue /= <<>> /\ Set(c, t)
    BY <1>2 DEF TakeUnit
  <2>2. SessionInv(t)
    BY <1>0, <2>1, TakeInv
  <2>0. t.inside = s.inside
    BY <1>0 DEF SessionRecord
  <2> HIDE DEF t
  <2>3. SessionsInv' /\ OfferingInv'
    <3>1. UNCHANGED encoder
      BY <1>2 DEF TakeUnit, Writes
    <3>2. QED
      BY <2>0, <2>1, <2>2, <3>1, SetInv, OfferingKept DEF RtspInv
  <2>4. ServerInv' /\ EncoderInv'
    BY <1>2 DEF TakeUnit, Writes, RtspInv, ServerInv, EncoderInv
  <2>5. QED
    BY <2>3, <2>4 DEF RtspInv
<1>3. CASE TakeInterrupted(c)
  <2> DEFINE t == [s EXCEPT !.writer = "dead"]
  <2>1. Quiet(s, t)
    BY <1>0, <1>3 DEF TakeInterrupted, SessionInv, Quiet, Alike, SessionRecord, Writers
  <2>2. Set(c, t) /\ sinks' = sinks
    BY <1>3 DEF TakeInterrupted, Writes
  <2>3. UNCHANGED <<server, toClose, accepting, sessions, encoder>>
    BY <1>3 DEF TakeInterrupted, Writes
  <2> HIDE DEF t, s
  <2>4. sinks' \in SUBSET Clients
    BY <2>2 DEF RtspInv, ServerInv
  <2>5. QED
    BY <2>1, <2>2, <2>3, <2>4, OwnStep DEF s
<1>4. CASE CountUnit(c)
  <2> DEFINE t == [s EXCEPT !.writer = "lock", !.bytes = Less(@, s.hand.size), !.hand = Nobody]
  <2>1. s.writer = "count" /\ Unlocked(s) /\ Set(c, t)
    BY <1>4 DEF CountUnit
  <2>2. SessionInv(t)
    BY <1>0, <2>1, CountInv
  <2>0. t.inside = s.inside
    BY <1>0 DEF SessionRecord
  <2> HIDE DEF t
  <2>3. SessionsInv' /\ OfferingInv'
    <3>1. UNCHANGED encoder
      BY <1>4 DEF CountUnit, Writes
    <3>2. QED
      BY <2>0, <2>1, <2>2, <3>1, SetInv, OfferingKept DEF RtspInv
  <2>4. ServerInv' /\ EncoderInv'
    BY <1>4 DEF CountUnit, Writes, RtspInv, ServerInv, EncoderInv
  <2>5. QED
    BY <2>3, <2>4 DEF RtspInv
<1>5. CASE SendBegins(c)
  <2> DEFINE t == [s EXCEPT !.writer = "send", !.lock = "writer"]
  <2>1. Quiet(s, t)
    BY <1>0, <1>5 DEF SendBegins, SessionInv, Quiet, Alike, SessionRecord, Writers, Locks
  <2>2. Set(c, t) /\ sinks' = sinks
    BY <1>5 DEF SendBegins, Writes
  <2>3. UNCHANGED <<server, toClose, accepting, sessions, encoder>>
    BY <1>5 DEF SendBegins, Writes
  <2> HIDE DEF t, s
  <2>4. sinks' \in SUBSET Clients
    BY <2>2 DEF RtspInv, ServerInv
  <2>5. QED
    BY <2>1, <2>2, <2>3, <2>4, OwnStep DEF s
<1>6. CASE WriterCloses(c)
  <2> DEFINE u == BeginClose(s)
             r == IF s.closed THEN "dead" ELSE "closing"
             t == [u EXCEPT !.writer = r]
  <2>1. Set(c, t) /\ sinks' = sinks
    BY <1>6 DEF WriterCloses, Writes
  <2>2. UNCHANGED <<server, toClose, accepting, sessions, encoder>>
    BY <1>6 DEF WriterCloses, Writes
  <2>3. u \in SessionRecord /\ SessionInv(u) /\ Quiet(s, u) /\ u.writer = s.writer /\ u.lock = s.lock
    <3>1. Quiet(s, u)
      BY <1>0, BeginCloseQuiet
    <3>2. u.writer = s.writer /\ u.lock = s.lock
      BY <1>0 DEF BeginClose, SessionRecord
    <3> HIDE DEF u
    <3>3. SessionInv(u)
      BY <1>0, <3>1, QuietInv
    <3>4. QED
      BY <3>1, <3>2, <3>3 DEF SessionInv
  <2>4. s.writer = "close" /\ r \in {"dead", "closing"}
    BY <1>6 DEF WriterCloses
  <2> HIDE DEF u, r, s
  <2>5. Quiet(u, t)
    BY <2>3, <2>4 DEF SessionInv, Quiet, Alike, SessionRecord, Writers
  <2> HIDE DEF t
  <2>6. SessionInv(t)
    BY <2>3, <2>5, QuietInv
  <2>7. SessionsInv' /\ OfferingInv'
    <3>1. t.inside \in Offering => t.inside = s.inside
      BY <2>3, <2>5 DEF Quiet
    <3>2. QED
      BY <2>1, <2>2, <2>6, <3>1, SetInv, OfferingKept DEF RtspInv, s
  <2>8. ServerInv' /\ EncoderInv'
    BY <2>1, <2>2 DEF RtspInv, ServerInv, EncoderInv
  <2>9. QED
    BY <2>7, <2>8 DEF RtspInv
<1>7. CASE WriterDies(c)
  <2> DEFINE t == [s EXCEPT !.writer = "dead"]
  <2>1. Quiet(s, t)
    BY <1>0, <1>7 DEF WriterDies, SessionInv, Quiet, Alike, SessionRecord, Writers
  <2>2. Set(c, t) /\ sinks' = sinks
    BY <1>7 DEF WriterDies, Writes
  <2>3. UNCHANGED <<server, toClose, accepting, sessions, encoder>>
    BY <1>7 DEF WriterDies, Writes
  <2> HIDE DEF t, s
  <2>4. sinks' \in SUBSET Clients
    BY <2>2 DEF RtspInv, ServerInv
  <2>5. QED
    BY <2>1, <2>2, <2>3, <2>4, OwnStep DEF s
<1>8. QED
  BY <1>1, <1>2, <1>3, <1>4, <1>5, <1>6, <1>7 DEF WriterThread

LEMMA TimeStep ==
    ASSUME RtspInv, NEW c \in Clients, TimePasses(c)
    PROVE  RtspInv'
<1> DEFINE s == session[c]
<1>0. SessionInv(s) /\ s \in SessionRecord
  BY DEF RtspInv, SessionsInv, SessionInv
<1>1. CASE TimePasses(c)
  <2> DEFINE t == [s EXCEPT !.late = TRUE]
  <2>1. Quiet(s, t)
    BY <1>0, <1>1 DEF TimePasses, SessionInv, Quiet, Alike, SessionRecord, Writers
  <2>2. Set(c, t) /\ sinks' = sinks
    BY <1>1 DEF TimePasses, Writes
  <2>3. UNCHANGED <<server, toClose, accepting, sessions, encoder>>
    BY <1>1 DEF TimePasses, Writes
  <2> HIDE DEF t, s
  <2>4. sinks' \in SUBSET Clients
    BY <2>2 DEF RtspInv, ServerInv
  <2>5. QED
    BY <2>1, <2>2, <2>3, <2>4, OwnStep DEF s
<1>2. QED
  BY <1>1

-----------------------------------------------------------------------------
LEMMA RtspInit_Inv ==
    ASSUME RtspInit
    PROVE  RtspInv
<1>1. ServerInv /\ EncoderInv
  BY DEF RtspInit, ServerInv, EncoderInv
<1>2. session = [c \in Clients |-> Fresh]
  BY DEF RtspInit
<1>3. SessionInv(Fresh) /\ Fresh \in SessionRecord
  BY FreshInv DEF SessionInv
<1>4. SessionsInv
  BY <1>2, <1>3 DEF SessionsInv
<1>5. OfferingInv
  BY <1>2 DEF OfferingInv, Offering, Fresh
<1>6. QED
  BY <1>1, <1>4, <1>5 DEF RtspInv

LEMMA RtspNext_Inv ==
    ASSUME RtspInv, [RtspNext]_rtspVars
    PROVE  RtspInv'
<1>1. CASE MainThread
  BY <1>1, MainStep
<1>2. CASE AcceptThread
  BY <1>2, AcceptStep
<1>3. CASE EncoderThread
  BY <1>3, EncoderStep
<1>4. ASSUME NEW c \in Clients,
             \/ Closing(c) \/ ClientActs(c) \/ RequestThread(c) \/ Peer(c)
             \/ WriterThread(c) \/ TimePasses(c)
      PROVE  RtspInv'
  BY <1>4, ClosingStep, ClientStep, RequestStep, PeerStep, WriterStep, TimeStep
<1>5. CASE RtspEnded \/ UNCHANGED rtspVars
  <2>1. UNCHANGED rtspVars
    BY <1>5 DEF RtspEnded
  <2>2. ServerInv' /\ EncoderInv' /\ SessionsInv' /\ OfferingInv'
    BY <2>1 DEF rtspVars, RtspInv, ServerInv, EncoderInv, SessionsInv, OfferingInv
  <2>3. QED
    BY <2>2 DEF RtspInv
<1>6. QED
  BY <1>1, <1>2, <1>3, <1>4, <1>5 DEF RtspNext

\* The server's sets hold clients, the encoder thread has a unit while it
\* serves them, and every session's buffer and count are as BufferInv says.
THEOREM RtspAgrees == RtspSpec => []RtspInv
<1>1. RtspInit => RtspInv
  BY RtspInit_Inv
<1>2. RtspInv /\ [RtspNext]_rtspVars => RtspInv'
  BY RtspNext_Inv
<1>3. QED
  BY <1>1, <1>2, PTL DEF RtspSpec

LEMMA RtspTypes == RtspInv => RtspTypeOK
<1> SUFFICES ASSUME RtspInv PROVE RtspTypeOK
  OBVIOUS
<1>1. /\ server \in {"new", "listening", "closing", "joining", "stopped"}
      /\ toClose \cup sessions \cup sinks \subseteq Clients
      /\ accepting \in Clients \cup {"no", "listening"}
  BY DEF RtspInv, ServerInv
<1>2. encoder.todo \subseteq Clients
  BY DEF RtspInv, EncoderInv, Idle
<1>3. ASSUME NEW c \in Clients
      PROVE  /\ session[c].queue \in Seq(Units) /\ Len(session[c].queue) <= Capacity
             /\ session[c].bytes \in 0..(2 * MaxQueueBytes)
  <2> DEFINE s == session[c]
  <2>1. s \in SessionRecord /\ Bounded(s)
    BY DEF RtspInv, SessionsInv, SessionInv, BufferInv
  <2>2. s.queue \in Seq(Units) /\ s.bytes \in Nat
    BY <2>1 DEF SessionRecord, Queues
  <2>3. Len(s.queue) <= Capacity /\ s.bytes <= 2 * MaxQueueBytes
    BY <2>1 DEF Bounded
  <2> HIDE DEF s
  <2>4. s.bytes \in 0..(2 * MaxQueueBytes)
    BY <2>2, <2>3, LimitFacts
  <2>5. QED
    BY <2>2, <2>3, <2>4 DEF s
<1>4. QED
  BY <1>1, <1>2, <1>3 DEF RtspTypeOK

\* A queue has at most its capacity of units, and its byte count, taken and
\* given back by two threads, stays between 0 and twice the limit.
THEOREM RtspTyped == RtspSpec => []RtspTypeOK
BY RtspTypes, RtspAgrees, PTL

\* A queue holds at most twice its limit of bytes although the count may be a
\* unit too low, and while its session lives no unit whose key frame was dropped
\* from it is in it but while a thread clears it.
THEOREM QueuesKeepPromise == RtspSpec => []QueueKeepsItsPromise
<1>1. ASSUME RtspInv PROVE QueueKeepsItsPromise
  <2>1. ASSUME NEW c \in Clients
        PROVE  LET s == session[c]
                   q == s.queue
               IN /\ Bytes(q) <= 2 * MaxQueueBytes
                  /\ ~s.closed /\ s.inside \notin Clearing =>
                       \A i \in DOMAIN q : ~q[i].key => s.whole \/ \E j \in 1..(i - 1) : q[j].key
    <3> DEFINE s == session[c]
    <3>1. s \in SessionRecord /\ Bounded(s) /\ Decodable(s)
      BY <1>1 DEF RtspInv, SessionsInv, SessionInv, BufferInv
    <3>2. DOMAIN s.queue = 1..Len(s.queue)
      BY <3>1, QueueElements DEF SessionRecord, Queues
    <3>3. QED
      BY <3>1, <3>2 DEF Bounded, Decodable, HasKeyBefore
  <2>2. QED
    BY <2>1 DEF QueueKeepsItsPromise
<1>2. QED
  BY <1>1, RtspAgrees, PTL
=============================================================================
