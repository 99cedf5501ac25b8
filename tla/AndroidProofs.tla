----------------------------- MODULE AndroidProofs -----------------------------
(***************************************************************************)
(* What holds of the way of a unit into RTP packets and back, for any      *)
(* units an encoder may write, any room of a packet and any number of      *)
(* sequence numbers, and of the Android parts together.                    *)
(*                                                                         *)
(* Split, Fragments, FlattenSeq and Joined are recursive functions.  That  *)
(* such a function exists is proved once (Recursion); what it computes is  *)
(* proved by induction over the places of a sequence (Upward, Downward).   *)
(* The data is related to its units by where each of them ends (Layout,    *)
(* Cuts), so that every step of the induction is about one unit.           *)
(***************************************************************************)
EXTENDS MCAndroid, StreamingServiceProofs, RtspServerProofs, SequenceTheorems

-----------------------------------------------------------------------------
(* Recursion.  What a recursive function computes is proved by induction   *)
(* over its arguments, as membership in a set T.                           *)

LEMMA Upward ==
  ASSUME NEW n \in Nat, NEW T, 0 \in T, \A i \in 1..n : i - 1 \in T => i \in T
  PROVE  \A i \in 0..n : i \in T
<1> DEFINE Out == {i \in 0..n : i \notin T}
<1>1. CASE Out = {}
  BY <1>1
<1>2. CASE Out /= {}
  <2>1. Out \in SUBSET Nat
    OBVIOUS
  <2> HIDE DEF Out
  <2>2. PICK u \in Out : \A v \in Out : u <= v
    BY <1>2, <2>1, LeastNumber
  <2>3. u \in 0..n /\ u \notin T /\ u /= 0
    BY <2>2 DEF Out
  <2>4. u - 1 \notin Out
    BY <2>2, <2>3
  <2> QED
    BY <2>3, <2>4 DEF Out
<1> QED
  BY <1>1, <1>2

LEMMA Downward ==
  ASSUME NEW n \in Nat, NEW T, n \in T, \A i \in 0..(n - 1) : i + 1 \in T => i \in T
  PROVE  \A i \in 0..n : i \in T
<1> DEFINE Q == {i \in 0..n : n - i \in T}
<1>1. 0 \in Q
  OBVIOUS
<1>2. ASSUME NEW i \in 1..n, i - 1 \in Q PROVE i \in Q
  <2>1. n - (i - 1) = (n - i) + 1 /\ n - i \in 0..(n - 1)
    OBVIOUS
  <2> QED
    BY <1>2, <2>1
<1> HIDE DEF Q
<1>3. \A i \in 0..n : i \in Q
  BY <1>1, <1>2, Upward
<1>4. ASSUME NEW i \in 0..n PROVE i \in T
  <2>1. n - i \in 0..n /\ n - (n - i) = i
    OBVIOUS
  <2>2. n - i \in Q
    BY <1>3, <2>1
  <2> QED
    BY <2>1, <2>2 DEF Q
<1> QED
  BY <1>4

\* f is computed by H from its values where the rank is less.
Ranked(D, V, n, rank, H) ==
    /\ n \in Nat /\ rank \in [D -> 0..n] /\ H \in [D -> [[D -> V] -> V]]
    /\ \A x \in D : \A g, h \in [D -> V] : (\A y \in D : rank[y] < rank[x] => g[y] = h[y]) => H[x][g] = H[x][h]
Computed(D, H, f) == \A x \in D : f[x] = H[x][f]

\* A function that is computed from its values of less rank exists.
LEMMA Recursion ==
  ASSUME NEW D, NEW V, NEW n, NEW rank, NEW H, V /= {}, Ranked(D, V, n, rank, H)
  PROVE  \E f \in [D -> V] : Computed(D, H, f)
<1>0. /\ n \in Nat /\ rank \in [D -> 0..n] /\ H \in [D -> [[D -> V] -> V]]
      /\ \A x \in D : \A g, h \in [D -> V] :
           (\A y \in D : rank[y] < rank[x] => g[y] = h[y]) => H[x][g] = H[x][h]
  BY DEF Ranked
<1>v. PICK v0 \in V : TRUE
  OBVIOUS
<1> DEFINE Solves(g, m) == \A x \in D : rank[x] < m => g[x] = H[x][g]
           Solved == {m \in Nat : \E g \in [D -> V] : Solves(g, m)}
<1>1. 0 \in Solved
  <2>1. [x \in D |-> v0] \in [D -> V] /\ Solves([x \in D |-> v0], 0)
    BY <1>0
  <2> HIDE DEF Solves
  <2> QED
    BY <2>1
<1>2. ASSUME NEW m \in 1..(n + 1), m - 1 \in Solved PROVE m \in Solved
  <2>1. PICK g \in [D -> V] : Solves(g, m - 1)
    BY <1>2
  <2> DEFINE h == [x \in D |-> IF rank[x] < m - 1 THEN g[x] ELSE H[x][g]]
  <2>2. h \in [D -> V]
    BY <1>0
  <2>3. \A y \in D : rank[y] < m - 1 => h[y] = g[y]
    OBVIOUS
  <2>4. \A x \in D : ~(rank[x] < m - 1) => h[x] = H[x][g]
    OBVIOUS
  <2> HIDE DEF h
  <2>5. ASSUME NEW x \in D, rank[x] < m PROVE h[x] = H[x][h]
    <3>1. \A y \in D : rank[y] < rank[x] => g[y] = h[y]
      <4> TAKE y \in D
      <4> HAVE rank[y] < rank[x]
      <4>1. rank[y] < m - 1
        BY <1>0, <2>5
      <4> QED
        BY <2>3, <4>1
    <3>2. H[x][g] = H[x][h]
      BY <1>0, <2>2, <3>1
    <3>3. CASE rank[x] < m - 1
      <4>1. g[x] = H[x][g]
        BY <2>1, <3>3
      <4> QED
        BY <2>3, <3>2, <3>3, <4>1
    <3>4. CASE ~(rank[x] < m - 1)
      BY <2>4, <3>2, <3>4
    <3> QED
      BY <3>3, <3>4
  <2>6. m \in Nat
    BY <1>0
  <2> QED
    BY <2>2, <2>5, <2>6
<1> HIDE DEF Solved
<1>3. n + 1 \in Solved
  <2>1. n + 1 \in Nat /\ n + 1 \in 0..(n + 1)
    BY <1>0
  <2> QED
    BY <1>1, <1>2, <2>1, Upward
<1>4. PICK f \in [D -> V] : Solves(f, n + 1)
  BY <1>3 DEF Solved
<1>5. \A x \in D : rank[x] < n + 1
  BY <1>0
<1> QED
  BY <1>4, <1>5 DEF Computed

-----------------------------------------------------------------------------
(* FlattenSeq.                                                             *)

\* data is the sequences one after the other; the i-th ends at off[i].
Cuts(seqs, off, data) ==
    /\ off \in [0..Len(seqs) -> Nat] /\ off[0] = 0 /\ Len(data) = off[Len(seqs)]
    /\ \A i \in 1..Len(seqs) : off[i] = off[i - 1] + Len(seqs[i])
    /\ \A i \in 1..Len(seqs) : \A k \in 1..Len(seqs[i]) : data[off[i - 1] + k] = seqs[i][k]

FlattenBody(seqs, f) == [i \in 1..Len(seqs) |-> IF i = 1 THEN seqs[i] ELSE f[i-1] \o seqs[i]]

LEMMA FlattenHasFunction ==
  ASSUME NEW S, NEW n \in Nat, NEW seqs \in Seq(Seq(S)), n = Len(seqs)
  PROVE  \E f : f = FlattenBody(seqs, f)
<1> DEFINE V == Seq(S)
           D == 1..n
           H == [i \in D |-> [g \in [D -> V] |-> IF i = 1 THEN seqs[i] ELSE g[i-1] \o seqs[i]]]
           rank == [i \in D |-> i]
<1>0. \A i \in D : seqs[i] \in Seq(S)
  OBVIOUS
<1>1. rank \in [D -> 0..n]
  OBVIOUS
<1>2. H \in [D -> [[D -> V] -> V]]
  <2>1. ASSUME NEW i \in D, NEW g \in [D -> V] PROVE (IF i = 1 THEN seqs[i] ELSE g[i-1] \o seqs[i]) \in V
    <3>1. CASE i = 1
      BY <1>0, <3>1
    <3>2. CASE i /= 1
      <4>1. i - 1 \in D
        BY <3>2
      <4>2. g[i-1] \in Seq(S) /\ seqs[i] \in Seq(S)
        BY <1>0, <4>1
      <4> QED
        BY <3>2, <4>2
    <3> QED
      BY <3>1, <3>2
  <2> QED
    BY <2>1
<1>3. ASSUME NEW i \in D, NEW g \in [D -> V], NEW h \in [D -> V],
             \A y \in D : rank[y] < rank[i] => g[y] = h[y]
      PROVE  H[i][g] = H[i][h]
  <2>1. i /= 1 => i - 1 \in D /\ rank[i - 1] < rank[i]
    OBVIOUS
  <2>2. i /= 1 => g[i-1] = h[i-1]
    BY <1>3, <2>1
  <2> QED
    BY <2>2
<1>4. <<>> \in V
  OBVIOUS
<1>5. Ranked(D, V, n, rank, H)
  BY <1>1, <1>2, <1>3 DEF Ranked
<1>7. PICK f \in [D -> V] : Computed(D, H, f)
  <2> HIDE DEF H, rank, D, V
  <2>1. V /= {}
    BY <1>4
  <2> QED
    BY <1>5, <2>1, Recursion
<1>6. f = FlattenBody(seqs, f)
  <2>1. \A i \in D : f[i] = IF i = 1 THEN seqs[i] ELSE f[i-1] \o seqs[i]
    BY <1>7 DEF Computed
  <2> QED
    BY <2>1 DEF FlattenBody
<1> QED
  BY <1>6

Concatenates(seqs, n, fl) ==
    /\ fl[0] = <<>> /\ FlattenSeq(seqs) = fl[n]
    /\ \A i \in 1..n : fl[i] = fl[i-1] \o seqs[i]

\* FlattenSeq, one sequence more at a time.
LEMMA FlattenRecurs ==
  ASSUME NEW S, NEW n \in Nat, NEW seqs \in Seq(Seq(S)), n = Len(seqs)
  PROVE  \E fl \in [0..n -> Seq(S)] : Concatenates(seqs, n, fl)
<1>0. <<>> \in Seq(S)
  OBVIOUS
<1>1. CASE n = 0
  <2>a. seqs = <<>>
    BY <1>1, EmptySeq
  <2>1. seqs = <<>> /\ FlattenSeq(seqs) = <<>>
    BY <2>a, <1>1 DEF FlattenSeq
  <2> DEFINE fl == [i \in 0..n |-> <<>>]
  <2>2. fl \in [0..n -> Seq(S)] /\ fl[0] = <<>> /\ fl[n] = <<>> /\ 1..n = {}
    BY <1>0, <1>1
  <2> HIDE DEF fl
  <2> QED
    BY <2>1, <2>2 DEF Concatenates
<1>2. CASE n /= 0
  <2> DEFINE flatten[i \in 1..Len(seqs)] == IF i = 1 THEN seqs[i] ELSE flatten[i-1] \o seqs[i]
  <2>1. FlattenSeq(seqs) = flatten[n]
    <3>1. FlattenSeq(seqs) = IF Len(seqs) = 0 THEN seqs ELSE flatten[Len(seqs)]
      BY DEF FlattenSeq
    <3> HIDE DEF flatten
    <3> QED
      BY <1>2, <3>1
  <2>2. flatten = CHOOSE f : f = FlattenBody(seqs, f)
    BY DEF flatten, FlattenBody
  <2> HIDE DEF flatten
  <2>3. flatten = FlattenBody(seqs, flatten)
    BY <2>2, FlattenHasFunction, Zenon
  <2>4. \A i \in 1..n : flatten[i] = IF i = 1 THEN seqs[i] ELSE flatten[i-1] \o seqs[i]
    BY <2>3 DEF FlattenBody
  <2>5. \A i \in 1..n : seqs[i] \in Seq(S)
    OBVIOUS
  <2> DEFINE fl == [i \in 0..n |-> IF i = 0 THEN <<>> ELSE flatten[i]]
             T == {i \in 0..n : fl[i] \in Seq(S)}
  <2>6. fl[0] = <<>> /\ \A i \in 1..n : fl[i] = flatten[i]
    OBVIOUS
  <2>7. DOMAIN fl = 0..n /\ fl = [i \in 0..n |-> fl[i]]
    OBVIOUS
  <2> HIDE DEF fl
  <2>8. ASSUME NEW i \in 1..n PROVE fl[i] = fl[i-1] \o seqs[i]
    <3>1. CASE i = 1
      <4>1. fl[1] = seqs[1] /\ fl[0] = <<>> /\ seqs[1] \in Seq(S)
        BY <2>4, <2>5, <2>6, <3>1
      <4>2. <<>> \o seqs[1] = seqs[1]
        BY <4>1, ConcatEmptySeq
      <4> QED
        BY <3>1, <4>1, <4>2, i - 1 = 0
    <3>2. CASE i /= 1
      <4>1. i - 1 \in 1..n
        BY <3>2
      <4> QED
        BY <2>4, <2>6, <3>2, <4>1
    <3> QED
      BY <3>1, <3>2
  <2>9. ASSUME NEW i \in 1..n, i - 1 \in T PROVE i \in T
    <3>1. fl[i-1] \in Seq(S) /\ seqs[i] \in Seq(S)
      BY <2>5, <2>9
    <3>2. fl[i-1] \o seqs[i] \in Seq(S)
      BY <3>1
    <3>a. fl[i] = fl[i-1] \o seqs[i]
      BY <2>8
    <3>b. i \in 0..n
      OBVIOUS
    <3>3. fl[i] \in Seq(S) /\ i \in 0..n
      BY <3>a, <3>b, <3>2, Zenon
    <3> QED
      BY <3>3
  <2>10. 0 \in T
    <3>1. 0 \in 0..n /\ fl[0] \in Seq(S)
      BY <1>0, <2>6
    <3> QED
      BY <3>1
  <2>11. \A i \in 0..n : i \in T
    <3> HIDE DEF T
    <3> QED
      BY <2>9, <2>10, Upward
  <2>12. fl \in [0..n -> Seq(S)]
    BY <2>7, <2>11
  <2>13. fl[n] = FlattenSeq(seqs)
    BY <1>2, <2>1, <2>6
  <2> QED
    BY <2>6, <2>8, <2>12, <2>13 DEF Concatenates
<1> QED
  BY <1>1, <1>2

\* f is s and then t.
Joins(S, f, s, t) ==
    /\ f \in Seq(S) /\ Len(f) = Len(s) + Len(t) /\ Len(s) \in Nat /\ Len(t) \in Nat
    /\ \A k \in 1..Len(s) : f[k] = s[k]
    /\ \A k \in 1..Len(t) : f[Len(s) + k] = t[k]

LEMMA ConcatIs ==
  ASSUME NEW S, NEW s \in Seq(S), NEW t \in Seq(S)
  PROVE  Joins(S, s \o t, s, t)
<1>1. Len(s) \in Nat /\ Len(t) \in Nat
  BY LenProperties
<1> DEFINE new == s \o t
<1>2. /\ new \in Seq(S) /\ Len(new) = Len(s) + Len(t)
      /\ \A k \in 1..(Len(s) + Len(t)) : new[k] = IF k <= Len(s) THEN s[k] ELSE t[k - Len(s)]
  BY ConcatProperties
<1> HIDE DEF new
<1>3. \A k \in 1..Len(s) : new[k] = s[k]
  BY <1>1, <1>2
<1>4. ASSUME NEW k \in 1..Len(t) PROVE new[Len(s) + k] = t[k]
  <2>1. PICK m \in 1..(Len(s) + Len(t)) : m = Len(s) + k
    BY <1>1
  <2>2. ~(m <= Len(s)) /\ m - Len(s) = k
    BY <1>1, <2>1
  <2>3. new[m] = t[m - Len(s)]
    BY <1>2, <2>2
  <2> QED
    BY <2>1, <2>2, <2>3
<1>5. Joins(S, new, s, t)
  BY <1>1, <1>2, <1>3, <1>4 DEF Joins
<1> QED
  BY <1>5 DEF new

CutsUpTo(seqs, off, j, data) ==
    /\ off[j] = Len(data)
    /\ \A i \in 1..j : /\ off[i - 1] \in Nat /\ off[i] \in Nat
                       /\ off[i] = off[i - 1] + Len(seqs[i]) /\ off[i] <= off[j]
    /\ \A i \in 1..j : \A k \in 1..Len(seqs[i]) : data[off[i - 1] + k] = seqs[i][k]

\* One sequence more.
LEMMA CutsGrow ==
  ASSUME NEW S, NEW seqs, NEW off, NEW j \in Nat, j >= 1, NEW data \in Seq(S), seqs[j] \in Seq(S),
         \A i \in 1..j : seqs[i] \in Seq(S),
         off[j] = Len(data \o seqs[j]), CutsUpTo(seqs, off, j - 1, data)
  PROVE  CutsUpTo(seqs, off, j, data \o seqs[j])
<1> DEFINE new == data \o seqs[j]
<1>1. /\ new \in Seq(S) /\ Len(new) = Len(data) + Len(seqs[j])
      /\ \A k \in 1..Len(data) : new[k] = data[k]
      /\ \A k \in 1..Len(seqs[j]) : new[Len(data) + k] = seqs[j][k]
  <2>1. Joins(S, new, data, seqs[j])
    BY ConcatIs
  <2> HIDE DEF new
  <2> QED
    BY <2>1 DEF Joins
<1> HIDE DEF new
<1>2. /\ off[j - 1] = Len(data) /\ off[j] = Len(new) /\ Len(data) \in Nat /\ Len(seqs[j]) \in Nat
      /\ off[j] = off[j - 1] + Len(seqs[j]) /\ off[j] \in Nat /\ off[j - 1] \in Nat /\ off[j - 1] <= off[j]
  <2>1. off[j] = Len(new) /\ off[j - 1] = Len(data)
    BY DEF CutsUpTo, new
  <2>2. Len(data) \in Nat /\ Len(seqs[j]) \in Nat
    BY LenProperties
  <2> QED
    BY <1>1, <2>1, <2>2
<1>3. ASSUME NEW i \in 1..j
      PROVE  /\ off[i - 1] \in Nat /\ off[i] \in Nat /\ off[i] = off[i - 1] + Len(seqs[i]) /\ off[i] <= off[j]
             /\ i /= j => off[i] <= off[j - 1]
  <2>1. CASE i = j
    BY <1>2, <2>1
  <2>2. CASE i /= j
    <3>1. i \in 1..(j - 1)
      BY <2>2
    <3>2. off[i - 1] \in Nat /\ off[i] \in Nat /\ off[i] = off[i - 1] + Len(seqs[i]) /\ off[i] <= off[j - 1]
      BY <3>1 DEF CutsUpTo
    <3> QED
      BY <1>2, <3>2
  <2> QED
    BY <2>1, <2>2
<1>4. ASSUME NEW i \in 1..j, NEW k \in 1..Len(seqs[i]) PROVE new[off[i - 1] + k] = seqs[i][k]
  <2>a. seqs[i] \in Seq(S)
    OBVIOUS
  <2>0. Len(seqs[i]) \in Nat /\ k \in Nat /\ k >= 1 /\ k <= Len(seqs[i])
    BY <2>a, LenProperties
  <2>1. CASE i = j
    <3>1. new[Len(data) + k] = seqs[j][k]
      BY <1>1, <2>1
    <3> QED
      BY <1>2, <2>1, <3>1
  <2>2. CASE i /= j
    <3>1. i \in 1..(j - 1)
      BY <2>2
    <3>2. data[off[i - 1] + k] = seqs[i][k]
      BY <3>1 DEF CutsUpTo
    <3>a. off[i - 1] \in Nat /\ off[i] \in Nat /\ off[i] = off[i - 1] + Len(seqs[i]) /\ off[i] <= off[j - 1]
      <4>1. off[i - 1] \in Nat /\ off[i] \in Nat /\ off[i] = off[i - 1] + Len(seqs[i])
        BY <1>3
      <4>2. off[i] <= off[j - 1]
        BY <1>3, <2>2
      <4> QED
        BY <4>1, <4>2
    <3>b. off[i - 1] + k <= off[j - 1] /\ off[i - 1] + k \in Nat /\ off[i - 1] + k >= 1
      BY <3>a, <2>0, <1>2
    <3>c. off[j - 1] \in Nat /\ off[j - 1] <= off[j] /\ off[j] = Len(new) /\ off[j - 1] = Len(data) /\ off[j] \in Nat
      BY <1>2
    <3>3. off[i - 1] + k \in 1..Len(data)
      BY <3>b, <3>c
    <3> QED
      BY <1>1, <3>2, <3>3
  <2> QED
    BY <2>1, <2>2
<1> QED
  BY <1>2, <1>3, <1>4 DEF CutsUpTo, new

\* FlattenSeq puts sequences one after the other.
LEMMA FlattenIs ==
  ASSUME NEW S, NEW seqs \in Seq(Seq(S))
  PROVE  FlattenSeq(seqs) \in Seq(S) /\ \E off : Cuts(seqs, off, FlattenSeq(seqs))
<1>1. PICK n \in Nat : n = Len(seqs)
  BY LenProperties
<1>a. PICK fl \in [0..n -> Seq(S)] : Concatenates(seqs, n, fl)
  BY <1>1, FlattenRecurs
<1>2. /\ fl[0] = <<>> /\ FlattenSeq(seqs) = fl[n]
      /\ \A i \in 1..n : fl[i] = fl[i-1] \o seqs[i]
  BY <1>a DEF Concatenates
<1>3. \A i \in 1..n : seqs[i] \in Seq(S)
  BY <1>1
<1> DEFINE off == [i \in 0..n |-> Len(fl[i])]
           T == {j \in 0..n : CutsUpTo(seqs, off, j, fl[j])}
<1>4. off \in [0..n -> Nat] /\ \A i \in 0..n : off[i] = Len(fl[i])
  OBVIOUS
<1> HIDE DEF off
<1>5. 0 \in T
  BY <1>2, <1>4 DEF CutsUpTo
<1>6. ASSUME NEW j \in 1..n, j - 1 \in T PROVE j \in T
  <2>1. j \in Nat /\ j >= 1 /\ j - 1 \in 0..n /\ j \in 0..n
    OBVIOUS
  <2>2. fl[j] = fl[j-1] \o seqs[j] /\ fl[j-1] \in Seq(S) /\ seqs[j] \in Seq(S) /\ off[j] = Len(fl[j])
    BY <1>2, <1>3, <1>4, <2>1
  <2>3. \A i \in 1..j : seqs[i] \in Seq(S)
    BY <1>3
  <2>4. CutsUpTo(seqs, off, j - 1, fl[j-1])
    BY <1>6
  <2>5. CutsUpTo(seqs, off, j, fl[j-1] \o seqs[j])
    BY <2>1, <2>2, <2>3, <2>4, CutsGrow
  <2> QED
    BY <2>1, <2>2, <2>5
<1>7. n \in T
  <2> HIDE DEF T
  <2>1. \A j \in 0..n : j \in T
    BY <1>5, <1>6, Upward
  <2> QED
    BY <2>1
<1>8. off[0] = 0
  BY <1>2, <1>4
<1>9. Cuts(seqs, off, fl[n])
  BY <1>1, <1>4, <1>7, <1>8 DEF Cuts, CutsUpTo
<1> QED
  BY <1>2, <1>9

-----------------------------------------------------------------------------
(* Framing.                                                                *)

Byte == 0..255

Layout(unit, h, off, data) ==
    /\ data \in Seq(Byte) /\ off \in [0..Len(unit) -> Nat]
    /\ off[0] = 0 /\ off[Len(unit)] = Len(data)
    /\ \A i \in 1..Len(unit) : off[i] = off[i - 1] + h + Len(unit[i])
    /\ \A i \in 1..Len(unit) : \A k \in 1..Len(unit[i]) : data[off[i - 1] + h + k] = unit[i][k]

Headed(unit, h, off, data, head) ==
    \A i \in 1..Len(unit) : \A k \in 1..h : data[off[i - 1] + k] = head[i][k]

LEMMA FunctionIsSeq ==
  ASSUME NEW S, NEW n \in Nat, NEW f \in [1..n -> S]
  PROVE  f \in Seq(S) /\ Len(f) = n /\ DOMAIN f = 1..n
OBVIOUS

\* Units with a head each, one after the other, are laid out as Layout says.
LEMMA FramesLaid ==
  ASSUME NEW n \in Nat, NEW unit \in Seq(Seq(Byte)), n = Len(unit), NEW h \in Nat, NEW head \in [1..n -> Seq(Byte)],
         \A i \in 1..n : Len(head[i]) = h
  PROVE  LET data == FlattenSeq([i \in 1..n |-> head[i] \o unit[i]])
         IN \E off : Layout(unit, h, off, data) /\ Headed(unit, h, off, data, head)
<1> DEFINE frames == [i \in 1..n |-> head[i] \o unit[i]]
           data == FlattenSeq(frames)
<1>0. \A i \in 1..n : unit[i] \in Seq(Byte) /\ head[i] \in Seq(Byte)
  BY ElementOfSeq
<1>1. ASSUME NEW i \in 1..n
      PROVE  /\ frames[i] \in Seq(Byte) /\ Len(frames[i]) = h + Len(unit[i]) /\ Len(unit[i]) \in Nat
             /\ \A k \in 1..h : frames[i][k] = head[i][k]
             /\ \A k \in 1..Len(unit[i]) : frames[i][h + k] = unit[i][k]
  <2>1. frames[i] = head[i] \o unit[i]
    OBVIOUS
  <2>2. unit[i] \in Seq(Byte) /\ head[i] \in Seq(Byte) /\ Len(head[i]) = h
    BY <1>0
  <2> HIDE DEF frames
  <2> QED
    <3>1. Joins(Byte, head[i] \o unit[i], head[i], unit[i])
      BY <2>2, ConcatIs
    <3>2. Joins(Byte, frames[i], head[i], unit[i])
      BY <2>1, <3>1, Zenon
    <3> QED
      BY <2>2, <3>2 DEF Joins
<1>2. frames \in Seq(Seq(Byte)) /\ Len(frames) = n
  <2>1. DOMAIN frames = 1..n /\ frames = [i \in 1..n |-> frames[i]]
    OBVIOUS
  <2>2. \A i \in 1..n : frames[i] \in Seq(Byte)
    BY <1>1
  <2> HIDE DEF frames
  <2>3. frames \in [1..n -> Seq(Byte)]
    BY <2>1, <2>2
  <2> QED
    BY <2>3, FunctionIsSeq
<1> HIDE DEF frames
<1>3. data \in Seq(Byte) /\ \E off : Cuts(frames, off, data)
  BY <1>2, FlattenIs
<1> HIDE DEF data
<1>4. PICK off : Cuts(frames, off, data)
  BY <1>3
<1>5. /\ off \in [0..n -> Nat] /\ off[0] = 0 /\ Len(data) = off[n]
      /\ \A i \in 1..n : off[i] = off[i - 1] + Len(frames[i])
      /\ \A i \in 1..n : \A k \in 1..Len(frames[i]) : data[off[i - 1] + k] = frames[i][k]
  BY <1>2, <1>4 DEF Cuts
<1>6. ASSUME NEW i \in 1..n
      PROVE  /\ off[i] = off[i - 1] + h + Len(unit[i])
             /\ \A k \in 1..Len(unit[i]) : data[off[i - 1] + h + k] = unit[i][k]
             /\ \A k \in 1..h : data[off[i - 1] + k] = head[i][k]
  <2>1. off[i - 1] \in Nat /\ Len(unit[i]) \in Nat /\ Len(frames[i]) = h + Len(unit[i])
    <3>1. i - 1 \in 0..n
      OBVIOUS
    <3> QED
      BY <1>1, <1>5, <3>1
  <2>2. off[i] = off[i - 1] + h + Len(unit[i])
    BY <1>5, <2>1
  <2>3. ASSUME NEW k \in 1..Len(unit[i]) PROVE data[off[i - 1] + h + k] = unit[i][k]
    <3>1. h + k \in 1..Len(frames[i]) /\ off[i - 1] + (h + k) = off[i - 1] + h + k
      BY <2>1
    <3>2. data[off[i - 1] + (h + k)] = frames[i][h + k]
      BY <1>5, <3>1
    <3>3. frames[i][h + k] = unit[i][k]
      BY <1>1
    <3> QED
      BY <3>1, <3>2, <3>3
  <2>4. ASSUME NEW k \in 1..h PROVE data[off[i - 1] + k] = head[i][k]
    <3>1. k \in 1..Len(frames[i])
      BY <2>1
    <3>2. data[off[i - 1] + k] = frames[i][k]
      BY <1>5, <3>1
    <3>3. frames[i][k] = head[i][k]
      BY <1>1
    <3> QED
      BY <3>2, <3>3
  <2> QED
    BY <2>2, <2>3, <2>4
<1>7. Layout(unit, h, off, data) /\ Headed(unit, h, off, data, head)
  BY <1>3, <1>5, <1>6 DEF Layout, Headed
<1> QED
  BY <1>7 DEF data, frames

-----------------------------------------------------------------------------
(* Start codes.                                                            *)

IsShort(data, i) == i + 2 <= Len(data) /\ data[i] = 0 /\ data[i + 1] = 0 /\ data[i + 2] = 1
IsLong(data, i) ==
    i + 3 <= Len(data) /\ data[i] = 0 /\ data[i + 1] = 0 /\ data[i + 2] = 0 /\ data[i + 3] = 1

\* A piece of a sequence, which may be empty.
LEMMA SubSeqIs ==
  ASSUME NEW S, NEW s \in Seq(S), NEW m \in Nat, NEW n \in Nat, m >= 1, n <= Len(s), m <= n + 1
  PROVE  /\ SubSeq(s, m, n) \in Seq(S) /\ Len(SubSeq(s, m, n)) = n - m + 1
         /\ \A i \in 1..(n - m + 1) : SubSeq(s, m, n)[i] = s[m + i - 1]
<1>1. Len(s) \in Nat
  BY LenProperties
<1>2. CASE m <= n
  BY <1>1, <1>2, SubSeqProperties
<1>3. CASE m = n + 1
  BY <1>1, <1>3, SubSeqProperties
<1> QED
  BY <1>2, <1>3

\* A start code is its bytes.
LEMMA StartCodes ==
  ASSUME NEW data \in Seq(Byte), NEW i \in Nat, i >= 1
  PROVE  (ShortStart(data, i) <=> IsShort(data, i)) /\ (LongStart(data, i) <=> IsLong(data, i))
<1>1. Len(data) \in Nat
  BY LenProperties
<1>2. ASSUME i + 2 <= Len(data)
      PROVE  SubSeq(data, i, i + 2) = <<0, 0, 1>> <=> data[i] = 0 /\ data[i + 1] = 0 /\ data[i + 2] = 1
  <2> DEFINE s == SubSeq(data, i, i + 2)
  <2>1. s \in Seq(Byte) /\ Len(s) = 3 /\ \A k \in 1..3 : s[k] = data[i + k - 1]
    <3>1. i + 2 \in Nat /\ i <= (i + 2) + 1 /\ (i + 2) - i + 1 = 3
      OBVIOUS
    <3> QED
      BY <1>2, <3>1, SubSeqIs
  <2> HIDE DEF s
  <2>2. s[1] = data[i] /\ s[2] = data[i + 1] /\ s[3] = data[i + 2]
    <3>1. s[1] = data[i + 1 - 1] /\ s[2] = data[i + 2 - 1] /\ s[3] = data[i + 3 - 1]
      BY <2>1
    <3>2. i + 1 - 1 = i /\ i + 2 - 1 = i + 1 /\ i + 3 - 1 = i + 2
      OBVIOUS
    <3> QED
      BY <3>1, <3>2
  <2>3. s = <<s[1], s[2], s[3]>>
    BY <2>1
  <2>4. s = <<0, 0, 1>> <=> s[1] = 0 /\ s[2] = 0 /\ s[3] = 1
    BY <2>3
  <2> QED
    BY <2>2, <2>4 DEF s
<1>3. ASSUME i + 3 <= Len(data)
      PROVE  SubSeq(data, i, i + 3) = <<0, 0, 0, 1>>
               <=> data[i] = 0 /\ data[i + 1] = 0 /\ data[i + 2] = 0 /\ data[i + 3] = 1
  <2> DEFINE s == SubSeq(data, i, i + 3)
  <2>1. s \in Seq(Byte) /\ Len(s) = 4 /\ \A k \in 1..4 : s[k] = data[i + k - 1]
    <3>1. i + 3 \in Nat /\ i <= (i + 3) + 1 /\ (i + 3) - i + 1 = 4
      OBVIOUS
    <3> QED
      BY <1>3, <3>1, SubSeqIs
  <2> HIDE DEF s
  <2>2. s[1] = data[i] /\ s[2] = data[i + 1] /\ s[3] = data[i + 2] /\ s[4] = data[i + 3]
    <3>1. s[1] = data[i + 1 - 1] /\ s[2] = data[i + 2 - 1] /\ s[3] = data[i + 3 - 1] /\ s[4] = data[i + 4 - 1]
      BY <2>1
    <3>2. i + 1 - 1 = i /\ i + 2 - 1 = i + 1 /\ i + 3 - 1 = i + 2 /\ i + 4 - 1 = i + 3
      OBVIOUS
    <3> QED
      BY <3>1, <3>2
  <2>3. s = <<s[1], s[2], s[3], s[4]>>
    BY <2>1
  <2>4. s = <<0, 0, 0, 1>> <=> s[1] = 0 /\ s[2] = 0 /\ s[3] = 0 /\ s[4] = 1
    BY <2>3
  <2> QED
    BY <2>2, <2>4 DEF s
<1> QED
  BY <1>2, <1>3 DEF ShortStart, LongStart, IsShort, IsLong

IsCode(data, i) == IsShort(data, i) \/ IsLong(data, i)

LEMMA MinIs ==
  ASSUME NEW S \in SUBSET Nat, S /= {}
  PROVE  Min(S) \in S /\ \A x \in S : Min(S) <= x
<1>1. \E x \in S : \A y \in S : x <= y
  BY LeastNumber
<1>2. Min(S) = CHOOSE x \in S : \A y \in S : x <= y
  BY DEF Min
<1> QED
  BY <1>1, <1>2

\* The first start code from a position on.
Found(data, from, next) ==
    /\ next \in Nat /\ (next /= 0 => next >= from /\ next <= Len(data) /\ IsCode(data, next))
    /\ \A i \in from..Len(data) : IsCode(data, i) => next /= 0 /\ next <= i

\* FindStartCode finds the first start code, or there is none.
LEMMA FindIs ==
  ASSUME NEW data \in Seq(Byte), NEW from \in Nat, from >= 1
  PROVE  Found(data, from, FindStartCode(data, from))
<1>1. Len(data) \in Nat
  BY LenProperties
<1> DEFINE at == {i \in from..Len(data) : ShortStart(data, i) \/ LongStart(data, i)}
<1>2. \A i \in from..Len(data) : i \in at <=> IsCode(data, i)
  <2> TAKE i \in from..Len(data)
  <2>1. i \in Nat /\ i >= 1
    BY <1>1
  <2> QED
    BY <2>1, StartCodes DEF IsCode
<1>3. at \in SUBSET Nat /\ at \subseteq from..Len(data)
  BY <1>1
<1>4. FindStartCode(data, from) = IF at = {} THEN 0 ELSE Min(at)
  BY DEF FindStartCode
<1> HIDE DEF at
<1>5. CASE at = {}
  BY <1>2, <1>4, <1>5 DEF Found
<1>6. CASE at /= {}
  <2> DEFINE least == Min(at)
  <2>1. least \in at /\ \A x \in at : least <= x
    BY <1>3, <1>6, MinIs
  <2>2. FindStartCode(data, from) = least
    BY <1>4, <1>6
  <2> HIDE DEF least
  <2>3. least \in from..Len(data) /\ IsCode(data, least)
    BY <1>2, <1>3, <2>1
  <2>4. least \in Nat /\ least /= 0 /\ least >= from /\ least <= Len(data)
    BY <1>1, <2>3
  <2>5. \A i \in from..Len(data) : IsCode(data, i) => least <= i
    BY <1>2, <2>1
  <2> QED
    BY <2>2, <2>3, <2>4, <2>5 DEF Found
<1> QED
  BY <1>5, <1>6

\* No start code begins inside a unit.
LEMMA NoCodeInside ==
  ASSUME NEW unit \in Seq(Seq(Byte)), NEW h \in Nat, NEW off, NEW data, Layout(unit, h, off, data),
         NEW i \in 1..Len(unit), IsNal(unit[i]), NEW q \in (off[i - 1] + h + 1)..off[i]
  PROVE  ~IsCode(data, q)
<1> DEFINE L == Len(unit[i])
           nal == unit[i]
<1>0. Len(unit) \in Nat
  BY LenProperties
<1>1. /\ L \in Nat /\ L >= 1 /\ nal[L] /= 0
      /\ \A k \in 1..(L - 2) : ~(nal[k] = 0 /\ nal[k + 1] = 0 /\ nal[k + 2] = 1)
  <2>1. IsNal(nal)
    OBVIOUS
  <2> HIDE DEF nal
  <2>2. L > 0 /\ nal \in Seq(Byte)
    BY <2>1 DEF IsNal, nal, Byte
  <2>3. L \in Nat /\ L >= 1
    BY <2>2, LenProperties
  <2> QED
    BY <2>1, <2>3 DEF IsNal, nal
<1>2. off[i - 1] \in Nat /\ off[i] = off[i - 1] + h + L /\ \A k \in 1..L : data[off[i - 1] + h + k] = nal[k]
  <2>1. i - 1 \in 0..Len(unit)
    BY <1>0
  <2>2. off[i - 1] \in Nat
    BY <2>1 DEF Layout
  <2> QED
    BY <2>2 DEF Layout
<1> HIDE DEF nal, L
<1> DEFINE b == off[i - 1] + h
<1>3. b \in Nat /\ off[i] = b + L /\ (\A k \in 1..L : data[b + k] = nal[k]) /\ q \in (b + 1)..(b + L)
  BY <1>1, <1>2
<1> HIDE DEF b
<1>4. PICK k \in 1..L : q = b + k
  <2>1. q - b \in 1..L /\ q = b + (q - b)
    BY <1>1, <1>3
  <2> QED
    BY <2>1
<1>5. data[q] = nal[k] /\ (k + 1 \in 1..L => data[q + 1] = nal[k + 1])
      /\ (k + 2 \in 1..L => data[q + 2] = nal[k + 2]) /\ (k + 3 \in 1..L => data[q + 3] = nal[k + 3])
  <2>1. q + 1 = b + (k + 1) /\ q + 2 = b + (k + 2) /\ q + 3 = b + (k + 3)
    BY <1>1, <1>3, <1>4
  <2> QED
    BY <1>3, <1>4, <2>1
<1>6. CASE k = L
  BY <1>1, <1>5, <1>6 DEF IsCode, IsShort, IsLong
<1>7. CASE k = L - 1
  <2>1. k + 1 = L /\ k + 1 \in 1..L
    BY <1>1, <1>4, <1>7
  <2> QED
    BY <1>1, <1>5, <2>1 DEF IsCode, IsShort, IsLong
<1>8. CASE k = L - 2
  <2>1. k + 2 = L /\ k + 1 \in 1..L /\ k + 2 \in 1..L /\ k \in 1..(L - 2)
    BY <1>1, <1>4, <1>8
  <2> QED
    BY <1>1, <1>5, <2>1 DEF IsCode, IsShort, IsLong
<1>9. CASE k <= L - 3
  <2>1. k + 1 \in 1..(L - 2) /\ k \in 1..(L - 2) /\ k + 1 \in 1..L /\ k + 2 \in 1..L /\ k + 3 \in 1..L
        /\ (k + 1) + 1 = k + 2 /\ (k + 1) + 2 = k + 3
    BY <1>1, <1>4, <1>9
  <2>2. ~(nal[k] = 0 /\ nal[k + 1] = 0 /\ nal[k + 2] = 1) /\ ~(nal[k + 1] = 0 /\ nal[k + 2] = 0 /\ nal[k + 3] = 1)
    BY <1>1, <2>1
  <2> QED
    BY <1>5, <2>1, <2>2 DEF IsCode, IsShort, IsLong
<1> QED
  BY <1>1, <1>4, <1>6, <1>7, <1>8, <1>9

-----------------------------------------------------------------------------
(* The units between start codes.                                          *)

AfterCode(data, start) == start + IF ShortStart(data, start) THEN 3 ELSE 4
NextCode(data, start) == FindStartCode(data, AfterCode(data, start))
Piece(data, start) ==
    LET end == IF NextCode(data, start) = 0 THEN Len(data) ELSE NextCode(data, start) - 1
    IN IF AfterCode(data, start) <= end THEN <<SubSeq(data, AfterCode(data, start), end)>> ELSE <<>>
AnnexBody(data, f) ==
    [start \in 0..Len(data) |-> IF start = 0 THEN <<>> ELSE Piece(data, start) \o f[NextCode(data, start)]]

\* What lies behind a start code is a unit or nothing.
LEMMA PieceIs ==
  ASSUME NEW data \in Seq(Byte), NEW start \in 1..Len(data)
  PROVE  /\ Piece(data, start) \in Seq(Seq(Byte)) /\ AfterCode(data, start) \in Nat /\ AfterCode(data, start) > start
         /\ NextCode(data, start) \in 0..Len(data) /\ (NextCode(data, start) = 0 \/ NextCode(data, start) > start)
<1>1. Len(data) \in Nat
  BY LenProperties
<1>2. AfterCode(data, start) \in Nat /\ AfterCode(data, start) > start /\ AfterCode(data, start) >= 1
  BY <1>1 DEF AfterCode
<1>3. /\ NextCode(data, start) \in Nat
      /\ NextCode(data, start) /= 0 => NextCode(data, start) >= AfterCode(data, start) /\ NextCode(data, start) <= Len(data)
  <2>1. Found(data, AfterCode(data, start), NextCode(data, start))
    BY <1>2, FindIs DEF NextCode
  <2> QED
    BY <2>1 DEF Found
<1>4. NextCode(data, start) \in 0..Len(data) /\ (NextCode(data, start) = 0 \/ NextCode(data, start) > start)
  BY <1>1, <1>2, <1>3
<1> DEFINE end == IF NextCode(data, start) = 0 THEN Len(data) ELSE NextCode(data, start) - 1
<1>5. end \in Nat /\ end <= Len(data)
  BY <1>1, <1>3
<1> HIDE DEF end
<1>6. ASSUME AfterCode(data, start) <= end PROVE SubSeq(data, AfterCode(data, start), end) \in Seq(Byte)
  <2>1. AfterCode(data, start) <= end + 1
    BY <1>2, <1>5, <1>6
  <2> QED
    BY <1>2, <1>5, <2>1, SubSeqIs
<1>7. Piece(data, start) = IF AfterCode(data, start) <= end THEN <<SubSeq(data, AfterCode(data, start), end)>> ELSE <<>>
  BY DEF Piece, end
<1>8. Piece(data, start) \in Seq(Seq(Byte))
  BY <1>6, <1>7
<1> QED
  BY <1>2, <1>4, <1>8

LEMMA AnnexBHasFunction ==
  ASSUME NEW data \in Seq(Byte)
  PROVE  \E f : f = AnnexBody(data, f)
<1> DEFINE V == Seq(Seq(Byte))
           n == Len(data)
           D == 0..n
           H == [x \in D |-> [g \in [D -> V] |-> IF x = 0 THEN <<>> ELSE Piece(data, x) \o g[NextCode(data, x)]]]
           rank == [x \in D |-> IF x = 0 THEN 0 ELSE n - x + 1]
<1>1. n \in Nat
  BY LenProperties
<1> HIDE DEF n
<1>2. rank \in [D -> 0..n]
  BY <1>1
<1>3. <<>> \in V
  OBVIOUS
<1>4. \A x \in D : x /= 0 => Piece(data, x) \in V /\ NextCode(data, x) \in D /\ (NextCode(data, x) = 0 \/ NextCode(data, x) > x)
  <2> TAKE x \in D
  <2> HAVE x /= 0
  <2>1. x \in 1..Len(data)
    BY <1>1 DEF n
  <2> QED
    BY <2>1, PieceIs DEF n
<1>5. H \in [D -> [[D -> V] -> V]]
  <2>1. ASSUME NEW x \in D, NEW g \in [D -> V]
        PROVE  (IF x = 0 THEN <<>> ELSE Piece(data, x) \o g[NextCode(data, x)]) \in V
    <3>1. CASE x = 0
      BY <1>3, <3>1
    <3>2. CASE x /= 0
      <4>1. Piece(data, x) \in V /\ NextCode(data, x) \in D
        BY <1>4, <3>2
      <4>2. Piece(data, x) \in V /\ g[NextCode(data, x)] \in V
        BY <4>1
      <4>3. Piece(data, x) \o g[NextCode(data, x)] \in V
        BY <4>2
      <4> QED
        BY <3>2, <4>3
    <3> QED
      BY <3>1, <3>2
  <2> QED
    BY <2>1
<1>6. ASSUME NEW x \in D, NEW g \in [D -> V], NEW h \in [D -> V], \A y \in D : rank[y] < rank[x] => g[y] = h[y]
      PROVE  H[x][g] = H[x][h]
  <2>1. x /= 0 => NextCode(data, x) \in D /\ rank[NextCode(data, x)] < rank[x]
    <3>1. x /= 0 => NextCode(data, x) \in D /\ (NextCode(data, x) = 0 \/ NextCode(data, x) > x)
      BY <1>4
    <3>2. \A y \in D : x /= 0 /\ (y = 0 \/ y > x) => rank[y] < rank[x]
      BY <1>1
    <3> HIDE DEF rank, D
    <3> QED
      BY <3>1, <3>2
  <2>2. x /= 0 => g[NextCode(data, x)] = h[NextCode(data, x)]
    BY <1>6, <2>1
  <2> QED
    BY <2>2
<1>7. Ranked(D, V, n, rank, H)
  BY <1>1, <1>2, <1>5, <1>6 DEF Ranked
<1>8. PICK f \in [D -> V] : Computed(D, H, f)
  <2> HIDE DEF H, rank, D, V
  <2>1. V /= {}
    BY <1>3
  <2> QED
    BY <1>7, <2>1, Recursion
<1>9. f = AnnexBody(data, f)
  <2>1. \A x \in D : f[x] = IF x = 0 THEN <<>> ELSE Piece(data, x) \o f[NextCode(data, x)]
    BY <1>8 DEF Computed
  <2> QED
    BY <2>1 DEF AnnexBody, n
<1> QED
  BY <1>9

\* SplitAnnexB takes the unit behind a start code and goes on at the next.
LEMMA AnnexBRecurs ==
  ASSUME NEW data \in Seq(Byte)
  PROVE  \E f : f = AnnexBody(data, f) /\ \A first : SplitAnnexB(data, first) = f[first]
<1> DEFINE nals[start \in 0..Len(data)] ==
             IF start = 0 THEN <<>>
             ELSE LET from == start + IF ShortStart(data, start) THEN 3 ELSE 4
                      next == FindStartCode(data, from)
                      end  == IF next = 0 THEN Len(data) ELSE next - 1
                  IN (IF from <= end THEN <<SubSeq(data, from, end)>> ELSE <<>>) \o nals[next]
<1>1. \A first : SplitAnnexB(data, first) = nals[first]
  BY DEF SplitAnnexB
<1>2. nals = CHOOSE f : f = AnnexBody(data, f)
  BY DEF nals, AnnexBody, Piece, AfterCode, NextCode
<1> HIDE DEF nals
<1>3. nals = AnnexBody(data, nals)
  BY <1>2, AnnexBHasFunction, Zenon
<1> QED
  BY <1>1, <1>3

-----------------------------------------------------------------------------
(* Split undoes Framed.                                                    *)

Codes(unit, h, off, data) ==
    \A i \in 1..Len(unit) : (\A k \in 1..(h - 1) : data[off[i - 1] + k] = 0) /\ data[off[i - 1] + h] = 1

Laid(unit, h, off, data) ==
    /\ Len(unit) \in Nat /\ Len(data) \in Nat /\ data \in Seq(Byte) /\ off[0] = 0 /\ off[Len(unit)] = Len(data)
    /\ \A i \in 0..Len(unit) : off[i] \in Nat /\ off[i] <= Len(data)
    /\ \A i \in 1..Len(unit) : /\ off[i] = off[i - 1] + h + Len(unit[i]) /\ unit[i] \in Seq(Byte)
                               /\ Len(unit[i]) \in Nat /\ Len(unit[i]) >= 1
                               /\ \A k \in 1..Len(unit[i]) : data[off[i - 1] + h + k] = unit[i][k]

\* Where the units and their heads are in the data.
LEMMA LayoutIs ==
  ASSUME NEW unit \in Seq(Seq(Byte)), NEW h \in Nat, NEW off, NEW data, Layout(unit, h, off, data),
         \A i \in 1..Len(unit) : IsNal(unit[i])
  PROVE  Laid(unit, h, off, data)
<1> DEFINE n == Len(unit)
<1>1. n \in Nat /\ data \in Seq(Byte)
  BY LenProperties DEF Layout
<1>2. Len(data) \in Nat
  BY <1>1, LenProperties
<1>3. /\ off[0] = 0 /\ off[n] = Len(data) /\ (\A i \in 0..n : off[i] \in Nat)
      /\ \A i \in 1..n : off[i] = off[i - 1] + h + Len(unit[i])
      /\ \A i \in 1..n : \A k \in 1..Len(unit[i]) : data[off[i - 1] + h + k] = unit[i][k]
  BY DEF Layout
<1>4. ASSUME NEW i \in 1..n PROVE unit[i] \in Seq(Byte) /\ Len(unit[i]) \in Nat /\ Len(unit[i]) >= 1
  <2>1. unit[i] \in Seq(Byte)
    BY ElementOfSeq
  <2>2. Len(unit[i]) \in Nat
    BY <2>1, LenProperties
  <2>3. Len(unit[i]) > 0
    BY DEF IsNal
  <2> QED
    BY <2>1, <2>2, <2>3
<1> HIDE DEF n
<1> DEFINE T == {i \in 0..n : off[i] <= off[n]}
<1>5. n \in T
  BY <1>1, <1>3
<1>6. ASSUME NEW i \in 0..(n - 1), i + 1 \in T PROVE i \in T
  <2>1. i + 1 \in 1..n /\ (i + 1) - 1 = i /\ i \in 0..n /\ i + 1 \in 0..n /\ n \in 0..n
    BY <1>1
  <2>2. off[i + 1] = off[i] + h + Len(unit[i + 1]) /\ Len(unit[i + 1]) \in Nat
    BY <1>3, <1>4, <2>1
  <2>3. off[i] \in Nat /\ off[i + 1] \in Nat /\ off[n] \in Nat /\ off[i + 1] <= off[n]
    BY <1>3, <1>6, <2>1
  <2>4. off[i] <= off[n]
    BY <2>2, <2>3
  <2> QED
    BY <2>1, <2>4
<1>7. \A i \in 0..n : i \in T
  <2> HIDE DEF T
  <2> QED
    BY <1>1, <1>5, <1>6, Downward
<1>8. \A i \in 0..n : off[i] \in Nat /\ off[i] <= Len(data)
  BY <1>3, <1>7
<1> QED
  BY <1>1, <1>2, <1>3, <1>4, <1>8 DEF n, Laid

LEMMA SeqsEqual ==
  ASSUME NEW S, NEW s \in Seq(S), NEW t \in Seq(S), Len(s) = Len(t), \A k \in 1..Len(s) : s[k] = t[k]
  PROVE  s = t
BY SeqEqual

\* A piece of the data is the unit that lies there.
LEMMA PieceOfData ==
  ASSUME NEW unit \in Seq(Seq(Byte)), NEW h \in Nat, NEW off, NEW data, Layout(unit, h, off, data),
         \A i \in 1..Len(unit) : IsNal(unit[i]), NEW i \in 1..Len(unit)
  PROVE  SubSeq(data, off[i - 1] + h + 1, off[i]) = unit[i]
<1> DEFINE nal == unit[i]
           b == off[i - 1] + h
           e == off[i]
<1>1. /\ data \in Seq(Byte) /\ Len(data) \in Nat /\ Len(unit) \in Nat /\ off[i - 1] \in Nat /\ off[i] <= Len(data)
      /\ off[i] = off[i - 1] + h + Len(nal) /\ nal \in Seq(Byte) /\ Len(nal) \in Nat /\ Len(nal) >= 1
      /\ \A k \in 1..Len(nal) : data[b + k] = nal[k]
  <2>0. Laid(unit, h, off, data)
    BY LayoutIs
  <2>1. Len(unit) \in Nat
    BY <2>0 DEF Laid
  <2>2. i - 1 \in 0..Len(unit) /\ i \in 0..Len(unit)
    BY <2>1
  <2> QED
    BY <2>0, <2>2 DEF Laid
<1>2. b \in Nat /\ b + 1 \in Nat /\ b + 1 >= 1 /\ e \in Nat /\ e <= Len(data) /\ e = b + Len(nal) /\ b + 1 <= e + 1
  <2>1. off[i - 1] \in Nat /\ off[i] <= Len(data) /\ off[i] = off[i - 1] + h + Len(nal) /\ Len(nal) \in Nat
    BY <1>1
  <2> HIDE DEF nal
  <2>2. b \in Nat /\ e = b + Len(nal)
    BY <2>1
  <2>3. e <= Len(data)
    BY <2>1
  <2> HIDE DEF b, e
  <2> QED
    BY <2>1, <2>2, <2>3
<1> DEFINE s == SubSeq(data, b + 1, e)
<1>3. s \in Seq(Byte) /\ Len(s) = e - (b + 1) + 1 /\ \A k \in 1..(e - (b + 1) + 1) : s[k] = data[(b + 1) + k - 1]
  <2> HIDE DEF b, e
  <2> QED
    BY <1>1, <1>2, SubSeqIs
<1> HIDE DEF s, nal, b, e
<1>4. Len(s) = Len(nal) /\ e - (b + 1) + 1 = Len(nal)
  BY <1>1, <1>2, <1>3
<1>5. ASSUME NEW k \in 1..Len(s) PROVE s[k] = nal[k]
  <2>1. (b + 1) + k - 1 = b + k
    BY <1>2
  <2> QED
    BY <1>1, <1>3, <1>4, <2>1
<1>6. s = nal
  BY <1>1, <1>3, <1>4, <1>5, SeqsEqual
<1> QED
  BY <1>6 DEF s, nal, b, e

FrameAt(unit, off, data, i) ==
    LET p == off[i - 1] + 1
    IN /\ p \in 1..Len(data) /\ Piece(data, p) = <<unit[i]>> /\ IsCode(data, p)
       /\ NextCode(data, p) = IF i = Len(unit) THEN 0 ELSE off[i] + 1

\* Behind the start code of the i-th unit, SplitAnnexB has that unit and goes on at the next.
LEMMA AnnexBStep ==
  ASSUME NEW unit \in Seq(Seq(Byte)), NEW h \in {3, 4}, NEW off, NEW data, Layout(unit, h, off, data),
         Codes(unit, h, off, data), \A i \in 1..Len(unit) : IsNal(unit[i]), NEW i \in 1..Len(unit)
  PROVE  FrameAt(unit, off, data, i)
<1> DEFINE n == Len(unit)
           p == off[i - 1] + 1
           nal == unit[i]
<1>0. h \in Nat /\ h >= 3 /\ h <= 4
  OBVIOUS
<1>1. /\ n \in Nat /\ Len(data) \in Nat /\ data \in Seq(Byte) /\ off[0] = 0 /\ off[n] = Len(data)
      /\ \A j \in 0..n : off[j] \in Nat /\ off[j] <= Len(data)
      /\ \A j \in 1..n : off[j] = off[j - 1] + h + Len(unit[j]) /\ Len(unit[j]) \in Nat /\ Len(unit[j]) >= 1
  <2>1. Laid(unit, h, off, data)
    BY <1>0, LayoutIs
  <2> QED
    BY <2>1 DEF Laid
<1> HIDE DEF n, nal
<1>a. i \in 1..n
  BY DEF n
<1>2. ASSUME NEW j \in 1..n
      PROVE  /\ off[j - 1] + 1 \in 1..Len(data) /\ IsCode(data, off[j - 1] + 1)
             /\ AfterCode(data, off[j - 1] + 1) = off[j - 1] + 1 + h
  <2> DEFINE c == off[j - 1]
  <2>1. j - 1 \in 0..n /\ j \in 0..n
    BY <1>1
  <2>2. c \in Nat /\ off[j] \in Nat /\ off[j] <= Len(data) /\ off[j] = c + h + Len(unit[j]) /\ Len(unit[j]) \in Nat
        /\ Len(unit[j]) >= 1
    BY <1>1, <2>1
  <2>3. (\A k \in 1..(h - 1) : data[c + k] = 0) /\ data[c + h] = 1
    BY DEF Codes, n
  <2> HIDE DEF c
  <2>4. c + h + 1 <= Len(data)
    <3>1. Len(data) \in Nat /\ h \in Nat
      BY <1>0, <1>1
    <3>2. PICK L \in Nat : L = Len(unit[j]) /\ L >= 1 /\ off[j] = c + h + L
      BY <2>2
    <3>3. c + h + 1 <= off[j]
      BY <2>2, <3>1, <3>2
    <3>4. off[j] \in Nat /\ off[j] <= Len(data) /\ c \in Nat
      BY <2>2
    <3>5. \A x \in Nat : x <= off[j] => x <= Len(data)
      BY <3>1, <3>4
    <3>6. c + h + 1 \in Nat
      BY <3>1, <3>4
    <3> QED
      BY <3>3, <3>5, <3>6
  <2>5. c + 1 \in 1..Len(data) /\ c + 1 \in Nat /\ c + 1 >= 1
    <3>1. c \in Nat /\ Len(data) \in Nat /\ h >= 3 /\ h \in Nat
      BY <1>0, <1>1, <2>2
    <3> QED
      BY <2>4, <3>1
  <2>6. /\ ShortStart(data, c + 1) <=> IsShort(data, c + 1)
        /\ LongStart(data, c + 1) <=> IsLong(data, c + 1)
    BY <1>1, <2>5, StartCodes
  <2>7. (c + 1) + 1 = c + 2 /\ (c + 1) + 2 = c + 3 /\ (c + 1) + 3 = c + 4
    BY <2>2
  <2>8. CASE h = 3
    <3>1. data[c + 1] = 0 /\ data[c + 2] = 0 /\ data[c + 3] = 1 /\ c + 3 <= Len(data)
      BY <1>1, <2>2, <2>3, <2>4, <2>8
    <3>2. IsShort(data, c + 1)
      BY <2>7, <3>1 DEF IsShort
    <3>3. AfterCode(data, c + 1) = (c + 1) + 3
      BY <2>6, <3>2 DEF AfterCode
    <3> QED
      BY <2>5, <2>8, <3>2, <3>3 DEF IsCode, c
  <2>9. CASE h = 4
    <3>1. data[c + 1] = 0 /\ data[c + 2] = 0 /\ data[c + 3] = 0 /\ data[c + 4] = 1 /\ c + 4 <= Len(data)
      BY <1>1, <2>2, <2>3, <2>4, <2>9
    <3>2. IsLong(data, c + 1) /\ ~IsShort(data, c + 1)
      BY <2>7, <3>1 DEF IsLong, IsShort
    <3>3. AfterCode(data, c + 1) = (c + 1) + 4
      BY <2>6, <3>2 DEF AfterCode
    <3> QED
      BY <2>5, <2>9, <3>2, <3>3 DEF IsCode, c
  <2> QED
    BY <2>8, <2>9
<1>3. p \in 1..Len(data) /\ IsCode(data, p) /\ AfterCode(data, p) = off[i - 1] + h + 1 /\ p \in Nat /\ off[i - 1] \in Nat
  <2>1. i - 1 \in 0..n
    BY <1>1, <1>a
  <2>2. off[i - 1] \in Nat
    BY <1>1, <2>1
  <2>3. p + h = off[i - 1] + h + 1
    BY <1>0, <2>2
  <2> QED
    BY <1>2, <1>a, <2>2, <2>3
<1> DEFINE from == off[i - 1] + h + 1
<1>4. /\ off[i] \in Nat /\ off[i] <= Len(data) /\ from \in Nat /\ from >= 1 /\ from <= off[i]
      /\ off[i] = off[i - 1] + h + Len(nal)
  <2>1. i \in 0..n
    BY <1>1, <1>a
  <2>2. off[i] \in Nat /\ off[i] <= Len(data) /\ off[i] = off[i - 1] + h + Len(nal) /\ Len(nal) \in Nat /\ Len(nal) >= 1
    BY <1>1, <1>a, <2>1 DEF nal
  <2> QED
    BY <1>0, <1>3, <2>2
<1>5. \A q \in from..off[i] : ~IsCode(data, q)
  <2>1. IsNal(unit[i])
    OBVIOUS
  <2> QED
    BY <1>0, <2>1, NoCodeInside
<1> HIDE DEF p
<1> DEFINE next == NextCode(data, p)
<1>6. Found(data, from, next)
  <2>1. NextCode(data, p) = FindStartCode(data, from)
    BY <1>3 DEF NextCode
  <2> HIDE DEF from
  <2> QED
    BY <1>1, <1>4, <2>1, FindIs
<1> HIDE DEF next, from
<1>7. /\ next \in Nat /\ (next /= 0 => next >= from /\ next <= Len(data) /\ IsCode(data, next))
      /\ \A q \in from..Len(data) : IsCode(data, q) => next /= 0 /\ next <= q
  BY <1>6 DEF Found
<1>8. next /= 0 => next > off[i]
  BY <1>4, <1>5, <1>7
<1>9. next = IF i = n THEN 0 ELSE off[i] + 1
  <2>1. CASE i = n
    BY <1>1, <1>7, <1>8, <2>1
  <2>2. CASE i /= n
    <3>1. i + 1 \in 1..n /\ (i + 1) - 1 = i
      BY <1>1, <1>a, <2>2
    <3>2. off[i] + 1 \in 1..Len(data) /\ IsCode(data, off[i] + 1)
      BY <1>2, <3>1
    <3>3. off[i] + 1 \in from..Len(data)
      BY <1>1, <1>4, <3>2
    <3>4. next /= 0 /\ next <= off[i] + 1
      BY <1>7, <3>2, <3>3
    <3> QED
      <4>1. next > off[i] /\ next \in Nat /\ off[i] \in Nat
        BY <1>4, <1>7, <1>8, <3>4
      <4>2. next = off[i] + 1
        BY <3>4, <4>1
      <4> QED
        BY <2>2, <4>2
  <2> QED
    BY <2>1, <2>2
<1>10. Piece(data, p) = <<unit[i]>>
  <2> DEFINE end == IF NextCode(data, p) = 0 THEN Len(data) ELSE NextCode(data, p) - 1
  <2>1. end = off[i]
    <3>1. CASE i = n
      BY <1>1, <1>9, <3>1 DEF next
    <3>2. CASE i /= n
      <4>1. NextCode(data, p) = off[i] + 1 /\ off[i] + 1 /= 0
        BY <1>4, <1>9, <3>2 DEF next
      <4> QED
        BY <1>4, <4>1
    <3> QED
      BY <3>1, <3>2
  <2>2. Piece(data, p) = IF AfterCode(data, p) <= end THEN <<SubSeq(data, AfterCode(data, p), end)>> ELSE <<>>
    BY DEF Piece
  <2> HIDE DEF end
  <2>3. AfterCode(data, p) = from /\ from <= end
    BY <1>3, <1>4, <2>1 DEF from
  <2>4. SubSeq(data, off[i - 1] + h + 1, off[i]) = unit[i]
    BY <1>0, PieceOfData
  <2>5. SubSeq(data, AfterCode(data, p), end) = unit[i]
    BY <2>1, <2>3, <2>4, Zenon DEF from
  <2> QED
    BY <2>2, <2>3, <2>5
<1> QED
  BY <1>3, <1>9, <1>10 DEF p, next, n, FrameAt

\* A buffer with start codes is split into its units.
LEMMA AnnexBSplits ==
  ASSUME NEW unit \in Seq(Seq(Byte)), unit /= <<>>, NEW h \in {3, 4}, NEW off, NEW data, Layout(unit, h, off, data),
         Codes(unit, h, off, data), \A i \in 1..Len(unit) : IsNal(unit[i])
  PROVE  Split(data) = unit
<1> DEFINE n == Len(unit)
           code == [i \in 0..n |-> IF i = n THEN 0 ELSE off[i] + 1]
           rest(i) == SubSeq(unit, i + 1, n)
<1>0. h \in Nat
  OBVIOUS
<1>1. Laid(unit, h, off, data)
  BY <1>0, LayoutIs
<1>2. n \in Nat /\ n >= 1 /\ data \in Seq(Byte) /\ off[0] = 0 /\ Len(data) \in Nat
  <2>1. n \in Nat /\ n /= 0
    BY EmptySeq, LenProperties
  <2> QED
    BY <1>1, <2>1 DEF Laid
<1>3. PICK nals : nals = AnnexBody(data, nals) /\ \A first : SplitAnnexB(data, first) = nals[first]
  BY <1>2, AnnexBRecurs
<1>4. \A x \in 0..Len(data) : nals[x] = IF x = 0 THEN <<>> ELSE Piece(data, x) \o nals[NextCode(data, x)]
  BY <1>3 DEF AnnexBody
<1>5. ASSUME NEW i \in 1..n
      PROVE  /\ off[i - 1] + 1 \in 1..Len(data) /\ Piece(data, off[i - 1] + 1) = <<unit[i]>>
             /\ IsCode(data, off[i - 1] + 1)
             /\ NextCode(data, off[i - 1] + 1) = IF i = n THEN 0 ELSE off[i] + 1
  <2>1. FrameAt(unit, off, data, i)
    BY AnnexBStep
  <2> QED
    BY <2>1 DEF FrameAt
<1>6. code[n] = 0 /\ \A i \in 0..(n - 1) : code[i] = off[i] + 1 /\ i \in 0..n
  BY <1>2
<1> HIDE DEF code
<1> DEFINE T == {i \in 0..n : nals[code[i]] = rest(i)}
<1>7. n \in T
  <2>1. rest(n) = <<>>
    BY <1>2, SubSeqProperties
  <2>2. nals[0] = <<>>
    BY <1>2, <1>4
  <2>3. n \in 0..n
    BY <1>2
  <2> HIDE DEF rest
  <2> QED
    BY <1>6, <2>1, <2>2, <2>3
<1>8. ASSUME NEW i \in 0..(n - 1), i + 1 \in T PROVE i \in T
  <2>1. i + 1 \in 1..n /\ (i + 1) - 1 = i /\ i \in 0..n /\ i \in Nat
    BY <1>2
  <2>2. /\ off[i] + 1 \in 1..Len(data) /\ Piece(data, off[i] + 1) = <<unit[i + 1]>>
        /\ NextCode(data, off[i] + 1) = IF i + 1 = n THEN 0 ELSE off[i + 1] + 1
    BY <1>5, <2>1
  <2>3. code[i] = off[i] + 1
    BY <1>6
  <2>4. NextCode(data, code[i]) = code[i + 1]
    <3>1. CASE i + 1 = n
      BY <1>6, <2>2, <2>3, <3>1
    <3>2. CASE i + 1 /= n
      <4>1. i + 1 \in 0..(n - 1)
        BY <1>2, <2>1, <3>2
      <4> QED
        BY <1>6, <2>2, <2>3, <3>2, <4>1
    <3> QED
      BY <3>1, <3>2
  <2>5. code[i] \in 0..Len(data) /\ code[i] /= 0
    BY <1>2, <2>2, <2>3
  <2>6. nals[code[i]] = Piece(data, code[i]) \o nals[NextCode(data, code[i])]
    BY <1>4, <2>5
  <2>7. nals[code[i + 1]] = rest(i + 1)
    BY <1>8
  <2>8. nals[code[i]] = <<unit[i + 1]>> \o rest(i + 1)
    BY <2>2, <2>3, <2>4, <2>6, <2>7, Zenon
  <2>9. rest(i) = <<unit[i + 1]>> \o rest(i + 1)
    <3>1. i + 1 <= n
      BY <2>1
    <3>2. SubSeq(unit, i + 1, n) = <<unit[i + 1]>> \o SubSeq(unit, (i + 1) + 1, n)
      BY <1>2, <2>1, <3>1, SubSeqRecursiveFirst
    <3> QED
      BY <3>2
  <2> HIDE DEF rest
  <2> QED
    BY <2>1, <2>8, <2>9
<1>9. 0 \in T
  <2> HIDE DEF T
  <2>1. \A i \in 0..n : i \in T
    BY <1>2, <1>7, <1>8, Downward
  <2> QED
    BY <1>2, <2>1
<1>10. nals[1] = unit
  <2>1. code[0] = 1 /\ 0 + 1 = 1
    BY <1>2, <1>6
  <2>2. rest(0) = unit
    BY <1>2, <2>1, SubSeqFull
  <2> HIDE DEF rest
  <2> QED
    BY <1>9, <2>1, <2>2
<1>11. FindStartCode(data, 1) = 1
  <2>1. 1 \in 1..n /\ off[1 - 1] + 1 = 1
    BY <1>2
  <2>2. 1 \in 1..Len(data) /\ IsCode(data, 1)
    BY <1>5, <2>1
  <2>3. Found(data, 1, FindStartCode(data, 1))
    BY <1>2, FindIs
  <2> HIDE DEF n
  <2> QED
    BY <1>2, <2>2, <2>3 DEF Found
<1>12. data /= <<>>
  <2>1. 1 \in 1..n /\ off[1 - 1] + 1 = 1
    BY <1>2
  <2>2. 1 \in 1..Len(data)
    BY <1>5, <2>1
  <2> QED
    BY <1>2, <2>2
<1>13. Split(data) = SplitAnnexB(data, 1)
  BY <1>11, <1>12 DEF Split
<1> QED
  BY <1>3, <1>10, <1>13

-----------------------------------------------------------------------------
(* Lengths in front of the units.                                          *)

LengthAt(data, o) == ((data[o + 1] * 256 + data[o + 2]) * 256 + data[o + 3]) * 256 + data[o + 4]
Ends(data, o) == o + 4 > Len(data) \/ LengthAt(data, o) = 0 \/ LengthAt(data, o) > Len(data) - o - 4
After(data, o) == o + 4 + LengthAt(data, o)
LengthBody(data, f) ==
    [o \in 0..Len(data) |->
        IF o = Len(data) THEN {<<>>}
        ELSE IF Ends(data, o) THEN {}
        ELSE {<<SubSeq(data, o + 5, After(data, o))>> \o rest : rest \in f[After(data, o)]}]

\* Four bytes are a number.
LEMMA LengthIsNumber ==
  ASSUME NEW data \in Seq(Byte), NEW o \in Nat, o + 4 <= Len(data)
  PROVE  /\ LengthAt(data, o) \in Nat
         /\ data[o + 1] = 0 => LengthAt(data, o) = (data[o + 2] * 256 + data[o + 3]) * 256 + data[o + 4]
         /\ data[o + 1] >= 1 => LengthAt(data, o) >= 256 * 256 * 256
<1>1. Len(data) \in Nat
  BY LenProperties
<1>2. o + 1 \in 1..Len(data) /\ o + 2 \in 1..Len(data) /\ o + 3 \in 1..Len(data) /\ o + 4 \in 1..Len(data)
  BY <1>1
<1>3. data[o + 1] \in 0..255 /\ data[o + 2] \in 0..255 /\ data[o + 3] \in 0..255 /\ data[o + 4] \in 0..255
  BY <1>2, ElementOfSeq DEF Byte
<1>5. PICK a \in 0..255, b \in 0..255, c \in 0..255, d \in 0..255 :
             a = data[o + 1] /\ b = data[o + 2] /\ c = data[o + 3] /\ d = data[o + 4]
  BY <1>3
<1>6. LengthAt(data, o) = ((a * 256 + b) * 256 + c) * 256 + d
  BY <1>5 DEF LengthAt
<1>7. /\ LengthAt(data, o) \in Nat
      /\ a = 0 => LengthAt(data, o) = (b * 256 + c) * 256 + d
      /\ a >= 1 => LengthAt(data, o) >= 256 * 256 * 256
  BY <1>6
<1> QED
  BY <1>5, <1>7

\* A length that fits ends behind its own position.
LEMMA LengthGoesOn ==
  ASSUME NEW data \in Seq(Byte), NEW o \in 0..Len(data), o /= Len(data), ~Ends(data, o)
  PROVE  /\ After(data, o) \in 0..Len(data) /\ After(data, o) > o
         /\ <<SubSeq(data, o + 5, After(data, o))>> \in Seq(Seq(Byte))
<1>1. Len(data) \in Nat
  BY LenProperties
<1>2. o \in Nat /\ o + 4 <= Len(data) /\ LengthAt(data, o) /= 0 /\ ~(LengthAt(data, o) > Len(data) - o - 4)
  BY <1>1 DEF Ends
<1>3. LengthAt(data, o) \in Nat
  BY <1>2, LengthIsNumber
<1>4. After(data, o) \in Nat /\ After(data, o) > o /\ After(data, o) <= Len(data)
  BY <1>1, <1>2, <1>3 DEF After
<1>5. o + 5 \in Nat /\ o + 5 >= 1 /\ o + 5 <= After(data, o) + 1
  BY <1>2, <1>3 DEF After
<1>6. SubSeq(data, o + 5, After(data, o)) \in Seq(Byte)
  BY <1>4, <1>5, SubSeqIs
<1> QED
  BY <1>1, <1>4, <1>6

LEMMA LengthHasFunction ==
  ASSUME NEW data \in Seq(Byte)
  PROVE  \E f : f = LengthBody(data, f)
<1> DEFINE V == SUBSET Seq(Seq(Byte))
           n == Len(data)
           D == 0..n
           piece(x) == <<SubSeq(data, x + 5, After(data, x))>>
           value(x, g) == IF x = n THEN {<<>>} ELSE IF Ends(data, x) THEN {} ELSE {piece(x) \o rest : rest \in g[After(data, x)]}
           H == [x \in D |-> [g \in [D -> V] |-> value(x, g)]]
           rank == [x \in D |-> n - x]
<1>1. n \in Nat
  BY LenProperties
<1>4. \A x \in D : x /= n /\ ~Ends(data, x) =>
        piece(x) \in Seq(Seq(Byte)) /\ After(data, x) \in D /\ After(data, x) > x
  BY LengthGoesOn
<1> HIDE DEF n, piece
<1>2. rank \in [D -> 0..n]
  BY <1>1
<1>5. ASSUME NEW x \in D, NEW g \in [D -> V] PROVE value(x, g) \in V
  <2>1. CASE x = n
    BY <2>1
  <2>2. CASE x /= n /\ Ends(data, x)
    BY <2>2
  <2>3. CASE x /= n /\ ~Ends(data, x)
    <3>1. piece(x) \in Seq(Seq(Byte)) /\ After(data, x) \in D
      BY <1>4, <2>3
    <3>2. g[After(data, x)] \in V
      BY <3>1
    <3>3. ASSUME NEW rest \in g[After(data, x)] PROVE piece(x) \o rest \in Seq(Seq(Byte))
      <4>1. rest \in Seq(Seq(Byte))
        BY <3>2
      <4> QED
        BY <3>1, <4>1
    <3>4. value(x, g) = {piece(x) \o rest : rest \in g[After(data, x)]}
      BY <2>3
    <3> HIDE DEF value
    <3> QED
      BY <3>3, <3>4
  <2> QED
    BY <2>1, <2>2, <2>3
<1>6. ASSUME NEW x \in D, NEW g \in [D -> V], NEW h \in [D -> V], \A y \in D : rank[y] < rank[x] => g[y] = h[y]
      PROVE  value(x, g) = value(x, h)
  <2>1. CASE x = n \/ Ends(data, x)
    BY <2>1
  <2>2. CASE x /= n /\ ~Ends(data, x)
    <3>1. After(data, x) \in D /\ After(data, x) > x
      BY <1>4, <2>2
    <3>2. rank[After(data, x)] < rank[x]
      <4>1. \A y \in D : y > x => rank[y] < rank[x]
        BY <1>1
      <4> HIDE DEF rank
      <4> QED
        BY <3>1, <4>1
    <3>3. g[After(data, x)] = h[After(data, x)]
      BY <1>6, <3>1, <3>2
    <3> QED
      BY <2>2, <3>3
  <2> QED
    BY <2>1, <2>2
<1> HIDE DEF value
<1>7. H \in [D -> [[D -> V] -> V]]
  BY <1>5
<1>8. \A x \in D : \A g \in [D -> V] : H[x][g] = value(x, g)
  OBVIOUS
<1> HIDE DEF H
<1>9. Ranked(D, V, n, rank, H)
  <2> HIDE DEF D, V, rank
  <2> QED
    <3>1. ASSUME NEW x \in D, NEW g \in [D -> V], NEW h \in [D -> V], \A y \in D : rank[y] < rank[x] => g[y] = h[y]
          PROVE  H[x][g] = H[x][h]
      <4>1. value(x, g) = value(x, h)
        BY <1>6, <3>1
      <4>2. H[x][g] = value(x, g) /\ H[x][h] = value(x, h)
        BY <1>8
      <4> QED
        BY <4>1, <4>2
    <3> QED
      BY <1>1, <1>2, <1>7, <3>1 DEF Ranked
<1>10. PICK f \in [D -> V] : Computed(D, H, f)
  <2>1. V /= {}
    OBVIOUS
  <2> HIDE DEF rank, D, V
  <2> QED
    BY <1>9, <2>1, Recursion
<1>11. \A x \in D : f[x] = value(x, f)
  BY <1>8, <1>10 DEF Computed
<1>12. f = [x \in D |-> value(x, f)]
  BY <1>11
<1>13. f = LengthBody(data, f)
  BY <1>12 DEF LengthBody, value, piece, n
<1> QED
  BY <1>13

\* SplitLengthPrefixed takes the unit behind a length and goes on behind it.
LEMMA LengthRecurs ==
  ASSUME NEW data \in Seq(Byte)
  PROVE  \E f : f = LengthBody(data, f) /\ SplitLengthPrefixed(data) = f[0] \ {<<>>}
<1> DEFINE length(o) == ((data[o + 1] * 256 + data[o + 2]) * 256 + data[o + 3]) * 256 + data[o + 4]
           nals[o \in 0..Len(data)] ==
             IF o = Len(data) THEN {<<>>}
             ELSE IF o + 4 > Len(data) \/ length(o) = 0 \/ length(o) > Len(data) - o - 4 THEN {}
             ELSE {<<SubSeq(data, o + 5, o + 4 + length(o))>> \o rest : rest \in nals[o + 4 + length(o)]}
<1>1. SplitLengthPrefixed(data) = nals[0] \ {<<>>}
  BY DEF SplitLengthPrefixed
<1>2. nals = CHOOSE f : f = LengthBody(data, f)
  BY DEF nals, LengthBody, LengthAt, Ends, After
<1> HIDE DEF nals
<1>3. nals = LengthBody(data, nals)
  BY <1>2, LengthHasFunction, Zenon
<1> QED
  BY <1>1, <1>3

Byte2(n) == n \div 65536
Byte3(n) == (n \div 256) % 256
Byte4(n) == n % 256

\* The four bytes of a length are read as the length.
LEMMA LengthBytes ==
  ASSUME NEW n \in Nat, n > 0, n < 256 * 256 * 256
  PROVE  /\ Length(n) = <<0, Byte2(n), Byte3(n), Byte4(n)>>
         /\ Byte2(n) \in 0..255 /\ Byte3(n) \in 0..255 /\ Byte4(n) \in 0..255
         /\ (Byte2(n) * 256 + Byte3(n)) * 256 + Byte4(n) = n
<1> DEFINE q == n \div 256
<1>1. q \in Nat /\ Byte4(n) \in 0..255 /\ n = 256 * q + Byte4(n)
  BY DEF Byte4
<1>2. Byte3(n) \in 0..255 /\ q \div 256 \in Nat /\ q = 256 * (q \div 256) + Byte3(n)
  <2>1. Byte3(n) = q % 256
    BY DEF Byte3
  <2> HIDE DEF q
  <2> QED
    BY <1>1, <2>1
<1>3. Byte2(n) = q \div 256
  BY DEF Byte2
<1>4. Byte2(n) \in 0..255
  BY DEF Byte2
<1>5. (Byte2(n) * 256 + Byte3(n)) * 256 + Byte4(n) = n
  <2> HIDE DEF q
  <2> QED
    BY <1>1, <1>2, <1>3
<1>6. Length(n) = <<0, Byte2(n), Byte3(n), Byte4(n)>>
  BY DEF Length, Byte2, Byte3, Byte4
<1> QED
  BY <1>1, <1>2, <1>4, <1>5, <1>6

LengthFrameAt(unit, off, data, i) ==
    LET o == off[i - 1]
    IN /\ o \in 0..Len(data) /\ o /= Len(data) /\ ~Ends(data, o)
       /\ After(data, o) = off[i] /\ SubSeq(data, o + 5, After(data, o)) = unit[i]

\* At the length of the i-th unit, SplitLengthPrefixed has that unit and goes on at the next.
LEMMA LengthStep ==
  ASSUME NEW unit \in Seq(Seq(Byte)), NEW off, NEW data, Layout(unit, 4, off, data),
         Headed(unit, 4, off, data, [i \in 1..Len(unit) |-> Length(Len(unit[i]))]),
         \A i \in 1..Len(unit) : IsNal(unit[i]), NEW i \in 1..Len(unit)
  PROVE  LengthFrameAt(unit, off, data, i)
<1> DEFINE o == off[i - 1]
           L == Len(unit[i])
<1>1. Laid(unit, 4, off, data)
  BY LayoutIs
<1>2. Len(unit) \in Nat
  BY <1>1 DEF Laid
<1>3. i - 1 \in 0..Len(unit) /\ i \in 0..Len(unit)
  BY <1>2
<1>4. /\ o \in Nat /\ off[i] \in Nat /\ off[i] <= Len(data) /\ off[i] = o + 4 + L /\ L \in Nat /\ L >= 1
      /\ Len(data) \in Nat /\ data \in Seq(Byte)
  BY <1>1, <1>3 DEF Laid
<1>5. L < 256 * 256 * 256
  BY DEF IsNal
<1>b. /\ Length(L) = <<0, Byte2(L), Byte3(L), Byte4(L)>>
      /\ (Byte2(L) * 256 + Byte3(L)) * 256 + Byte4(L) = L
  <2>1. L \in Nat /\ L > 0
    BY <1>4
  <2> HIDE DEF L
  <2> QED
    BY <1>5, <2>1, LengthBytes
<1>6. data[o + 1] = 0 /\ data[o + 2] = Byte2(L) /\ data[o + 3] = Byte3(L) /\ data[o + 4] = Byte4(L)
  <2> DEFINE head == [j \in 1..Len(unit) |-> Length(Len(unit[j]))]
  <2>1. \A k \in 1..4 : data[o + k] = head[i][k]
    BY DEF Headed
  <2>2. head[i] = Length(L)
    OBVIOUS
  <2> HIDE DEF head, o, L
  <2> QED
    BY <1>b, <2>1, <2>2
<1> HIDE DEF o, L
<1>7. o + 4 <= Len(data) /\ o /= Len(data) /\ o \in 0..Len(data) /\ L <= Len(data) - o - 4
  BY <1>4
<1>8. LengthAt(data, o) = L
  <2>1. LengthAt(data, o) = (data[o + 2] * 256 + data[o + 3]) * 256 + data[o + 4]
    <3>1. data[o + 1] = 0 => LengthAt(data, o) = (data[o + 2] * 256 + data[o + 3]) * 256 + data[o + 4]
      BY <1>4, <1>7, LengthIsNumber
    <3> QED
      BY <1>6, <3>1
  <2>2. (data[o + 2] * 256 + data[o + 3]) * 256 + data[o + 4] = L
    BY <1>6, <1>b, Zenon
  <2> QED
    BY <2>1, <2>2
<1>9. ~Ends(data, o) /\ After(data, o) = off[i]
  BY <1>4, <1>7, <1>8 DEF Ends, After
<1>10. SubSeq(data, o + 5, After(data, o)) = unit[i]
  <2>1. SubSeq(data, off[i - 1] + 4 + 1, off[i]) = unit[i]
    <3>1. \A h \in Nat : Layout(unit, h, off, data) => SubSeq(data, off[i - 1] + h + 1, off[i]) = unit[i]
      BY PieceOfData
    <3>2. 4 \in Nat
      OBVIOUS
    <3> QED
      BY <3>1, <3>2, Zenon
  <2>2. off[i - 1] + 4 + 1 = o + 5
    BY <1>4 DEF o
  <2> QED
    BY <1>9, <2>1, <2>2
<1> QED
  BY <1>7, <1>9, <1>10 DEF LengthFrameAt, o

\* A buffer with lengths is split into its units.
LEMMA LengthSplits ==
  ASSUME NEW unit \in Seq(Seq(Byte)), unit /= <<>>, NEW off, NEW data, Layout(unit, 4, off, data),
         Headed(unit, 4, off, data, [i \in 1..Len(unit) |-> Length(Len(unit[i]))]),
         \A i \in 1..Len(unit) : IsNal(unit[i]), FindStartCode(data, 1) = 0
  PROVE  Split(data) = unit
<1> DEFINE n == Len(unit)
           rest(i) == SubSeq(unit, i + 1, n)
<1>1. Laid(unit, 4, off, data)
  BY LayoutIs
<1>2. n \in Nat /\ n >= 1 /\ data \in Seq(Byte) /\ off[0] = 0 /\ Len(data) \in Nat /\ off[n] = Len(data)
  <2>1. n \in Nat /\ n /= 0
    BY EmptySeq, LenProperties
  <2> QED
    BY <1>1, <2>1 DEF Laid
<1>3. PICK nals : nals = LengthBody(data, nals) /\ SplitLengthPrefixed(data) = nals[0] \ {<<>>}
  BY <1>2, LengthRecurs
<1>4. \A o \in 0..Len(data) :
        nals[o] = IF o = Len(data) THEN {<<>>}
                  ELSE IF Ends(data, o) THEN {}
                  ELSE {<<SubSeq(data, o + 5, After(data, o))>> \o r : r \in nals[After(data, o)]}
  BY <1>3 DEF LengthBody
<1>5. \A i \in 1..n : LengthFrameAt(unit, off, data, i)
  BY LengthStep
<1> DEFINE T == {i \in 0..n : nals[off[i]] = {rest(i)}}
<1>7. n \in T
  <2>1. rest(n) = <<>>
    BY <1>2, SubSeqEmpty
  <2>2. nals[off[n]] = {<<>>}
    <3>1. Len(data) \in 0..Len(data)
      BY <1>2
    <3>2. nals[Len(data)] = {<<>>}
      BY <1>4, <3>1
    <3> QED
      BY <1>2, <3>2
  <2>3. n \in 0..n
    BY <1>2
  <2> HIDE DEF rest
  <2> QED
    BY <2>1, <2>2, <2>3
<1>8. ASSUME NEW i \in 0..(n - 1), i + 1 \in T PROVE i \in T
  <2>1. i + 1 \in 1..n /\ (i + 1) - 1 = i /\ i \in 0..n /\ i \in Nat
    BY <1>2
  <2>2. /\ off[i] \in 0..Len(data) /\ off[i] /= Len(data) /\ ~Ends(data, off[i])
        /\ After(data, off[i]) = off[i + 1] /\ SubSeq(data, off[i] + 5, After(data, off[i])) = unit[i + 1]
    <3>1. LengthFrameAt(unit, off, data, i + 1)
      BY <1>5, <2>1
    <3> QED
      BY <2>1, <3>1 DEF LengthFrameAt
  <2>3. nals[off[i]] = {<<SubSeq(data, off[i] + 5, After(data, off[i]))>> \o r : r \in nals[After(data, off[i])]}
    BY <1>4, <2>2
  <2>4. nals[off[i + 1]] = {rest(i + 1)}
    BY <1>8
  <2>5. nals[off[i]] = {<<unit[i + 1]>> \o r : r \in {rest(i + 1)}}
    BY <2>2, <2>3, <2>4, Zenon
  <2>6. nals[off[i]] = {<<unit[i + 1]>> \o rest(i + 1)}
    <3> HIDE DEF rest
    <3> QED
      BY <2>5
  <2>9. rest(i) = <<unit[i + 1]>> \o rest(i + 1)
    <3>1. i + 1 <= n
      BY <2>1
    <3>2. SubSeq(unit, i + 1, n) = <<unit[i + 1]>> \o SubSeq(unit, (i + 1) + 1, n)
      BY <1>2, <2>1, <3>1, SubSeqRecursiveFirst
    <3> QED
      BY <3>2
  <2> HIDE DEF rest
  <2> QED
    BY <2>1, <2>6, <2>9
<1>9. 0 \in T
  <2> HIDE DEF T
  <2>1. \A i \in 0..n : i \in T
    BY <1>2, <1>7, <1>8, Downward
  <2> QED
    BY <1>2, <2>1
<1>10. nals[0] = {unit}
  <2>2. rest(0) = unit
    <3>1. 0 + 1 = 1
      OBVIOUS
    <3> QED
      BY <3>1, SubSeqFull
  <2> HIDE DEF rest
  <2> QED
    BY <1>2, <1>9, <2>2
<1>11. SplitLengthPrefixed(data) = {unit}
  BY <1>3, <1>10
<1>12. data /= <<>>
  <2>1. LengthFrameAt(unit, off, data, 1) /\ 1 - 1 = 0
    BY <1>2, <1>5
  <2>2. 0 /= Len(data)
    BY <1>2, <2>1 DEF LengthFrameAt
  <2> QED
    BY <2>2
<1>13. Split(data) = CHOOSE nals_ \in {unit} : TRUE
  BY <1>11, <1>12 DEF Split
<1> QED
  BY <1>13

\* A buffer that is one unit stays that unit.
LEMMA RawSplits ==
  ASSUME NEW unit \in Seq(Seq(Byte)), Len(unit) = 1, NEW off, NEW data, Layout(unit, 0, off, data), IsNal(unit[1])
  PROVE  Split(data) = unit
<1> DEFINE nal == unit[1]
<1>0. \A i \in 1..Len(unit) : IsNal(unit[i])
  OBVIOUS
<1>1. Laid(unit, 0, off, data)
  BY <1>0, LayoutIs
<1>2. data \in Seq(Byte) /\ Len(data) \in Nat /\ off[0] = 0 /\ off[1] = Len(data) /\ 1 \in 1..Len(unit)
  BY <1>1 DEF Laid
<1>3. data = nal
  <2>1. \A h \in Nat : \A i \in 1..Len(unit) :
          Layout(unit, h, off, data) => SubSeq(data, off[i - 1] + h + 1, off[i]) = unit[i]
    BY <1>0, PieceOfData
  <2>2. SubSeq(data, off[1 - 1] + 0 + 1, off[1]) = unit[1]
    BY <1>2, <2>1
  <2>3. off[1 - 1] + 0 + 1 = 1
    BY <1>2
  <2>4. SubSeq(data, 1, Len(data)) = unit[1]
    BY <1>2, <2>2, <2>3, Zenon
  <2>5. SubSeq(data, 1, Len(data)) = data
    BY <1>2, SubSeqFull
  <2> QED
    BY <2>4, <2>5
<1>4. Len(data) >= 1 /\ Len(data) < 256 * 256 * 256 /\ data[1] % 32 \in 1..23
  <2>1. IsNal(nal)
    OBVIOUS
  <2> HIDE DEF nal
  <2>2. Len(nal) > 0 /\ Len(nal) < 256 * 256 * 256 /\ nal[1] % 32 \in 1..23
    BY <2>1 DEF IsNal, NalType
  <2> QED
    BY <1>2, <1>3, <2>2
<1>5. FindStartCode(data, 1) = 0
  <2>1. \A q \in 1..Len(data) : ~IsCode(data, q)
    <3>1. \A h \in Nat : \A i \in 1..Len(unit) : Layout(unit, h, off, data) =>
            \A q \in (off[i - 1] + h + 1)..off[i] : ~IsCode(data, q)
      BY <1>0, NoCodeInside
    <3>2. \A q \in (off[1 - 1] + 0 + 1)..off[1] : ~IsCode(data, q)
      BY <1>2, <3>1
    <3>3. off[1 - 1] + 0 + 1 = 1
      BY <1>2
    <3> QED
      BY <1>2, <3>2, <3>3
  <2>2. Found(data, 1, FindStartCode(data, 1))
    BY <1>2, FindIs
  <2> QED
    BY <1>2, <2>1, <2>2 DEF Found
<1>6. SplitLengthPrefixed(data) = {}
  <2>1. PICK f : f = LengthBody(data, f) /\ SplitLengthPrefixed(data) = f[0] \ {<<>>}
    BY <1>2, LengthRecurs
  <2>2. 0 \in 0..Len(data) /\ 0 /= Len(data)
    BY <1>2, <1>4
  <2>3. f[0] = IF Ends(data, 0) THEN {}
               ELSE {<<SubSeq(data, 0 + 5, After(data, 0))>> \o rest : rest \in f[After(data, 0)]}
    BY <2>1, <2>2 DEF LengthBody
  <2>4. Ends(data, 0)
    <3>1. CASE 0 + 4 > Len(data)
      BY <3>1 DEF Ends
    <3>2. CASE 0 + 4 <= Len(data)
      <4>1. data[1] \in 0..255
        <5>1. 1 \in 1..Len(data)
          BY <1>2, <1>4
        <5>2. data[1] \in Byte
          BY <1>2, <5>1, ElementOfSeq
        <5> QED
          BY <5>2 DEF Byte
      <4>2. data[1] >= 1
        <5>1. \A x \in 0..255 : x % 32 \in 1..23 => x >= 1
          OBVIOUS
        <5> QED
          BY <1>4, <4>1, <5>1
      <4>3. data[0 + 1] >= 1 => LengthAt(data, 0) >= 256 * 256 * 256
        BY <1>2, <3>2, LengthIsNumber
      <4>4. LengthAt(data, 0) \in Nat
        BY <1>2, <3>2, LengthIsNumber
      <4>5. LengthAt(data, 0) > Len(data) - 0 - 4
        BY <1>2, <1>4, <4>2, <4>3, <4>4
      <4> QED
        BY <4>5 DEF Ends
    <3> QED
      BY <1>2, <3>1, <3>2
  <2> QED
    BY <2>1, <2>3, <2>4
<1>7. data /= <<>>
  BY <1>4
<1>8. Split(data) = <<data>>
  BY <1>5, <1>6, <1>7 DEF Split
<1>9. unit = <<unit[1]>>
  OBVIOUS
<1> QED
  BY <1>3, <1>8, <1>9

\* What the parser makes of a buffer is what the encoder put into it.
LEMMA FramedSplits ==
  ASSUME NEW unit \in Seq(Seq(Byte)), unit /= <<>>, \A i \in 1..Len(unit) : IsNal(unit[i]),
         NEW framing \in FramingsOf(unit), framing = "length" => FindStartCode(Framed(unit, framing), 1) = 0
  PROVE  Split(Framed(unit, framing)) = unit
<1> DEFINE n == Len(unit)
<1>1. n \in Nat /\ DOMAIN unit = 1..n
  BY LenProperties
<1> DEFINE data(head) == FlattenSeq([i \in 1..n |-> head[i] \o unit[i]])
<1>2. ASSUME NEW h \in Nat, NEW head \in [1..n -> Seq(Byte)], \A i \in 1..n : Len(head[i]) = h
      PROVE  \E off : Layout(unit, h, off, data(head)) /\ Headed(unit, h, off, data(head), head)
  BY <1>1, <1>2, FramesLaid
<1>3. CASE framing = "annexb"
  <2> DEFINE head == [i \in 1..n |-> <<0, 0, 1>>]
  <2>1. Framed(unit, framing) = FlattenSeq([i \in 1..n |-> <<0, 0, 1>> \o unit[i]])
    BY <1>1, <1>3 DEF Framed
  <2>2. [i \in 1..n |-> <<0, 0, 1>> \o unit[i]] = [i \in 1..n |-> head[i] \o unit[i]]
    OBVIOUS
  <2>3. Framed(unit, framing) = data(head)
    BY <2>1, <2>2, Zenon
  <2>4. head \in [1..n -> Seq(Byte)] /\ (\A i \in 1..n : Len(head[i]) = 3) /\ 3 \in Nat
    BY DEF Byte
  <2>5. \A i \in 1..n : head[i][1] = 0 /\ head[i][2] = 0 /\ head[i][3] = 1
    OBVIOUS
  <2> HIDE DEF head, data
  <2>6. PICK off : Layout(unit, 3, off, data(head)) /\ Headed(unit, 3, off, data(head), head)
    BY <1>2, <2>4
  <2>a. \A i \in 1..Len(unit) : \A k \in 1..3 : data(head)[off[i - 1] + k] = head[i][k]
    BY <2>6 DEF Headed
  <2>c. ASSUME NEW i \in 1..Len(unit) PROVE (\A k \in 1..(3 - 1) : data(head)[off[i - 1] + k] = 0) /\ data(head)[off[i - 1] + 3] = 1
    <3>1. \A k \in 1..3 : data(head)[off[i - 1] + k] = head[i][k]
      BY <2>a
    <3>2. head[i][1] = 0 /\ head[i][2] = 0 /\ head[i][3] = 1
      BY <2>5
    <3>3. \A k \in 1..3 : k = 3 \/ (k \in 1..(3 - 1) /\ (k = 1 \/ k = 2))
      OBVIOUS
    <3> QED
      BY <3>1, <3>2, <3>3
  <2>7. Codes(unit, 3, off, data(head))
    BY <2>c DEF Codes
  <2> QED
    BY <2>3, <2>6, <2>7, AnnexBSplits
<1>4. CASE framing = "long annexb"
  <2> DEFINE head == [i \in 1..n |-> <<0, 0, 0, 1>>]
  <2>1. Framed(unit, framing) = FlattenSeq([i \in 1..n |-> <<0, 0, 0, 1>> \o unit[i]])
    BY <1>1, <1>4 DEF Framed
  <2>2. [i \in 1..n |-> <<0, 0, 0, 1>> \o unit[i]] = [i \in 1..n |-> head[i] \o unit[i]]
    OBVIOUS
  <2>3. Framed(unit, framing) = data(head)
    BY <2>1, <2>2, Zenon
  <2>4. head \in [1..n -> Seq(Byte)] /\ (\A i \in 1..n : Len(head[i]) = 4) /\ 4 \in Nat
    BY DEF Byte
  <2>5. \A i \in 1..n : head[i][1] = 0 /\ head[i][2] = 0 /\ head[i][3] = 0 /\ head[i][4] = 1
    OBVIOUS
  <2> HIDE DEF head, data
  <2>6. PICK off : Layout(unit, 4, off, data(head)) /\ Headed(unit, 4, off, data(head), head)
    BY <1>2, <2>4
  <2>a. \A i \in 1..Len(unit) : \A k \in 1..4 : data(head)[off[i - 1] + k] = head[i][k]
    BY <2>6 DEF Headed
  <2>c. ASSUME NEW i \in 1..Len(unit) PROVE (\A k \in 1..(4 - 1) : data(head)[off[i - 1] + k] = 0) /\ data(head)[off[i - 1] + 4] = 1
    <3>1. \A k \in 1..4 : data(head)[off[i - 1] + k] = head[i][k]
      BY <2>a
    <3>2. head[i][1] = 0 /\ head[i][2] = 0 /\ head[i][3] = 0 /\ head[i][4] = 1
      BY <2>5
    <3>3. \A k \in 1..4 : k = 4 \/ (k \in 1..(4 - 1) /\ (k = 1 \/ k = 2 \/ k = 3))
      OBVIOUS
    <3> QED
      BY <3>1, <3>2, <3>3
  <2>7. Codes(unit, 4, off, data(head))
    BY <2>c DEF Codes
  <2> QED
    BY <2>3, <2>6, <2>7, AnnexBSplits
<1>5. CASE framing = "length"
  <2> DEFINE head == [i \in 1..n |-> Length(Len(unit[i]))]
  <2>1. Framed(unit, framing) = FlattenSeq([i \in 1..n |-> Length(Len(unit[i])) \o unit[i]])
    BY <1>1, <1>5 DEF Framed
  <2>2. [i \in 1..n |-> Length(Len(unit[i])) \o unit[i]] = [i \in 1..n |-> head[i] \o unit[i]]
    OBVIOUS
  <2>3. Framed(unit, framing) = data(head)
    BY <2>1, <2>2, Zenon
  <2>4. ASSUME NEW i \in 1..n PROVE Length(Len(unit[i])) \in Seq(Byte) /\ Len(Length(Len(unit[i]))) = 4
    <3>1. unit[i] \in Seq(Byte) /\ IsNal(unit[i])
      BY ElementOfSeq
    <3>2. PICK L \in Nat : L = Len(unit[i])
      BY <3>1, LenProperties
    <3>3. L > 0 /\ L < 256 * 256 * 256
      BY <3>1, <3>2 DEF IsNal
    <3>4. Length(L) = <<0, Byte2(L), Byte3(L), Byte4(L)>> /\ Byte2(L) \in Byte /\ Byte3(L) \in Byte /\ Byte4(L) \in Byte
      BY <3>3, LengthBytes DEF Byte
    <3>5. 0 \in Byte
      BY DEF Byte
    <3> QED
      BY <3>2, <3>4, <3>5
  <2>5. head \in [1..n -> Seq(Byte)] /\ (\A i \in 1..n : Len(head[i]) = 4) /\ 4 \in Nat
    BY <2>4
  <2> HIDE DEF head, data
  <2>6. PICK off : Layout(unit, 4, off, data(head)) /\ Headed(unit, 4, off, data(head), head)
    BY <1>2, <2>5
  <2>7. FindStartCode(data(head), 1) = 0
    BY <1>5, <2>3
  <2> QED
    BY <2>3, <2>6, <2>7, LengthSplits DEF head
<1>6. CASE framing = "raw"
  <2> DEFINE head == [i \in 1..n |-> <<>>]
  <2>0. n = 1
    BY <1>6 DEF FramingsOf
  <2>1. Framed(unit, framing) = FlattenSeq([i \in 1..n |-> unit[i]])
    BY <1>1, <1>6 DEF Framed
  <2>2. [i \in 1..n |-> unit[i]] = [i \in 1..n |-> head[i] \o unit[i]]
    <3>1. \A i \in 1..n : unit[i] \in Seq(Byte)
      BY ElementOfSeq
    <3>2. \A i \in 1..n : head[i] = <<>> /\ <<>> \o unit[i] = unit[i]
      BY <3>1, ConcatEmptySeq
    <3> HIDE DEF head
    <3> QED
      BY <3>2
  <2>3. Framed(unit, framing) = data(head)
    BY <2>1, <2>2, Zenon
  <2>4. head \in [1..n -> Seq(Byte)] /\ (\A i \in 1..n : Len(head[i]) = 0) /\ 0 \in Nat
    OBVIOUS
  <2> HIDE DEF head, data
  <2>6. PICK off : Layout(unit, 0, off, data(head)) /\ Headed(unit, 0, off, data(head), head)
    BY <1>2, <2>4
  <2> QED
    BY <2>0, <2>3, <2>6, RawSplits
<1>7. framing \in {"annexb", "long annexb", "length", "raw"}
  BY DEF FramingsOf
<1> QED
  BY <1>3, <1>4, <1>5, <1>6, <1>7

-----------------------------------------------------------------------------
(* Fragments.                                                              *)

Chunk == Room - 2
Count(nal) == (Len(nal) - 1 + Chunk - 1) \div Chunk
\* The last byte of the first j fragments.
Reach(nal, j) == IF j = Count(nal) THEN Len(nal) ELSE 1 + j * Chunk

LEMMA Division ==
  ASSUME NEW a \in Nat, NEW c \in Nat, c > 0
  PROVE  a \div c \in Nat /\ (a \div c) * c <= a /\ a < (a \div c) * c + c
<1>1. a \div c \in Nat /\ (a \div c) * c <= a
  OBVIOUS
<1>2. a < (a \div c) * c + c
  BY Z3
<1> QED
  BY <1>1, <1>2

LEMMA Product ==
  ASSUME NEW c \in Nat, NEW i \in Nat, NEW j \in Nat, i <= j
  PROVE  i * c \in Nat /\ j * c \in Nat /\ i * c <= j * c /\ (i + 1) * c = i * c + c
OBVIOUS

\* All fragments but the last are full, and the last is not empty.
LEMMA CountIs ==
  ASSUME NEW nal \in Seq(Byte), Len(nal) > Room
  PROVE  /\ Chunk \in Nat /\ Chunk >= 1 /\ Count(nal) \in Nat /\ Count(nal) >= 1
         /\ \A j \in Nat : j < Count(nal) => 1 + j * Chunk < Len(nal) /\ j * Chunk \in Nat
         /\ 1 + Count(nal) * Chunk >= Len(nal)
<1> DEFINE m == Len(nal) - 1
           c == Chunk
           q == Count(nal)
           a == Len(nal) - 1 + Chunk - 1
<1>1. Room \in Nat /\ Room > 2 /\ Len(nal) \in Nat
  BY RtpAssumption, LenProperties
<1>2. c \in Nat /\ c >= 1 /\ m \in Nat /\ a \in Nat /\ a = m + c - 1 /\ m >= 1
  BY <1>1 DEF Chunk
<1>3. q \in Nat /\ q * c <= a /\ a < q * c + c
  <2>1. q = a \div c
    BY DEF Count
  <2> HIDE DEF q, a, c
  <2> QED
    BY <1>2, <2>1, Division
<1> HIDE DEF q, a, c
<1>4. q * c \in Nat
  BY <1>2, <1>3
<1>5. q * c >= m /\ m >= q * c - c + 1
  <2> HIDE DEF m
  <2> QED
    BY <1>2, <1>3, <1>4
<1>6. q >= 1
  <2>1. q = 0 => q * c = 0
    BY <1>2, <1>3
  <2> QED
    BY <1>2, <1>3, <1>5, <2>1
<1>7. ASSUME NEW j \in Nat, j < q PROVE 1 + j * c < Len(nal) /\ j * c \in Nat
  <2>1. j * c \in Nat /\ (j + 1) * c = j * c + c /\ (j + 1) * c <= q * c
    <3>1. j + 1 <= q /\ j + 1 \in Nat
      BY <1>3, <1>7
    <3> QED
      BY <1>2, <1>3, <3>1, Product
  <2>2. j * c + c <= q * c
    BY <2>1
  <2> QED
    BY <1>1, <1>2, <1>4, <1>5, <2>1, <2>2
<1>8. 1 + q * c >= Len(nal)
  BY <1>1, <1>4, <1>5
<1> QED
  BY <1>2, <1>3, <1>6, <1>7, <1>8 DEF c, q

\* The j-th fragment has the bytes after those of the one before.
LEMMA ReachIs ==
  ASSUME NEW nal \in Seq(Byte), Len(nal) > Room, NEW j \in 1..Count(nal)
  PROVE  /\ Reach(nal, j - 1) \in Nat /\ Reach(nal, j) \in Nat /\ Reach(nal, j - 1) >= 1
         /\ Reach(nal, j - 1) < Reach(nal, j) /\ Reach(nal, j) <= Len(nal)
         /\ Reach(nal, j) <= Reach(nal, j - 1) + Chunk
         /\ 2 + (j - 1) * Chunk = Reach(nal, j - 1) + 1
         /\ Min({2 + (j - 1) * Chunk + Chunk - 1, Len(nal)}) = Reach(nal, j)
<1> DEFINE c == Chunk
           q == Count(nal)
           L == Len(nal)
           before == (j - 1) * c
           here == j * c
<1>1. /\ c \in Nat /\ c >= 1 /\ q \in Nat /\ q >= 1
      /\ \A i \in Nat : i < q => 1 + i * c < L /\ i * c \in Nat
      /\ 1 + q * c >= L
  BY CountIs
<1>2. L \in Nat /\ j \in Nat /\ j >= 1 /\ j <= q /\ j - 1 \in Nat /\ j - 1 < q /\ j - 1 /= q
  BY <1>1, LenProperties
<1>3. Reach(nal, j - 1) = 1 + before /\ before \in Nat /\ 1 + before < L
  BY <1>1, <1>2 DEF Reach
<1>4. here = before + c /\ here \in Nat
  <2>1. j = (j - 1) + 1
    BY <1>2
  <2>2. ((j - 1) + 1) * c = (j - 1) * c + c
    BY <1>1, <1>2, Product
  <2> QED
    BY <1>1, <1>3, <2>1, <2>2
<1>5. Reach(nal, j) = IF j = q THEN L ELSE 1 + here
  BY DEF Reach
<1>6. j /= q => 1 + here < L
  BY <1>1, <1>2
<1>7. j = q => 1 + here >= L
  BY <1>1
<1>8. Min({1 + before + c, L}) = Reach(nal, j)
  <2> HIDE DEF before, here, L, q, c
  <2>1. {1 + before + c, L} \in SUBSET Nat
    BY <1>1, <1>2, <1>3
  <2> DEFINE least == Min({1 + before + c, L})
  <2>2. least \in {1 + before + c, L} /\ \A x \in {1 + before + c, L} : least <= x
    BY <2>1, MinIs
  <2> HIDE DEF least
  <2>3. least = Reach(nal, j)
    <3>1. CASE j = q
      BY <1>1, <1>2, <1>3, <1>4, <1>5, <1>7, <2>2, <3>1
    <3>2. CASE j /= q
      BY <1>1, <1>2, <1>3, <1>4, <1>5, <1>6, <2>2, <3>2
    <3> QED
      BY <3>1, <3>2
  <2> QED
    BY <2>3 DEF least
<1>9. 2 + before + c - 1 = 1 + before + c
  BY <1>1, <1>3
<1> HIDE DEF here, L, q, c, before
<1>10. /\ Reach(nal, j - 1) \in Nat /\ Reach(nal, j) \in Nat /\ Reach(nal, j - 1) >= 1
       /\ Reach(nal, j - 1) < Reach(nal, j) /\ Reach(nal, j) <= L /\ Reach(nal, j) <= Reach(nal, j - 1) + c
       /\ 2 + before = Reach(nal, j - 1) + 1
  BY <1>1, <1>2, <1>3, <1>4, <1>5, <1>6, <1>7
<1>11. Min({2 + before + c - 1, L}) = Reach(nal, j)
  BY <1>8, <1>9
<1> QED
  BY <1>10, <1>11 DEF L, c, before

\* What a receiver needs of a fragment.
IsFragment(p, nal, j) ==
    /\ p \in Seq(Byte) /\ Len(p) \in Nat /\ Len(p) >= 3 /\ Len(p) <= Room
    /\ p[1] % 32 = 28 /\ (p[1] \div 32) * 32 + (p[2] % 32) = nal[1] /\ (p[2] >= 128 <=> j = 1)
    /\ SubSeq(p, 3, Len(p)) = SubSeq(nal, Reach(nal, j - 1) + 1, Reach(nal, j))

FragmentHeader(a, first, last) == (IF first THEN 128 ELSE 0) + (IF last THEN 64 ELSE 0) + (a % 32)

HeaderSplits(a, first, last) ==
    /\ (a \div 32) * 32 + 28 \in Byte /\ FragmentHeader(a, first, last) \in Byte
    /\ ((a \div 32) * 32 + 28) % 32 = 28
    /\ (((a \div 32) * 32 + 28) \div 32) * 32 + (FragmentHeader(a, first, last) % 32) = a
    /\ (FragmentHeader(a, first, last) >= 128 <=> first)

\* The indicator and the header of a fragment give the unit's first byte back.
LEMMA HeaderBits ==
  ASSUME NEW a \in Byte, a % 32 /= 0, NEW first \in BOOLEAN, NEW last \in BOOLEAN
  PROVE  HeaderSplits(a, first, last)
<1>0. a \in 0..255
  BY DEF Byte
<1>1. PICK u \in 0..7, t \in 1..31 : a = 32 * u + t
  <2> DEFINE u == a \div 32
             t == a % 32
  <2>1. u \in 0..7
    BY <1>0
  <2>2. t \in 1..31
    BY <1>0
  <2>3. a = 32 * u + t
    BY <1>0
  <2> HIDE DEF u, t
  <2> QED
    BY <2>1, <2>2, <2>3
<1>2. a \div 32 = u /\ a % 32 = t
  BY <1>1
<1>3. u * 32 + 28 \in 0..255 /\ (u * 32 + 28) % 32 = 28 /\ (u * 32 + 28) \div 32 = u
  OBVIOUS
<1> DEFINE h == FragmentHeader(a, first, last)
<1>4. h = (IF first THEN 128 ELSE 0) + (IF last THEN 64 ELSE 0) + t
  BY <1>2 DEF FragmentHeader
<1> HIDE DEF h
<1>5. h \in 0..255 /\ h % 32 = t /\ (h >= 128 <=> first)
  <2>1. CASE first /\ last
    BY <1>4, <2>1
  <2>2. CASE first /\ ~last
    BY <1>4, <2>2
  <2>3. CASE ~first /\ last
    BY <1>4, <2>3
  <2>4. CASE ~first /\ ~last
    BY <1>4, <2>4
  <2> QED
    BY <2>1, <2>2, <2>3, <2>4
<1>6. u * 32 + t = a
  BY <1>1
<1> QED
  BY <1>2, <1>3, <1>5, <1>6 DEF HeaderSplits, h, Byte

\* The fragments of a unit that does not fit one packet.
LEMMA FragmentsAre ==
  ASSUME NEW nal \in Seq(Byte), IsNal(nal), Len(nal) > Room
  PROVE  /\ Fragments(nal) \in Seq(Seq(Byte)) /\ Len(Fragments(nal)) = Count(nal)
         /\ \A j \in 1..Count(nal) : IsFragment(Fragments(nal)[j], nal, j)
<1> DEFINE q == Count(nal)
           indicator == (nal[1] \div 32) * 32 + 28
           header(j) == FragmentHeader(nal[1], j = 1, j = q)
           low(j) == 2 + (j - 1) * Chunk
           high(j) == Min({low(j) + Chunk - 1, Len(nal)})
           body(j) == SubSeq(nal, low(j), high(j))
<1>1. Fragments(nal) = [j \in 1..q |-> <<indicator, header(j)>> \o body(j)]
  BY DEF Fragments, Count, Chunk, FragmentHeader
<1>2. q \in Nat /\ Chunk \in Nat /\ Chunk >= 1 /\ Len(nal) \in Nat /\ Room = Chunk + 2 /\ Room \in Nat
  <2>1. Room \in Nat /\ Room > 2
    BY RtpAssumption
  <2>2. Room = Chunk + 2
    BY <2>1 DEF Chunk
  <2> QED
    BY <2>1, <2>2, CountIs, LenProperties
<1>3. nal[1] \in Byte /\ nal[1] % 32 /= 0
  <2>1. 1 \in 1..Len(nal)
    BY <1>2
  <2>2. nal[1] \in Byte
    BY <2>1, ElementOfSeq
  <2>3. NalType(nal) \in 1..23
    BY DEF IsNal
  <2> QED
    BY <2>2, <2>3 DEF NalType
<1>4. ASSUME NEW j \in 1..q
      PROVE  /\ indicator \in Byte /\ header(j) \in Byte /\ indicator % 32 = 28
             /\ (indicator \div 32) * 32 + (header(j) % 32) = nal[1] /\ (header(j) >= 128 <=> j = 1)
  <2>1. HeaderSplits(nal[1], j = 1, j = q)
    BY <1>3, HeaderBits
  <2> QED
    BY <2>1 DEF HeaderSplits
<1> HIDE DEF indicator, header, q
<1>5. ASSUME NEW j \in 1..q
      PROVE  /\ body(j) = SubSeq(nal, Reach(nal, j - 1) + 1, Reach(nal, j)) /\ body(j) \in Seq(Byte)
             /\ Len(body(j)) \in Nat /\ Len(body(j)) >= 1 /\ Len(body(j)) <= Chunk
  <2> DEFINE from == Reach(nal, j - 1)
             to == Reach(nal, j)
  <2>1. /\ from \in Nat /\ to \in Nat /\ from >= 1 /\ from < to /\ to <= Len(nal) /\ to <= from + Chunk
        /\ low(j) = from + 1 /\ high(j) = to
    BY ReachIs DEF q
  <2>2. body(j) = SubSeq(nal, from + 1, to)
    BY <2>1
  <2> HIDE DEF from, to, body
  <2>3. SubSeq(nal, from + 1, to) \in Seq(Byte) /\ Len(SubSeq(nal, from + 1, to)) = to - (from + 1) + 1
    BY <1>2, <2>1, SubSeqIs
  <2>4. Len(body(j)) = to - from
    BY <2>1, <2>2, <2>3
  <2> QED
    BY <1>2, <2>1, <2>2, <2>3, <2>4 DEF from, to
<1> HIDE DEF body
<1>6. ASSUME NEW j \in 1..q
      PROVE  Fragments(nal)[j] \in Seq(Byte) /\ IsFragment(Fragments(nal)[j], nal, j)
  <2> DEFINE pair == <<indicator, header(j)>>
             p == pair \o body(j)
  <2>1. pair \in Seq(Byte) /\ Len(pair) = 2 /\ pair[1] = indicator /\ pair[2] = header(j)
    BY <1>4
  <2>2. Fragments(nal)[j] = p
    BY <1>1
  <2> HIDE DEF pair
  <2>3. Joins(Byte, p, pair, body(j))
    BY <1>5, <2>1, ConcatIs
  <2> HIDE DEF p
  <2>4. /\ p \in Seq(Byte) /\ Len(p) = 2 + Len(body(j)) /\ p[1] = indicator /\ p[2] = header(j)
        /\ \A k \in 1..Len(body(j)) : p[2 + k] = body(j)[k]
    BY <2>1, <2>3 DEF Joins
  <2>5. Len(p) \in Nat /\ Len(p) >= 3 /\ Len(p) <= Room
    BY <1>2, <1>5, <2>4
  <2>6. SubSeq(p, 3, Len(p)) = body(j)
    <3> DEFINE rest == SubSeq(p, 3, Len(p))
    <3>1. rest \in Seq(Byte) /\ Len(rest) = Len(p) - 3 + 1 /\ \A k \in 1..(Len(p) - 3 + 1) : rest[k] = p[3 + k - 1]
      BY <2>4, <2>5, SubSeqIs
    <3> HIDE DEF rest
    <3>2. Len(rest) = Len(body(j)) /\ Len(p) - 3 + 1 = Len(body(j))
      BY <1>5, <2>4, <3>1
    <3>3. ASSUME NEW k \in 1..Len(rest) PROVE rest[k] = body(j)[k]
      <4>1. 3 + k - 1 = 2 + k
        OBVIOUS
      <4> QED
        BY <2>4, <3>1, <3>2, <4>1
    <3>4. rest = body(j)
      BY <1>5, <3>1, <3>2, <3>3, SeqsEqual
    <3> QED
      BY <3>4 DEF rest
  <2>7. IsFragment(p, nal, j)
    BY <1>4, <1>5, <2>4, <2>5, <2>6 DEF IsFragment
  <2> QED
    BY <2>2, <2>4, <2>7
<1>7. Fragments(nal) \in [1..q -> Seq(Byte)]
  <2>1. DOMAIN Fragments(nal) = 1..q /\ Fragments(nal) = [j \in 1..q |-> Fragments(nal)[j]]
    BY <1>1
  <2> QED
    BY <1>6, <2>1
<1>8. Fragments(nal) \in Seq(Seq(Byte)) /\ Len(Fragments(nal)) = q
  BY <1>2, <1>7, FunctionIsSeq
<1> QED
  BY <1>6, <1>8 DEF q

-----------------------------------------------------------------------------
(* Joined undoes Packetize.                                                *)

JoinStep(p, got) ==
    IF p[1] % 32 /= 28 THEN Append(got, p)
    ELSE IF p[2] >= 128 THEN Append(got, <<(p[1] \div 32) * 32 + (p[2] % 32)>> \o SubSeq(p, 3, Len(p)))
    ELSE [got EXCEPT ![Len(got)] = @ \o SubSeq(p, 3, Len(p))]
JoinBody(packets, f) ==
    [k \in 0..Len(packets) |-> IF k = 0 THEN <<>> ELSE JoinStep(packets[k].payload, f[k - 1])]
Joinable(p) == p \in Seq(Byte) /\ Len(p) >= 1 /\ (p[1] % 32 = 28 => Len(p) >= 2)

\* A receiver's step from units gives units.
LEMMA JoinStepIs ==
  ASSUME NEW p, Joinable(p), NEW got \in Seq(Seq(Byte))
  PROVE  JoinStep(p, got) \in Seq(Seq(Byte))
<1>1. p \in Seq(Byte) /\ Len(p) \in Nat /\ Len(p) >= 1
  BY LenProperties DEF Joinable
<1>2. CASE p[1] % 32 /= 28
  BY <1>1, <1>2, AppendProperties DEF JoinStep
<1>3. CASE p[1] % 32 = 28
  <2> DEFINE rest == SubSeq(p, 3, Len(p))
             whole == <<(p[1] \div 32) * 32 + (p[2] % 32)>> \o rest
             last == got[Len(got)] \o rest
  <2>1. Len(p) >= 2 /\ 1 \in 1..Len(p) /\ 2 \in 1..Len(p)
    BY <1>1, <1>3 DEF Joinable
  <2>2. rest \in Seq(Byte)
    <3>1. 3 \in Nat /\ 3 >= 1 /\ 3 <= Len(p) + 1
      BY <1>1, <2>1
    <3> QED
      BY <1>1, <3>1, SubSeqIs
  <2>3. (p[1] \div 32) * 32 + (p[2] % 32) \in Byte
    <3>1. p[1] \in Byte /\ p[2] \in Byte
      BY <1>1, <2>1, ElementOfSeq
    <3>2. PICK x \in 0..255, y \in 0..255 : x = p[1] /\ y = p[2]
      BY <3>1 DEF Byte
    <3>3. (x \div 32) * 32 + (y % 32) \in 0..255
      <4>1. x \div 32 \in 0..7 /\ y % 32 \in 0..31
        OBVIOUS
      <4> QED
        BY <4>1
    <3> QED
      BY <3>2, <3>3 DEF Byte
  <2>4. whole \in Seq(Byte)
    <3> DEFINE head == <<(p[1] \div 32) * 32 + (p[2] % 32)>>
    <3>1. head \in Seq(Byte)
      BY <2>3
    <3> HIDE DEF head, rest
    <3>2. head \o rest \in Seq(Byte)
      BY <2>2, <3>1
    <3> QED
      BY <3>2 DEF head
  <2>5. JoinStep(p, got) = IF p[2] >= 128 THEN Append(got, whole) ELSE [got EXCEPT ![Len(got)] = last]
    BY <1>3 DEF JoinStep
  <2> HIDE DEF whole
  <2>6. Append(got, whole) \in Seq(Seq(Byte))
    BY <2>4, AppendProperties
  <2>7. [got EXCEPT ![Len(got)] = last] \in Seq(Seq(Byte))
    <3>0. Len(got) \in Nat
      BY LenProperties
    <3>1. CASE Len(got) = 0
      <4>1. got = <<>>
        BY <3>1, EmptySeq
      <4> DEFINE new == [got EXCEPT ![Len(got)] = last]
      <4>2. got \in [1..0 -> Seq(Byte)] /\ 1..0 = {}
        BY <3>1, LenProperties
      <4> HIDE DEF last
      <4>3. new \in [1..0 -> Seq(Byte)]
        BY <4>2
      <4> HIDE DEF new
      <4>4. new \in Seq(Seq(Byte))
        BY <4>3, 0 \in Nat, FunctionIsSeq
      <4> QED
        BY <4>4 DEF new
    <3>2. CASE Len(got) /= 0
      <4>1. Len(got) \in 1..Len(got)
        BY <3>0, <3>2
      <4>2. got[Len(got)] \in Seq(Byte)
        BY <4>1, ElementOfSeq
      <4>3. last \in Seq(Byte)
        BY <2>2, <4>2
      <4> HIDE DEF last
      <4> QED
        BY <4>1, <4>3, ExceptSeq
    <3> QED
      BY <3>1, <3>2
  <2> QED
    BY <2>5, <2>6, <2>7
<1> QED
  BY <1>2, <1>3

LEMMA JoinHasFunction ==
  ASSUME NEW packets, Len(packets) \in Nat, \A k \in 1..Len(packets) : Joinable(packets[k].payload)
  PROVE  \E f : f = JoinBody(packets, f)
<1> DEFINE V == Seq(Seq(Byte))
           n == Len(packets)
           D == 0..n
           value(k, g) == IF k = 0 THEN <<>> ELSE JoinStep(packets[k].payload, g[k - 1])
           H == [k \in D |-> [g \in [D -> V] |-> value(k, g)]]
           rank == [k \in D |-> k]
<1>1. n \in Nat
  OBVIOUS
<1>2. \A k \in 1..n : Joinable(packets[k].payload)
  OBVIOUS
<1> HIDE DEF n
<1>3. rank \in [D -> 0..n]
  BY <1>1
<1>4. ASSUME NEW k \in D, NEW g \in [D -> V] PROVE value(k, g) \in V
  <2>1. CASE k = 0
    BY <2>1
  <2>2. CASE k /= 0
    <3>1. k \in 1..n /\ k - 1 \in D
      BY <1>1, <2>2
    <3>2. Joinable(packets[k].payload) /\ g[k - 1] \in V
      BY <1>2, <3>1
    <3>3. JoinStep(packets[k].payload, g[k - 1]) \in V
      BY <3>2, JoinStepIs
    <3> QED
      BY <2>2, <3>3
  <2> QED
    BY <2>1, <2>2
<1>5. ASSUME NEW k \in D, NEW g \in [D -> V], NEW h \in [D -> V], \A y \in D : rank[y] < rank[k] => g[y] = h[y]
      PROVE  value(k, g) = value(k, h)
  <2>1. k /= 0 => k - 1 \in D /\ rank[k - 1] < rank[k]
    BY <1>1
  <2>2. k /= 0 => g[k - 1] = h[k - 1]
    BY <1>5, <2>1
  <2> QED
    BY <2>2
<1> HIDE DEF value
<1>7. H \in [D -> [[D -> V] -> V]]
  BY <1>4
<1>8. \A k \in D : \A g \in [D -> V] : H[k][g] = value(k, g)
  OBVIOUS
<1> HIDE DEF H
<1>9. Ranked(D, V, n, rank, H)
  <2> HIDE DEF D, V, rank
  <2>1. ASSUME NEW k \in D, NEW g \in [D -> V], NEW h \in [D -> V], \A y \in D : rank[y] < rank[k] => g[y] = h[y]
        PROVE  H[k][g] = H[k][h]
    <3>1. value(k, g) = value(k, h)
      BY <1>5, <2>1
    <3>2. H[k][g] = value(k, g) /\ H[k][h] = value(k, h)
      BY <1>8
    <3> QED
      BY <3>1, <3>2
  <2> QED
    BY <1>1, <1>3, <1>7, <2>1 DEF Ranked
<1>10. PICK f \in [D -> V] : Computed(D, H, f)
  <2>1. <<>> \in V
    OBVIOUS
  <2>2. V /= {}
    BY <2>1
  <2> HIDE DEF rank, D, V
  <2> QED
    BY <1>9, <2>2, Recursion
<1>11. \A k \in D : f[k] = value(k, f)
  BY <1>8, <1>10 DEF Computed
<1>12. f = [k \in D |-> value(k, f)]
  BY <1>11
<1>13. f = JoinBody(packets, f)
  BY <1>12 DEF JoinBody, value, n
<1> QED
  BY <1>13

\* Joined takes one payload more at a time.
LEMMA JoinRecurs ==
  ASSUME NEW packets, Len(packets) \in Nat, \A k \in 1..Len(packets) : Joinable(packets[k].payload)
  PROVE  \E f : f = JoinBody(packets, f) /\ Joined(packets) = f[Len(packets)]
<1> DEFINE nals[k \in 0..Len(packets)] ==
             IF k = 0 THEN <<>>
             ELSE LET p == packets[k].payload
                      got == nals[k - 1]
                  IN IF p[1] % 32 /= 28 THEN Append(got, p)
                     ELSE IF p[2] >= 128 THEN Append(got, <<(p[1] \div 32) * 32 + (p[2] % 32)>> \o SubSeq(p, 3, Len(p)))
                     ELSE [got EXCEPT ![Len(got)] = @ \o SubSeq(p, 3, Len(p))]
<1>1. Joined(packets) = nals[Len(packets)]
  BY DEF Joined
<1>2. nals = CHOOSE f : f = JoinBody(packets, f)
  BY DEF nals, JoinBody, JoinStep
<1> HIDE DEF nals
<1>3. nals = JoinBody(packets, nals)
  BY <1>2, JoinHasFunction, Zenon
<1> QED
  BY <1>1, <1>3

-----------------------------------------------------------------------------
(* A receiver gets the units back from their packets.                      *)

\* What the packetizer makes of a unit.
IsCut(pieces, nal) ==
    /\ pieces \in Seq(Seq(Byte)) /\ Len(pieces) \in Nat /\ Len(pieces) >= 1
    /\ \A j \in 1..Len(pieces) : Joinable(pieces[j]) /\ Len(pieces[j]) <= Room
    /\ \/ Len(pieces) = 1 /\ pieces[1] = nal
       \/ Len(nal) > Room /\ Len(pieces) = Count(nal) /\ \A j \in 1..Count(nal) : IsFragment(pieces[j], nal, j)

\* A unit is one payload or its fragments.
LEMMA PayloadsAre ==
  ASSUME NEW nal \in Seq(Byte), IsNal(nal)
  PROVE  IsCut(Payloads(nal), nal)
<1>1. Len(nal) \in Nat /\ Len(nal) >= 1 /\ nal[1] % 32 \in 1..23 /\ Room \in Nat
  BY LenProperties, RtpAssumption DEF IsNal, NalType
<1>2. CASE Len(nal) <= Room
  <2>1. Payloads(nal) = <<nal>>
    BY <1>2 DEF Payloads
  <2>2. <<nal>> \in Seq(Seq(Byte)) /\ Len(<<nal>>) = 1 /\ <<nal>>[1] = nal
    OBVIOUS
  <2>3. Joinable(nal)
    BY <1>1 DEF Joinable
  <2>4. IsCut(<<nal>>, nal)
    BY <1>2, <2>2, <2>3 DEF IsCut
  <2> QED
    BY <2>1, <2>4
<1>3. CASE Len(nal) > Room
  <2> DEFINE pieces == Fragments(nal)
  <2>1. Payloads(nal) = pieces
    BY <1>1, <1>3 DEF Payloads
  <2>2. /\ pieces \in Seq(Seq(Byte)) /\ Len(pieces) = Count(nal) /\ Count(nal) \in Nat /\ Count(nal) >= 1
        /\ \A j \in 1..Count(nal) : IsFragment(pieces[j], nal, j)
    BY <1>3, FragmentsAre, CountIs
  <2> HIDE DEF pieces
  <2>3. ASSUME NEW j \in 1..Len(pieces) PROVE Joinable(pieces[j]) /\ Len(pieces[j]) <= Room
    <3> DEFINE p == pieces[j]
    <3>1. IsFragment(p, nal, j)
      BY <2>2
    <3> HIDE DEF p
    <3>2. p \in Seq(Byte) /\ Len(p) \in Nat /\ Len(p) >= 3 /\ Len(p) <= Room
      BY <3>1 DEF IsFragment
    <3>3. Joinable(p) /\ Len(p) <= Room
      BY <3>2 DEF Joinable
    <3> QED
      BY <3>3 DEF p
  <2>4. IsCut(pieces, nal)
    BY <1>3, <2>2, <2>3 DEF IsCut
  <2> QED
    BY <2>1, <2>4
<1> QED
  BY <1>1, <1>2, <1>3

\* The last of a sequence, replaced.
Replaced(before, s, t, got) == got[Len(got)] = s /\ [got EXCEPT ![Len(got)] = t] = Append(before, t)

\* Of a sequence to which s was appended, the last is s, and t in its place is as if t was appended.
LEMMA LastReplaced ==
  ASSUME NEW V, NEW before \in Seq(V), NEW s \in V, NEW t \in V
  PROVE  Replaced(before, s, t, Append(before, s))
<1> DEFINE got == Append(before, s)
<1>1. /\ got \in Seq(V) /\ Len(got) = Len(before) + 1 /\ Len(before) \in Nat /\ got[Len(before) + 1] = s
      /\ \A i \in 1..Len(before) : got[i] = before[i]
  BY AppendProperties, LenProperties
<1> HIDE DEF got
<1>2. PICK m \in 1..Len(got) : m = Len(got)
  BY <1>1
<1> DEFINE new == [got EXCEPT ![m] = t]
           want == Append(before, t)
<1>3. new \in Seq(V) /\ Len(new) = Len(got) /\ \A j \in 1..Len(got) : new[j] = IF j = m THEN t ELSE got[j]
  BY <1>1, <1>2, ExceptSeq
<1>4. /\ want \in Seq(V) /\ Len(want) = Len(before) + 1 /\ want[Len(before) + 1] = t
      /\ \A i \in 1..Len(before) : want[i] = before[i]
  BY AppendProperties
<1> HIDE DEF new, want
<1>5. ASSUME NEW j \in 1..Len(new) PROVE new[j] = want[j]
  <2>1. CASE j = m
    BY <1>1, <1>2, <1>3, <1>4, <2>1
  <2>2. CASE j /= m
    <3>1. j \in 1..Len(before)
      BY <1>1, <1>2, <1>3, <2>2
    <3> QED
      BY <1>1, <1>3, <1>4, <2>2, <3>1
  <2> QED
    BY <2>1, <2>2
<1>6. new = want
  BY <1>1, <1>3, <1>4, <1>5, SeqEqual
<1>7. got[Len(got)] = s /\ [got EXCEPT ![Len(got)] = t] = want
  BY <1>1, <1>2, <1>6 DEF new
<1> QED
  BY <1>7 DEF Replaced, got, want

\* What a receiver has of a unit after its first j fragments.
Part(nal, before, j) == IF j = 0 THEN before ELSE Append(before, SubSeq(nal, 1, Reach(nal, j)))

\* One fragment more.
LEMMA JoinsFragment ==
  ASSUME NEW nal \in Seq(Byte), IsNal(nal), Len(nal) > Room, NEW before \in Seq(Seq(Byte)), NEW j \in 1..Count(nal), NEW p,
         IsFragment(p, nal, j)
  PROVE  JoinStep(p, Part(nal, before, j - 1)) = Part(nal, before, j)
<1> DEFINE from == Reach(nal, j - 1)
           to == Reach(nal, j)
           rest == SubSeq(p, 3, Len(p))
           got == Part(nal, before, j - 1)
<1>0. Part(nal, before, j) = Append(before, SubSeq(nal, 1, to))
  <2>1. j /= 0
    BY CountIs
  <2> QED
    BY <2>1 DEF Part
<1>1. /\ p[1] % 32 = 28 /\ (p[1] \div 32) * 32 + (p[2] % 32) = nal[1] /\ (p[2] >= 128 <=> j = 1)
      /\ rest = SubSeq(nal, from + 1, to)
  BY DEF IsFragment
<1>2. from \in Nat /\ to \in Nat /\ from >= 1 /\ from < to /\ to <= Len(nal) /\ 2 + (j - 1) * Chunk = from + 1
  BY ReachIs
<1>3. Len(nal) \in Nat /\ Chunk \in Nat
  BY CountIs, LenProperties
<1>4. CASE j = 1
  <2>1. from = 1
    <3>1. (1 - 1) * Chunk = 0
      BY <1>3
    <3>2. 2 + (1 - 1) * Chunk = from + 1
      BY <1>2, <1>4
    <3> QED
      BY <1>2, <3>1, <3>2
  <2>2. JoinStep(p, got) = Append(got, <<nal[1]>> \o rest)
    BY <1>1, <1>4 DEF JoinStep
  <2>g. got = before
    BY <1>4 DEF Part
  <2> HIDE DEF to, got
  <2>3. 1 \in 1..Len(nal) /\ to \in 1..Len(nal)
    BY <1>2, <1>3
  <2>4. SubSeq(nal, 1, to) = <<nal[1]>> \o SubSeq(nal, 1 + 1, to)
    BY <2>3, SubSeqRecursiveFirst
  <2>5. rest = SubSeq(nal, 1 + 1, to)
    BY <1>1, <2>1
  <2> HIDE DEF rest
  <2>6. JoinStep(p, got) = Append(before, SubSeq(nal, 1, to))
    BY <2>g, <2>2, <2>4, <2>5
  <2> QED
    BY <1>0, <2>6 DEF to, got
<1>5. CASE j /= 1
  <2> DEFINE s == SubSeq(nal, 1, from)
             t == SubSeq(nal, 1, to)
  <2>1. got = Append(before, s)
    <3>1. j - 1 /= 0
      BY <1>5, CountIs
    <3> QED
      BY <3>1 DEF Part
  <2>2. JoinStep(p, got) = [got EXCEPT ![Len(got)] = got[Len(got)] \o rest]
    BY <1>1, <1>5 DEF JoinStep
  <2> HIDE DEF from, to, got
  <2>3. s \in Seq(Byte) /\ t \in Seq(Byte)
    <3>1. 1 \in Nat /\ 1 >= 1 /\ from <= Len(nal) /\ to <= Len(nal) /\ 1 <= from + 1 /\ 1 <= to + 1
      BY <1>2, <1>3
    <3>2. SubSeq(nal, 1, from) \in Seq(Byte)
      BY <1>2, <3>1, SubSeqIs
    <3>3. SubSeq(nal, 1, to) \in Seq(Byte)
      BY <1>2, <3>1, SubSeqIs
    <3> QED
      BY <3>2, <3>3
  <2>4. s \o rest = t
    <3>1. 1 \in 1..(Len(nal) + 1) /\ from \in (1 - 1)..Len(nal) /\ to \in from..Len(nal)
      BY <1>2, <1>3
    <3>2. SubSeq(nal, 1, from) \o SubSeq(nal, from + 1, to) = SubSeq(nal, 1, to)
      BY <3>1, ConcatAdjacentSubSeq
    <3> QED
      BY <1>1, <3>2
  <2> HIDE DEF s, t, rest
  <2>5. got[Len(got)] = s /\ [got EXCEPT ![Len(got)] = t] = Append(before, t)
    <3>1. Replaced(before, s, t, Append(before, s))
      BY <2>3, LastReplaced
    <3> QED
      BY <2>1, <3>1 DEF Replaced
  <2>6. JoinStep(p, got) = Append(before, t)
    BY <2>2, <2>4, <2>5
  <2> QED
    BY <1>0, <2>6 DEF t, to, got
<1> QED
  BY <1>4, <1>5

\* g is what a receiver has after each piece of a unit.
Has(g, before, pieces) == g[0] = before /\ \A j \in 1..Len(pieces) : g[j] = JoinStep(pieces[j], g[j - 1])

\* After the pieces of a unit, a receiver has one unit more.
LEMMA JoinsUnit ==
  ASSUME NEW nal \in Seq(Byte), IsNal(nal), NEW pieces, IsCut(pieces, nal), NEW before \in Seq(Seq(Byte)), NEW g,
         Has(g, before, pieces)
  PROVE  g[Len(pieces)] = Append(before, nal)
<1>0. g[0] = before /\ \A j \in 1..Len(pieces) : g[j] = JoinStep(pieces[j], g[j - 1])
  BY DEF Has
<1>1. CASE Len(pieces) = 1 /\ pieces[1] = nal
  <2>1. nal[1] % 32 \in 1..23
    BY DEF IsNal, NalType
  <2>2. g[1] = JoinStep(nal, g[0])
    <3>1. 1 \in 1..Len(pieces) /\ 1 - 1 = 0
      BY <1>1
    <3> QED
      BY <1>0, <1>1, <3>1
  <2>3. JoinStep(nal, before) = Append(before, nal)
    <3>1. nal[1] % 32 /= 28
      BY <2>1
    <3> QED
      BY <3>1 DEF JoinStep
  <2> QED
    BY <1>0, <1>1, <2>2, <2>3
<1>2. CASE Len(nal) > Room /\ Len(pieces) = Count(nal) /\ \A j \in 1..Count(nal) : IsFragment(pieces[j], nal, j)
  <2> DEFINE n == Count(nal)
             T == {j \in 0..n : g[j] = Part(nal, before, j)}
  <2>1. n \in Nat /\ n >= 1 /\ n = Len(pieces)
    BY <1>2, CountIs
  <2> HIDE DEF n
  <2>2. 0 \in T
    BY <1>0, <2>1 DEF Part
  <2>3. ASSUME NEW j \in 1..n, j - 1 \in T PROVE j \in T
    <3>1. g[j - 1] = Part(nal, before, j - 1) /\ j \in 0..n
      BY <2>1, <2>3
    <3>2. IsFragment(pieces[j], nal, j) /\ j \in 1..Count(nal)
      BY <1>2 DEF n
    <3>3. JoinStep(pieces[j], Part(nal, before, j - 1)) = Part(nal, before, j)
      BY <1>2, <3>2, JoinsFragment
    <3>4. g[j] = JoinStep(pieces[j], g[j - 1])
      BY <1>0, <2>1
    <3> QED
      BY <3>1, <3>3, <3>4
  <2>4. \A j \in 0..n : j \in T
    <3> HIDE DEF T
    <3> QED
      BY <2>1, <2>2, <2>3, Upward
  <2>5. g[n] = Append(before, SubSeq(nal, 1, Reach(nal, n)))
    <3>1. n \in T /\ n /= 0
      BY <2>1, <2>4
    <3> QED
      BY <3>1 DEF Part
  <2>6. SubSeq(nal, 1, Reach(nal, n)) = nal
    BY SubSeqFull DEF Reach, n
  <2> QED
    BY <2>1, <2>5, <2>6
<1> QED
  BY <1>1, <1>2 DEF IsCut

\* The payloads of the packets of some units.
CutUp(nals) == FlattenSeq([i \in DOMAIN nals |-> Payloads(nals[i])])
\* Where each unit ends among the payloads.
CutInto(nals, pieces, off, all) ==
    /\ pieces \in Seq(Seq(Seq(Byte))) /\ Len(pieces) = Len(nals) /\ all \in Seq(Seq(Byte))
    /\ \A i \in 1..Len(nals) : pieces[i] = Payloads(nals[i])
    /\ Cuts(pieces, off, all)

\* The payloads of some units are their pieces, one unit after the other.
LEMMA UnitsAreCut ==
  ASSUME NEW nals \in Seq(Seq(Byte)), \A i \in 1..Len(nals) : IsNal(nals[i])
  PROVE  \E pieces, off : CutInto(nals, pieces, off, CutUp(nals))
<1>1. PICK n \in Nat : n = Len(nals) /\ DOMAIN nals = 1..n
  BY LenProperties
<1> DEFINE pieces == [i \in DOMAIN nals |-> Payloads(nals[i])]
<1>2. ASSUME NEW i \in 1..n PROVE Payloads(nals[i]) \in Seq(Seq(Byte))
  <2>1. nals[i] \in Seq(Byte) /\ IsNal(nals[i])
    BY <1>1, ElementOfSeq
  <2>2. IsCut(Payloads(nals[i]), nals[i])
    BY <2>1, PayloadsAre
  <2> QED
    BY <2>2 DEF IsCut
<1>3. pieces \in [1..n -> Seq(Seq(Byte))] /\ \A i \in 1..n : pieces[i] = Payloads(nals[i])
  BY <1>1, <1>2
<1>4. CutUp(nals) = FlattenSeq(pieces)
  BY DEF CutUp
<1> HIDE DEF pieces
<1>5. pieces \in Seq(Seq(Seq(Byte))) /\ Len(pieces) = n
  BY <1>3, FunctionIsSeq
<1>6. FlattenSeq(pieces) \in Seq(Seq(Byte)) /\ \E off : Cuts(pieces, off, FlattenSeq(pieces))
  BY <1>5, FlattenIs
<1>7. PICK off : Cuts(pieces, off, FlattenSeq(pieces))
  BY <1>6
<1>8. CutInto(nals, pieces, off, CutUp(nals))
  BY <1>1, <1>3, <1>4, <1>5, <1>6, <1>7 DEF CutInto
<1> QED
  BY <1>8

\* The ends grow.
Rises(off, n) ==
    \A i \in 1..n : off[i - 1] \in Nat /\ off[i] \in Nat /\ off[i - 1] <= off[i] /\ off[i] <= off[n]

\* The ends of the sequences rise to the end of the data.
LEMMA EndsRise ==
  ASSUME NEW seqs, NEW n \in Nat, n = Len(seqs), NEW off, NEW data, Cuts(seqs, off, data),
         \A i \in 1..n : Len(seqs[i]) \in Nat
  PROVE  Rises(off, n)
<1>1. \A i \in 0..n : off[i] \in Nat
  BY DEF Cuts
<1>2. \A i \in 1..n : off[i] = off[i - 1] + Len(seqs[i])
  BY DEF Cuts
<1>3. ASSUME NEW i \in 1..n PROVE off[i - 1] \in Nat /\ off[i] \in Nat /\ off[i - 1] <= off[i]
  <2>1. i - 1 \in 0..n /\ i \in 0..n
    OBVIOUS
  <2> QED
    BY <1>1, <1>2, <2>1
<1> DEFINE T == {i \in 0..n : off[i] <= off[n]}
<1>4. n \in T
  BY <1>1
<1>5. ASSUME NEW i \in 0..(n - 1), i + 1 \in T PROVE i \in T
  <2>1. i + 1 \in 1..n /\ i + 1 - 1 = i /\ n \in 0..n /\ i \in 0..n
    OBVIOUS
  <2>2. off[i] <= off[i + 1] /\ off[i] \in Nat /\ off[i + 1] \in Nat
    BY <1>3, <2>1
  <2>3. off[i + 1] <= off[n] /\ off[n] \in Nat
    BY <1>1, <1>5, <2>1
  <2> QED
    BY <2>1, <2>2, <2>3
<1>6. \A i \in 0..n : i \in T
  <2> HIDE DEF T
  <2> QED
    BY <1>4, <1>5, Downward
<1>7. \A i \in 1..n : off[i] <= off[n]
  BY <1>6
<1> QED
  BY <1>3, <1>7 DEF Rises

\* Every payload is one that a receiver understands and that fits a packet.
LEMMA PayloadsFit ==
  ASSUME NEW nals \in Seq(Seq(Byte)), \A i \in 1..Len(nals) : IsNal(nals[i]), NEW pieces, NEW off, NEW all,
         CutInto(nals, pieces, off, all)
  PROVE  \A k \in 1..Len(all) : Joinable(all[k]) /\ Len(all[k]) <= Room
<1>1. PICK n \in Nat : n = Len(nals)
  BY LenProperties
<1>2. /\ Len(pieces) = n /\ Cuts(pieces, off, all) /\ \A i \in 1..n : pieces[i] = Payloads(nals[i])
      /\ off[0] = 0 /\ Len(all) = off[n]
      /\ \A i \in 1..n : off[i] = off[i - 1] + Len(pieces[i])
      /\ \A i \in 1..n : \A k \in 1..Len(pieces[i]) : all[off[i - 1] + k] = pieces[i][k]
  BY <1>1 DEF CutInto, Cuts
<1>3. ASSUME NEW i \in 1..n PROVE IsCut(pieces[i], nals[i])
  <2>1. nals[i] \in Seq(Byte) /\ IsNal(nals[i])
    BY <1>1, ElementOfSeq
  <2> QED
    BY <1>2, <2>1, PayloadsAre
<1>4. \A i \in 1..n : Len(pieces[i]) \in Nat
  BY <1>3 DEF IsCut
<1>5. Rises(off, n)
  BY <1>2, <1>4, EndsRise
<1> DEFINE Understood(k) == Joinable(all[k]) /\ Len(all[k]) <= Room
           T == {i \in 0..n : \A k \in 1..off[i] : Understood(k)}
<1>6. 0 \in T
  BY <1>2
<1>7. ASSUME NEW i \in 1..n, i - 1 \in T PROVE i \in T
  <2>1. off[i - 1] \in Nat /\ off[i] \in Nat /\ off[i] = off[i - 1] + Len(pieces[i]) /\ Len(pieces[i]) \in Nat
    BY <1>2, <1>4, <1>5 DEF Rises
  <2>2. ASSUME NEW k \in 1..off[i] PROVE Understood(k)
    <3>1. CASE k <= off[i - 1]
      <4>1. k \in 1..off[i - 1]
        BY <2>1, <3>1
      <4> QED
        BY <1>7, <4>1
    <3>2. CASE ~(k <= off[i - 1])
      <4>1. PICK j \in 1..Len(pieces[i]) : k = off[i - 1] + j
        <5>1. k - off[i - 1] \in 1..Len(pieces[i]) /\ k = off[i - 1] + (k - off[i - 1])
          BY <2>1, <3>2
        <5> QED
          BY <5>1
      <4>2. all[k] = pieces[i][j]
        BY <1>2, <4>1
      <4>3. Joinable(pieces[i][j]) /\ Len(pieces[i][j]) <= Room
        BY <1>3 DEF IsCut
      <4> QED
        BY <4>2, <4>3
    <3> QED
      BY <3>1, <3>2
  <2> HIDE DEF Understood
  <2> QED
    BY <2>2
<1>8. n \in T
  <2> HIDE DEF T
  <2>1. \A i \in 0..n : i \in T
    BY <1>6, <1>7, Upward
  <2> QED
    BY <2>1
<1> QED
  BY <1>2, <1>8

\* Of some units, a receiver has them again.
LEMMA JoinsBack ==
  ASSUME NEW nals \in Seq(Seq(Byte)), \A i \in 1..Len(nals) : IsNal(nals[i]), NEW packets,
         Len(packets) = Len(CutUp(nals)), \A k \in 1..Len(packets) : packets[k].payload = CutUp(nals)[k]
  PROVE  /\ Joined(packets) = nals /\ Len(packets) \in Nat
         /\ \A k \in 1..Len(packets) : Len(packets[k].payload) <= Room
<1> DEFINE all == CutUp(nals)
<1>1. PICK n \in Nat : n = Len(nals)
  BY LenProperties
<1>2. PICK pieces, off : CutInto(nals, pieces, off, all)
  BY UnitsAreCut
<1>3. Len(packets) = Len(all) /\ \A k \in 1..Len(all) : packets[k].payload = all[k]
  OBVIOUS
<1> HIDE DEF all
<1>4. \A k \in 1..Len(all) : Joinable(all[k]) /\ Len(all[k]) <= Room
  BY <1>2, PayloadsFit
<1>5. Len(packets) \in Nat
  BY <1>2, <1>3, LenProperties DEF CutInto
<1>6. \A k \in 1..Len(packets) : Joinable(packets[k].payload) /\ Len(packets[k].payload) <= Room
  BY <1>3, <1>4
<1>7. PICK f : f = JoinBody(packets, f) /\ Joined(packets) = f[Len(packets)]
  BY <1>5, <1>6, JoinRecurs
<1>8. f[0] = <<>> /\ \A k \in 1..Len(all) : f[k] = JoinStep(all[k], f[k - 1])
  <2> DEFINE rhs == [k \in 0..Len(packets) |-> IF k = 0 THEN <<>> ELSE JoinStep(packets[k].payload, f[k - 1])]
  <2>1. f = rhs
    BY <1>7 DEF JoinBody
  <2>2. rhs[0] = <<>> /\ \A k \in 1..Len(packets) : rhs[k] = JoinStep(packets[k].payload, f[k - 1])
    BY <1>5
  <2> HIDE DEF rhs
  <2> QED
    BY <1>3, <2>1, <2>2
<1>9. /\ Len(pieces) = n /\ Cuts(pieces, off, all) /\ \A i \in 1..n : pieces[i] = Payloads(nals[i])
      /\ off[0] = 0 /\ Len(all) = off[n]
      /\ \A i \in 1..n : off[i] = off[i - 1] + Len(pieces[i])
      /\ \A i \in 1..n : \A k \in 1..Len(pieces[i]) : all[off[i - 1] + k] = pieces[i][k]
  BY <1>1, <1>2 DEF CutInto, Cuts
<1>10. ASSUME NEW i \in 1..n PROVE nals[i] \in Seq(Byte) /\ IsNal(nals[i]) /\ IsCut(pieces[i], nals[i])
  <2>1. nals[i] \in Seq(Byte) /\ IsNal(nals[i])
    BY <1>1, ElementOfSeq
  <2> QED
    BY <1>9, <2>1, PayloadsAre
<1>11. \A i \in 1..n : Len(pieces[i]) \in Nat
  BY <1>10 DEF IsCut
<1>12. Rises(off, n)
  BY <1>9, <1>11, EndsRise
<1> DEFINE T == {i \in 0..n : f[off[i]] = SubSeq(nals, 1, i)}
<1>13. 0 \in T
  <2>1. SubSeq(nals, 1, 0) = <<>>
    BY SubSeqEmpty
  <2>2. f[off[0]] = SubSeq(nals, 1, 0)
    BY <1>8, <1>9, <2>1
  <2>3. 0 \in 0..n
    OBVIOUS
  <2> QED
    BY <2>2, <2>3
<1>14. ASSUME NEW i \in 1..n, i - 1 \in T PROVE i \in T
  <2> DEFINE before == SubSeq(nals, 1, i - 1)
             m == Len(pieces[i])
             g == [j \in 0..m |-> f[off[i - 1] + j]]
  <2>1. /\ off[i - 1] \in Nat /\ off[i] \in Nat /\ off[i] = off[i - 1] + m /\ m \in Nat /\ off[i] <= Len(all)
    BY <1>9, <1>11, <1>12 DEF Rises
  <2>2. i - 1 \in Nat /\ i - 1 <= Len(nals) /\ i \in 0..n
    BY <1>1
  <2>3. before \in Seq(Seq(Byte))
    <3>1. 1 \in Nat /\ 1 >= 1 /\ 1 <= (i - 1) + 1
      BY <2>2
    <3> QED
      BY <2>2, <3>1, SubSeqIs
  <2> HIDE DEF m
  <2>4. g[0] = before
    <3>1. f[off[i - 1]] = before
      BY <1>14
    <3> HIDE DEF before
    <3> QED
      BY <2>1, <3>1
  <2>5. ASSUME NEW j \in 1..m PROVE g[j] = JoinStep(pieces[i][j], g[j - 1])
    <3>1. g[j] = f[off[i - 1] + j] /\ g[j - 1] = f[off[i - 1] + (j - 1)]
      BY <2>1
    <3> DEFINE k == off[i - 1] + j
    <3>2. k \in 1..Len(all) /\ k - 1 = off[i - 1] + (j - 1)
      <4>1. Len(all) \in Nat
        BY <1>2, LenProperties DEF CutInto
      <4> QED
        BY <2>1, <4>1
    <3>3. all[k] = pieces[i][j]
      BY <1>9 DEF m
    <3> HIDE DEF k
    <3>4. f[k] = JoinStep(all[k], f[k - 1])
      BY <1>8, <3>2
    <3>5. g[j] = f[k]
      BY <3>1 DEF k
    <3> QED
      BY <3>1, <3>2, <3>3, <3>4, <3>5
  <2> HIDE DEF g, before
  <2>6. g[Len(pieces[i])] = Append(before, nals[i])
    <3>1. \A j \in 1..Len(pieces[i]) : g[j] = JoinStep(pieces[i][j], g[j - 1])
      BY <2>5 DEF m
    <3>2. nals[i] \in Seq(Byte) /\ IsNal(nals[i]) /\ IsCut(pieces[i], nals[i])
      BY <1>10
    <3>3. Has(g, before, pieces[i])
      BY <2>4, <3>1 DEF Has
    <3> QED
      BY <2>3, <3>2, <3>3, JoinsUnit
  <2>7. f[off[i]] = Append(before, nals[i])
    BY <2>1, <2>6 DEF g, m
  <2>8. Append(before, nals[i]) = SubSeq(nals, 1, i)
    <3>1. 1 \in 1..Len(nals) /\ i \in 1..Len(nals)
      BY <1>1, <2>2
    <3>2. SubSeq(nals, 1, i) = before \o <<nals[i]>>
      BY <3>1, SubSeqRecursiveSecond DEF before
    <3>3. Append(before, nals[i]) = before \o <<nals[i]>>
      BY <1>10, <2>3, AppendIsConcat
    <3> QED
      BY <3>2, <3>3
  <2> QED
    BY <2>2, <2>7, <2>8
<1>15. n \in T
  <2> HIDE DEF T
  <2>1. \A i \in 0..n : i \in T
    BY <1>13, <1>14, Upward
  <2> QED
    BY <2>1
<1>16. f[off[n]] = SubSeq(nals, 1, n)
  BY <1>15
<1>17. Joined(packets) = nals
  <2>1. SubSeq(nals, 1, n) = nals
    BY <1>1, SubSeqFull
  <2> QED
    BY <1>3, <1>7, <1>9, <1>16, <2>1
<1> QED
  BY <1>5, <1>6, <1>17

-----------------------------------------------------------------------------
(* The packets of some units.                                              *)

AreUnits(nals) == nals \in Seq(Seq(Byte)) /\ \A i \in 1..Len(nals) : IsNal(nals[i])

\* What a receiver is promised of the packets.
Carry(packets, nals, first) ==
    /\ Joined(packets) = nals /\ Len(packets) \in Nat
    /\ \A k \in DOMAIN packets :
         /\ Len(packets[k].payload) <= Room
         /\ packets[k].number = (first + k - 1) % SequenceNumbers
         /\ packets[k].marker <=> k = Len(packets)

\* Packetize keeps the promise.
LEMMA PacketsCarry ==
  ASSUME NEW nals, AreUnits(nals)
  PROVE  Carry(Packetize(nals), nals, sequence)
<1> DEFINE packets == Packetize(nals)
           all == CutUp(nals)
           packet(k) == [number |-> (sequence + k - 1) % SequenceNumbers,
                         payload |-> all[k], marker |-> k = Len(all)]
<1>1. packets = [k \in DOMAIN all |-> packet(k)]
  BY DEF Packetize, CutUp
<1>2. PICK pieces, off : CutInto(nals, pieces, off, all)
  BY UnitsAreCut DEF AreUnits
<1>3. PICK m \in Nat : m = Len(all) /\ DOMAIN all = 1..m
  BY <1>2, LenProperties DEF CutInto
<1> HIDE DEF packets, all
<1>4. DOMAIN packets = 1..m /\ Len(packets) = m
  BY <1>1, <1>3
<1>5. \A k \in 1..m : /\ packets[k].payload = all[k]
                      /\ packets[k].number = (sequence + k - 1) % SequenceNumbers
                      /\ packets[k].marker <=> k = m
  BY <1>1, <1>3
<1>6. Len(packets) = Len(all) /\ \A k \in 1..Len(packets) : packets[k].payload = all[k]
  BY <1>3, <1>4, <1>5
<1>7. /\ Joined(packets) = nals
      /\ \A k \in 1..Len(packets) : Len(packets[k].payload) <= Room
  BY <1>6, JoinsBack DEF AreUnits, all
<1>8. Carry(packets, nals, sequence)
  BY <1>4, <1>5, <1>7 DEF Carry
<1> QED
  BY <1>8 DEF packets

-----------------------------------------------------------------------------
(* Parameter sets.                                                         *)

AreSets(s) ==
    \/ s = NoSets
    \/ /\ DOMAIN s = {"sps", "pps"}
       /\ s.sps \in Seq(Byte) /\ IsNal(s.sps) /\ s.pps \in Seq(Byte) /\ IsNal(s.pps)

\* The first unit of a type is one of the units.
LEMMA FirstIsUnit ==
  ASSUME NEW nals, AreUnits(nals), NEW type, HasType(nals, type)
  PROVE  FirstOf(nals, type) \in Seq(Byte) /\ IsNal(FirstOf(nals, type))
<1> DEFINE S == {i \in DOMAIN nals : NalType(nals[i]) = type}
<1>1. DOMAIN nals = 1..Len(nals) /\ Len(nals) \in Nat
  BY LenProperties DEF AreUnits
<1>2. S \in SUBSET Nat /\ S /= {} /\ S \subseteq 1..Len(nals)
  BY <1>1 DEF HasType
<1>3. FirstOf(nals, type) = nals[Min(S)]
  BY DEF FirstOf
<1> HIDE DEF S
<1>4. PICK i \in 1..Len(nals) : i = Min(S)
  BY <1>2, MinIs
<1>5. nals[i] \in Seq(Byte) /\ IsNal(nals[i])
  BY ElementOfSeq DEF AreUnits
<1> QED
  BY <1>3, <1>4, <1>5

\* What parameterSets finds are parameter sets, or none.
LEMMA ParameterSetsAre ==
  ASSUME NEW nals, AreUnits(nals)
  PROVE  AreSets(ParameterSets(nals))
<1>1. CASE HasType(nals, 7) /\ HasType(nals, 8)
  <2>1. ParameterSets(nals) = [sps |-> FirstOf(nals, 7), pps |-> FirstOf(nals, 8)]
    BY <1>1 DEF ParameterSets
  <2>2. FirstOf(nals, 7) \in Seq(Byte) /\ IsNal(FirstOf(nals, 7))
    BY <1>1, FirstIsUnit
  <2>3. FirstOf(nals, 8) \in Seq(Byte) /\ IsNal(FirstOf(nals, 8))
    BY <1>1, FirstIsUnit
  <2> QED
    BY <2>1, <2>2, <2>3 DEF AreSets
<1>2. CASE ~(HasType(nals, 7) /\ HasType(nals, 8))
  BY <1>2 DEF ParameterSets, AreSets
<1> QED
  BY <1>1, <1>2

\* A unit put before others.
LEMMA PrependUnit ==
  ASSUME NEW nals, AreUnits(nals), NEW nal \in Seq(Byte), IsNal(nal)
  PROVE  AreUnits(<<nal>> \o nals)
<1> DEFINE new == <<nal>> \o nals
           one == <<nal>>
<1>1. one \in Seq(Seq(Byte)) /\ Len(one) = 1 /\ one[1] = nal
  OBVIOUS
<1>2. nals \in Seq(Seq(Byte)) /\ Len(nals) \in Nat /\ \A i \in 1..Len(nals) : IsNal(nals[i])
  BY LenProperties DEF AreUnits
<1> HIDE DEF one
<1>3. Joins(Seq(Byte), one \o nals, one, nals)
  BY <1>1, <1>2, ConcatIs
<1>4. new = one \o nals
  BY DEF one
<1> HIDE DEF new
<1>5. /\ new \in Seq(Seq(Byte)) /\ Len(new) = 1 + Len(nals) /\ new[1] = nal
      /\ \A k \in 1..Len(nals) : new[1 + k] = nals[k]
  BY <1>1, <1>3, <1>4 DEF Joins
<1>6. ASSUME NEW i \in 1..Len(new) PROVE IsNal(new[i])
  <2>1. CASE i = 1
    BY <1>5, <2>1
  <2>2. CASE i /= 1
    <3>1. PICK k \in 1..Len(nals) : i = 1 + k
      <4>1. i - 1 \in 1..Len(nals) /\ i = 1 + (i - 1)
        BY <1>2, <1>5, <2>2
      <4> QED
        BY <4>1
    <3> QED
      BY <1>2, <1>5, <3>1
  <2> QED
    BY <2>1, <2>2
<1>7. AreUnits(new)
  BY <1>5, <1>6 DEF AreUnits
<1> QED
  BY <1>7 DEF new

LEMMA TwoAre ==
  ASSUME NEW S, NEW x \in S, NEW y \in S
  PROVE  <<x>> \o <<y>> = <<x, y>>
<1> DEFINE s == <<x>>
           t == <<y>>
           both == <<x, y>>
           joined == s \o t
<1>1. s \in Seq(S) /\ Len(s) = 1 /\ s[1] = x /\ t \in Seq(S) /\ Len(t) = 1 /\ t[1] = y
  OBVIOUS
<1>2. both \in Seq(S) /\ Len(both) = 2 /\ both[1] = x /\ both[2] = y
  OBVIOUS
<1> HIDE DEF s, t, both
<1>3. Joins(S, joined, s, t)
  BY <1>1, ConcatIs
<1> HIDE DEF joined
<1>4. joined \in Seq(S) /\ Len(joined) = 2 /\ joined[1] = x /\ joined[2] = y
  BY <1>1, <1>3 DEF Joins
<1>5. \A k \in 1..Len(joined) : joined[k] = both[k]
  BY <1>2, <1>4
<1>6. joined = both
  BY <1>2, <1>4, <1>5, SeqsEqual
<1> QED
  BY <1>6 DEF joined, both, s, t

\* AddMissingParameterSets gives what is meant.
LEMMA MissingAdded ==
  ASSUME NEW unit, AreUnits(unit), AreSets(sets), NEW key \in BOOLEAN
  PROVE  /\ AreUnits(Meant(unit, key))
         /\ (IF key THEN AddMissingParameterSets(unit) ELSE unit) = Meant(unit, key)
<1> DEFINE lacking == {type \in {7, 8} : key /\ sets /= NoSets /\ ~HasType(unit, type)}
<1>1. Meant(unit, key) = CASE lacking = {}     -> unit
                           [] lacking = {7}    -> <<sets.sps>> \o unit
                           [] lacking = {8}    -> <<sets.pps>> \o unit
                           [] lacking = {7, 8} -> <<sets.sps, sets.pps>> \o unit
  BY DEF Meant
<1>u. unit \in Seq(Seq(Byte)) /\ <<>> \o unit = unit
  BY ConcatEmptySeq DEF AreUnits
<1>2. CASE ~key \/ sets = NoSets
  <2>1. lacking = {}
    BY <1>2
  <2> HIDE DEF lacking
  <2>2. Meant(unit, key) = unit
    BY <1>1, <2>1
  <2>3. (IF key THEN AddMissingParameterSets(unit) ELSE unit) = unit
    BY <1>2 DEF AddMissingParameterSets
  <2> QED
    BY <2>2, <2>3
<1>3. CASE key /\ sets /= NoSets
  <2>1. sets.sps \in Seq(Byte) /\ IsNal(sets.sps) /\ sets.pps \in Seq(Byte) /\ IsNal(sets.pps)
    BY <1>3 DEF AreSets
  <2> DEFINE sps == sets.sps
             pps == sets.pps
             a == IF HasType(unit, 7) THEN <<>> ELSE <<sps>>
             b == IF HasType(unit, 8) THEN <<>> ELSE <<pps>>
             added == (a \o b) \o unit
  <2>2. (IF key THEN AddMissingParameterSets(unit) ELSE unit) = added
    BY <1>3 DEF AddMissingParameterSets
  <2>3. 7 \in lacking <=> ~HasType(unit, 7)
    BY <1>3
  <2>4. 8 \in lacking <=> ~HasType(unit, 8)
    BY <1>3
  <2>5. lacking \subseteq {7, 8}
    OBVIOUS
  <2> HIDE DEF lacking, sps, pps
  <2>6. sps \in Seq(Byte) /\ IsNal(sps) /\ pps \in Seq(Byte) /\ IsNal(pps)
    BY <2>1 DEF sps, pps
  <2>7. Meant(unit, key) = CASE lacking = {}     -> unit
                           [] lacking = {7}    -> <<sps>> \o unit
                           [] lacking = {8}    -> <<pps>> \o unit
                           [] lacking = {7, 8} -> <<sps, pps>> \o unit
    BY <1>1 DEF sps, pps
  <2>8. AreUnits(<<sps>> \o unit) /\ AreUnits(<<pps>> \o unit)
    BY <2>6, PrependUnit
  <2>9. AreUnits(<<sps>> \o (<<pps>> \o unit))
    BY <2>6, <2>8, PrependUnit
  <2>10. /\ <<>> \o (<<>> \o unit) = unit /\ <<sps>> \o (<<>> \o unit) = <<sps>> \o unit
         /\ <<>> \o (<<pps>> \o unit) = <<pps>> \o unit
    <3>1. <<pps>> \o unit \in Seq(Seq(Byte))
      BY <2>8 DEF AreUnits
    <3>2. <<>> \o (<<pps>> \o unit) = <<pps>> \o unit
      BY <3>1, ConcatEmptySeq
    <3> QED
      BY <1>u, <3>2
  <2>11. <<sps>> \o (<<pps>> \o unit) = <<sps, pps>> \o unit
    <3>1. <<sps>> \in Seq(Seq(Byte)) /\ <<pps>> \in Seq(Seq(Byte))
      BY <2>6
    <3>2. <<sps>> \o <<pps>> = <<sps, pps>>
      BY <2>6, TwoAre
    <3>3. (<<sps>> \o <<pps>>) \o unit = <<sps>> \o (<<pps>> \o unit)
      BY <1>u, <3>1, ConcatAssociative
    <3> QED
      BY <3>2, <3>3
  <2>12. a \in Seq(Seq(Byte)) /\ b \in Seq(Seq(Byte))
    BY <2>6
  <2>s. /\ {7} /= {} /\ {8} /= {} /\ {7, 8} /= {} /\ {7} /= {8}
        /\ {7} /= {7, 8} /\ {8} /= {7, 8}
    <3>1. 7 # 8
      OBVIOUS
    <3>2. 7 \in {7} /\ 7 \in {7, 8} /\ 8 \in {8} /\ 8 \in {7, 8} /\ 7 \notin {8} /\ 8 \notin {7}
      BY <3>1, Zenon
    <3> QED
      BY <3>2, Zenon
  <2>13. added = a \o (b \o unit)
    <3> HIDE DEF a, b
    <3> QED
      BY <1>u, <2>12, ConcatAssociative
  <2> HIDE DEF added
  <2>14. CASE HasType(unit, 7) /\ HasType(unit, 8)
    <3>1. lacking = {}
      BY <2>3, <2>4, <2>5, <2>14
    <3>2. Meant(unit, key) = unit
      BY <2>7, <2>s, <3>1
    <3>3. added = unit
      BY <2>10, <2>13, <2>14
    <3> QED
      BY <2>2, <3>2, <3>3
  <2>15. CASE ~HasType(unit, 7) /\ HasType(unit, 8)
    <3>1. lacking = {7}
      BY <2>3, <2>4, <2>5, <2>15
    <3>2. Meant(unit, key) = <<sps>> \o unit
      BY <2>7, <2>s, <3>1
    <3>3. added = <<sps>> \o unit
      BY <2>10, <2>13, <2>15
    <3> QED
      BY <2>2, <2>8, <3>2, <3>3
  <2>16. CASE HasType(unit, 7) /\ ~HasType(unit, 8)
    <3>1. lacking = {8}
      BY <2>3, <2>4, <2>5, <2>16
    <3>2. Meant(unit, key) = <<pps>> \o unit
      BY <2>7, <2>s, <3>1
    <3>3. added = <<pps>> \o unit
      BY <2>10, <2>13, <2>16
    <3> QED
      BY <2>2, <2>8, <3>2, <3>3
  <2>17. CASE ~HasType(unit, 7) /\ ~HasType(unit, 8)
    <3>1. lacking = {7, 8}
      BY <2>3, <2>4, <2>5, <2>17
    <3>2. Meant(unit, key) = <<sps, pps>> \o unit
      BY <2>7, <2>s, <3>1
    <3>3. added = <<sps, pps>> \o unit
      BY <2>11, <2>13, <2>17
    <3> QED
      BY <2>2, <2>9, <2>11, <3>2, <3>3
  <2> QED
    BY <2>14, <2>15, <2>16, <2>17
<1> QED
  BY <1>2, <1>3

-----------------------------------------------------------------------------
(* The invariant of the packetizer.                                        *)

RtpInv == RtpTypeOK /\ AreSets(sets) /\ UnitsArriveWhole

\* The parameter sets of the encoder are units.
LEMMA FormatUnits ==
    /\ SPS \in Seq(Byte) /\ IsNal(SPS) /\ PPS \in Seq(Byte) /\ IsNal(PPS)
    /\ AreUnits(<<SPS>>) /\ AreUnits(<<PPS>>) /\ AreUnits(<<SPS, PPS>>)
<1>1. 103 \in 0..255 /\ 104 \in 0..255 /\ 1 \in 0..255 /\ 3 \in 0..255
  OBVIOUS
<1>2. SPS \in Seq(0..255) /\ Len(SPS) = 2 /\ SPS[1] = 103 /\ SPS[2] = 1
  BY <1>1 DEF SPS
<1>3. PPS \in Seq(0..255) /\ Len(PPS) = 2 /\ PPS[1] = 104 /\ PPS[2] = 3
  BY <1>1 DEF PPS
<1>4. 103 % 32 \in 1..23 /\ 104 % 32 \in 1..23 /\ 2 < 256 * 256 * 256 /\ 1..(2 - 2) = {}
  OBVIOUS
<1>5. IsNal(SPS)
  BY <1>2, <1>4 DEF IsNal, NalType
<1>6. IsNal(PPS)
  BY <1>3, <1>4 DEF IsNal, NalType
<1>7. SPS \in Seq(Byte) /\ PPS \in Seq(Byte)
  BY <1>2, <1>3 DEF Byte
<1>8. ASSUME NEW x \in Seq(Byte), IsNal(x) PROVE AreUnits(<<x>>)
  <2> DEFINE one == <<x>>
  <2>1. one \in Seq(Seq(Byte)) /\ Len(one) = 1 /\ one[1] = x
    OBVIOUS
  <2> HIDE DEF one
  <2>2. AreUnits(one)
    BY <1>8, <2>1 DEF AreUnits
  <2> QED
    BY <2>2 DEF one
<1>9. AreUnits(<<SPS, PPS>>)
  <2>1. AreUnits(<<SPS>> \o <<PPS>>)
    BY <1>5, <1>6, <1>7, <1>8, PrependUnit
  <2> QED
    BY <1>7, <2>1, TwoAre
<1> QED
  BY <1>5, <1>6, <1>7, <1>8, <1>9

LEMMA SplitGives ==
  ASSUME NEW unit, AreUnits(unit), unit /= <<>>, NEW framing \in FramingsOf(unit),
         framing = "length" => FindStartCode(Framed(unit, framing), 1) = 0
  PROVE  Split(Framed(unit, framing)) = unit
BY FramedSplits DEF AreUnits

\* Of no packets, a receiver has no unit.
LEMMA NothingJoins == Joined(<<>>) = <<>>
<1> DEFINE none == <<>>
<1>1. Len(none) = 0 /\ Len(none) \in Nat /\ \A k \in 1..Len(none) : Joinable(none[k].payload)
  OBVIOUS
<1> HIDE DEF none
<1>2. PICK f : f = JoinBody(none, f) /\ Joined(none) = f[Len(none)]
  BY <1>1, JoinRecurs
<1>3. f[0] = <<>>
  <2> DEFINE rhs == [k \in 0..Len(none) |-> IF k = 0 THEN <<>> ELSE JoinStep(none[k].payload, f[k - 1])]
  <2>1. f = rhs
    BY <1>2 DEF JoinBody
  <2>2. rhs[0] = <<>>
    BY <1>1
  <2> HIDE DEF rhs
  <2> QED
    BY <2>1, <2>2
<1> QED
  BY <1>1, <1>2, <1>3 DEF none

LEMMA FormatAnnouncedInv ==
  ASSUME RtpInv, NEW csd \in BOOLEAN, FormatAnnounced(csd)
  PROVE  RtpInv'
<1> DEFINE one == Split(Framed(<<SPS>>, "annexb"))[1]
           two == Split(Framed(<<PPS>>, "annexb"))[1]
<1>1. one = SPS /\ two = PPS
  <2>1. "annexb" \in FramingsOf(<<SPS>>) /\ "annexb" \in FramingsOf(<<PPS>>)
    BY DEF FramingsOf
  <2>2. <<SPS>> /= <<>> /\ <<PPS>> /= <<>> /\ <<SPS>>[1] = SPS /\ <<PPS>>[1] = PPS
    OBVIOUS
  <2>3. Split(Framed(<<SPS>>, "annexb")) = <<SPS>>
    BY <2>1, <2>2, FormatUnits, SplitGives
  <2>4. Split(Framed(<<PPS>>, "annexb")) = <<PPS>>
    BY <2>1, <2>2, FormatUnits, SplitGives
  <2> QED
    BY <2>2, <2>3, <2>4
<1>2. AreSets(ParameterSets(<<SPS, PPS>>))
  BY FormatUnits, ParameterSetsAre
<1>3. /\ written' = TRUE /\ sets' = IF csd THEN ParameterSets(<<one, two>>) ELSE sets
      /\ UNCHANGED <<serving, sequence, sent>>
  BY DEF FormatAnnounced
<1> HIDE DEF one, two
<1>4. AreSets(sets')
  BY <1>1, <1>2, <1>3 DEF RtpInv
<1> QED
  BY <1>3, <1>4 DEF RtpInv, RtpTypeOK, AreSets, UnitsArriveWhole

LEMMA ServerStartsInv ==
  ASSUME RtpInv, ServerStarts
  PROVE  RtpInv'
BY DEF ServerStarts, RtpInv, RtpTypeOK, AreSets, UnitsArriveWhole

LEMMA ConfigBufferInv ==
  ASSUME RtpInv, NEW framing \in {"annexb", "long annexb"}, ConfigBuffer(framing)
  PROVE  RtpInv'
<1> DEFINE found == ParameterSets(Split(Framed(<<SPS, PPS>>, framing)))
<1>1. Split(Framed(<<SPS, PPS>>, framing)) = <<SPS, PPS>>
  <2>1. framing \in FramingsOf(<<SPS, PPS>>) /\ framing /= "length" /\ <<SPS, PPS>> /= <<>>
    BY DEF FramingsOf
  <2> QED
    BY <2>1, FormatUnits, SplitGives
<1>2. AreSets(found)
  BY <1>1, FormatUnits, ParameterSetsAre
<1>3. sets' = (IF found = NoSets THEN sets ELSE found) /\ UNCHANGED <<written, serving, sequence, sent>>
  BY DEF ConfigBuffer
<1> HIDE DEF found
<1>4. AreSets(sets')
  BY <1>2, <1>3 DEF RtpInv
<1> QED
  BY <1>3, <1>4 DEF RtpInv, RtpTypeOK, AreSets, UnitsArriveWhole

LEMMA DeliveredInv ==
  ASSUME RtpInv, Delivered
  PROVE  RtpInv'
<1>1. sent' = Nothing /\ UNCHANGED <<written, serving, sets, sequence>>
  BY DEF Delivered
<1>2. UnitsArriveWhole'
  <2>1. sent'.meant = <<>> /\ sent'.packets = <<>> /\ DOMAIN sent'.packets = {}
    BY <1>1 DEF Nothing
  <2> QED
    BY <1>1, <2>1, NothingJoins DEF UnitsArriveWhole
<1> QED
  BY <1>1, <1>2 DEF RtpInv, RtpTypeOK, AreSets

LEMMA AccessUnitInv ==
  ASSUME RtpInv, NEW unit \in AccessUnits, NEW framing \in FramingsOf(unit), NEW flagged \in BOOLEAN,
         AccessUnit(unit, framing, flagged)
  PROVE  RtpInv'
<1> DEFINE data == Framed(unit, framing)
           nals == Split(data)
           key == flagged \/ HasType(unit, 5)
           found == ParameterSets(unit)
           packets == Packetize(Meant(unit, key))
<1>1. AreUnits(unit) /\ unit /= <<>>
  <2>1. unit \in Seq(Seq(0..255)) /\ unit /= <<>> /\ \A i \in DOMAIN unit : IsNal(unit[i])
    BY EncoderAssumption
  <2>2. DOMAIN unit = 1..Len(unit)
    BY <2>1, LenProperties
  <2> QED
    BY <2>1, <2>2 DEF AreUnits, Byte
<1>2. nals = unit
  BY <1>1, SplitGives DEF AccessUnit
<1>3. AreSets(sets) /\ key \in BOOLEAN
  BY DEF RtpInv, HasType
<1>4. AreUnits(Meant(unit, key)) /\ (IF key THEN AddMissingParameterSets(unit) ELSE unit) = Meant(unit, key)
  BY <1>1, <1>3, MissingAdded
<1>5. /\ sets' = (IF found = NoSets THEN sets ELSE found)
      /\ sent' = [meant |-> Meant(unit, key), packets |-> packets, first |-> sequence]
      /\ sequence' = (sequence + Len(packets)) % SequenceNumbers
      /\ UNCHANGED <<written, serving>>
  BY <1>2, <1>4 DEF AccessUnit
<1>6. Carry(packets, Meant(unit, key), sequence)
  BY <1>4, PacketsCarry
<1>7. AreSets(sets')
  BY <1>1, <1>3, <1>5, ParameterSetsAre
<1> DEFINE meant == Meant(unit, key)
<1>8. /\ sent'.meant = meant /\ sent'.packets = packets /\ sent'.first = sequence
  BY <1>5
<1> HIDE DEF packets, meant
<1>9. UnitsArriveWhole'
  BY <1>5, <1>6, <1>8 DEF UnitsArriveWhole, Carry, meant
<1>10. sequence' \in 0..(SequenceNumbers - 1)
  <2>1. Len(packets) \in Nat /\ sequence \in Nat /\ SequenceNumbers \in Nat /\ SequenceNumbers > 0
    BY <1>6, RtpAssumption DEF Carry, RtpInv, RtpTypeOK
  <2> DEFINE n == sequence + Len(packets)
  <2>2. n \in Nat
    BY <2>1
  <2> HIDE DEF n
  <2>3. n % SequenceNumbers \in 0..(SequenceNumbers - 1)
    BY <2>1, <2>2
  <2> QED
    BY <1>5, <2>3 DEF n
<1> QED
  BY <1>5, <1>7, <1>9, <1>10 DEF RtpInv, RtpTypeOK, AreSets

LEMMA RtpInitInv ==
  ASSUME RtpInit
  PROVE  RtpInv
<1>1. sent.meant = <<>> /\ sent.packets = <<>> /\ DOMAIN sent.packets = {} /\ sent = Nothing
  BY DEF RtpInit, Nothing
<1>2. UnitsArriveWhole
  BY <1>1, NothingJoins DEF UnitsArriveWhole
<1> QED
  BY <1>2 DEF RtpInit, RtpInv, RtpTypeOK, AreSets

LEMMA RtpNextInv ==
  ASSUME RtpInv, [RtpNext]_rtpVars
  PROVE  RtpInv'
<1>1. ASSUME NEW csd \in BOOLEAN, FormatAnnounced(csd) PROVE RtpInv'
  BY <1>1, FormatAnnouncedInv
<1>2. CASE ServerStarts \/ Delivered
  BY <1>2, ServerStartsInv, DeliveredInv
<1>3. ASSUME NEW framing \in {"annexb", "long annexb"}, ConfigBuffer(framing) PROVE RtpInv'
  BY <1>3, ConfigBufferInv
<1>4. ASSUME NEW unit \in AccessUnits, NEW framing \in FramingsOf(unit),
             NEW flagged \in IF HasType(unit, 5) THEN BOOLEAN ELSE {FALSE}, AccessUnit(unit, framing, flagged)
      PROVE  RtpInv'
  BY <1>4, AccessUnitInv
<1>5. CASE UNCHANGED rtpVars
  BY <1>5 DEF rtpVars, RtpInv, RtpTypeOK, AreSets, UnitsArriveWhole
<1> QED
  BY <1>1, <1>2, <1>3, <1>4, <1>5 DEF RtpNext

-----------------------------------------------------------------------------
(* The Android parts together.                                             *)

AndroidInv == ServiceInv /\ RtspInv /\ RtpInv

LEMMA AndroidInitInv ==
  ASSUME AndroidInit
  PROVE  AndroidInv
<1>1. RtspInv /\ RtpInv
  BY RtspInit_Inv, RtpInitInv DEF AndroidInit
<1>2. CASE part = "service"
  BY <1>1, <1>2, ServiceInitInv DEF AndroidInit, AndroidInv
<1>3. CASE part /= "service"
  <2>1. svc = Created /\ lan = None /\ news = "none" /\ destroyed = FALSE /\ intent = "off"
    BY <1>3 DEF AndroidInit
  <2>2. Settled(svc) /\ ~svc.requested
    BY <2>1, CreatedSettles DEF Created
  <2> QED
    BY <1>1, <2>1, <2>2 DEF AndroidInv, ServiceInv, StopIsObeyed, Intents, News
<1> QED
  BY <1>2, <1>3

LEMMA AndroidNextInv ==
  ASSUME AndroidInv, [AndroidNext]_androidVars
  PROVE  AndroidInv'
<1>1. [Next]_vars /\ [RtspNext]_rtspVars /\ [RtpNext]_rtpVars
  BY DEF AndroidNext, androidVars
<1> QED
  BY <1>1, ServiceNextInv, RtspNext_Inv, RtpNextInv DEF AndroidInv

\* The service, the queues of a server and the packetizer keep their invariants
\* whichever of them a behaviour is about.
THEOREM AndroidAgrees == AndroidSpec => []AndroidInv
<1>1. AndroidInit => AndroidInv
  BY AndroidInitInv
<1>2. AndroidInv /\ [AndroidNext]_androidVars => AndroidInv'
  BY AndroidNextInv
<1> QED
  BY <1>1, <1>2, PTL DEF AndroidSpec

\* The variables of the Android parts keep their types and bounds: the retries of
\* the service, the queues and byte counts of the server, the sequence numbers of
\* the packetizer.
THEOREM AndroidTyped == AndroidSpec => []AndroidTypeOK
<1>1. AndroidInv => AndroidTypeOK
  BY ServiceTypes, RtspTypes DEF AndroidInv, RtpInv, AndroidTypeOK
<1> QED
  BY <1>1, AndroidAgrees, PTL

\* What a receiver joins from the packets of an access unit is what the encoder
\* wrote, whatever its framing, with the parameter sets a key frame lacked; no
\* packet exceeds its room, and the numbers run on through their wrap-around
\* (H264NalParser, StreamBroadcaster, RtpPacketizer).
THEOREM UnitsAlwaysArriveWhole == AndroidSpec => []UnitsArriveWhole
<1>1. AndroidInv => UnitsArriveWhole
  BY DEF AndroidInv, RtpInv
<1> QED
  BY <1>1, AndroidAgrees, PTL

=============================================================================
