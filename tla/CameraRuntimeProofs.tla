-------------------------- MODULE CameraRuntimeProofs --------------------------
(***************************************************************************)
(* Proofs about one camera's runtime and its tracking: whatever frames,    *)
(* reconnects, failures, stops and restarts come, the tracker, the state   *)
(* machine, the confirmer and the orchestrator agree (TrackingAgrees), no  *)
(* name leaves the temporal gate without MinConfirmations recognitions in  *)
(* a row (IdentityIsConfirmed), and no frame is looked at with what was    *)
(* known before a reconnect (ReconnectNoticedFirst).                       *)
(*                                                                         *)
(* The first part proves what each operator of CameraTracking does to a    *)
(* pipeline that is sound (Sound); the second is the inductive invariant   *)
(* RuntimeInv of the threads.                                              *)
(***************************************************************************)
EXTENDS CameraRuntime, FiniteSetTheorems, WellFoundedInduction, TLAPS

Results == Keys \cup {None}

TrackRecord == [missed: Nat, session: Nat]
Evidence == [key: Keys, count: Nat]
BaseResult == [faces: BOOLEAN, key: Results]

\* The functions from some track ids to S.
TrackFcns(S) == UNION {[D -> S] : D \in SUBSET Nat}

Pipes == [tracks: TrackFcns(TrackRecord), next: Nat \ {0}, active: SUBSET Nat,
          state: DOMAIN AllowedTransitions, analysis: Nat \cup {None}, confirmer: BOOLEAN,
          evidence: TrackFcns(Evidence), latest: (SUBSET Nat) \cup {None}, raised: BOOLEAN]
Orchs == [base: TrackFcns(BaseResult), final: TrackFcns(Keys)]

\* Between two methods: the machine knows the tracker's tracks, scans exactly
\* when there are none, looks at the face of a track that is there, and never
\* rests in PERSON_DETECTED or COOLDOWN; the confirmer's tracks are there; ids are used once.
Sound(p) ==
    /\ p \in Pipes
    /\ p.active = DOMAIN p.tracks
    /\ p.state = "PERSON_SCAN" <=> p.active = {}
    /\ p.state \notin {"PERSON_DETECTED", "COOLDOWN"}
    /\ p.state \in Settled => p.analysis \in p.active
    /\ DOMAIN p.evidence \subseteq p.active
    /\ p.active \subseteq 1 .. (p.next - 1)

-----------------------------------------------------------------------------
(* The inductive invariant.                                                *)

Workers == [state: {"stopped", "running", "reconnecting", "stopping", "failed"},
            alive: BOOLEAN, count: Nat]
Samplers == [alive: BOOLEAN, out: Nat \cup {None}]
Nodes == [stop: BOOLEAN, pc: {"dead", "get", "check", "motion", "detect", "faces", "error"},
          packet: Nat \cup {None}, count: Nat, todo: SUBSET Nat]
Motions == [prev: Nat \cup {None}, warm: 0 .. WarmUp]

RuntimeTypes ==
    /\ config \in [motion: BOOLEAN, faces: BOOLEAN, reconnects: Nat]
    /\ worker \in Workers
    /\ sampler \in Samplers
    /\ node \in Nodes
    /\ motion \in Motions
    /\ orch \in Orchs
    /\ recent \in TrackFcns(Seq(Keys))

\* The pipeline is sound whenever a thread may look at it.
PipeInv ==
    /\ Sound(pipe)
    /\ pipe.raised => node.pc = "error"

\* The orchestrator knows only tracks whose ids were given out, and once it
\* starts on a sample only those that are there.
OrchInv ==
    /\ DOMAIN orch.final \subseteq DOMAIN orch.base
    /\ DOMAIN orch.base \subseteq 1 .. (pipe.next - 1)
    /\ DOMAIN recent \subseteq pipe.active
    /\ pipe.confirmer = config.faces
    /\ ~config.faces => orch = NewOrchestrator
    /\ node.pc = "faces" =>
         /\ node.todo \subseteq pipe.active
         /\ ~config.faces => node.todo = {}
         /\ pipe.active /= {} => DOMAIN orch.base \subseteq pipe.active

\* k recognitions of key in a row, the last first.
Streak(s, k, key) == k <= Len(s) /\ \A i \in 1 .. k : s[i] = key

\* The evidence of a track counts the last recognitions; a name, and the
\* machine's KNOWN, rest on enough of them.
StreakInv ==
    /\ \A t \in DOMAIN recent : Len(recent[t]) <= MinConfirmations
    /\ \A t \in DOMAIN pipe.evidence :
         /\ t \in DOMAIN recent
         /\ Streak(recent[t], pipe.evidence[t].count, pipe.evidence[t].key)
    /\ \A t \in DOMAIN orch.final \cap pipe.active : orch.final[t] \in People =>
         t \in DOMAIN recent /\ Streak(recent[t], MinConfirmations, orch.final[t])
    /\ pipe.state = "KNOWN" => \E who \in People :
         /\ pipe.analysis \in DOMAIN recent
         /\ Streak(recent[pipe.analysis], MinConfirmations, who)

\* Packets, counts and tracks of one session.
SessionInv ==
    /\ sampler.out /= None => sampler.out <= worker.count
    /\ node.pc \in {"check", "motion", "detect", "faces"} => node.packet \in Nat
    /\ node.pc = "check" => node.packet <= worker.count
    /\ node.pc \in {"motion", "detect", "faces"} => node.packet <= node.count
    /\ \A t \in DOMAIN pipe.tracks : pipe.tracks[t].session = node.count

RuntimeInv == RuntimeTypes /\ PipeInv /\ OrchInv /\ StreakInv /\ SessionInv

-----------------------------------------------------------------------------
(* Functions of the tracks.                                                *)

\* TrackFcns(S) are the functions to S whose arguments are track ids.
LEMMA TrackFcnType ==
    ASSUME NEW S, NEW f
    PROVE  f \in TrackFcns(S) <=> DOMAIN f \subseteq Nat /\ f \in [DOMAIN f -> S]
BY DEF TrackFcns

\* Without(f, X) is f on what is left of its domain.
LEMMA WithoutFacts ==
    ASSUME NEW S, NEW f \in TrackFcns(S), NEW X
    PROVE  /\ Without(f, X) \in TrackFcns(S)
           /\ DOMAIN Without(f, X) = DOMAIN f \ X
           /\ \A t \in DOMAIN f \ X : Without(f, X)[t] = f[t]
<1>1. DOMAIN f \subseteq Nat /\ f \in [DOMAIN f -> S]
  BY TrackFcnType
<1>2. Without(f, X) \in [DOMAIN f \ X -> S]
  BY <1>1 DEF Without, Restrict
<1>3. QED
  BY <1>1, <1>2, TrackFcnType DEF Without, Restrict

\* Put(f, k, v) is f but for k.
LEMMA PutFacts ==
    ASSUME NEW S, NEW f \in TrackFcns(S), NEW k \in Nat, NEW v \in S
    PROVE  /\ Put(f, k, v) \in TrackFcns(S)
           /\ DOMAIN Put(f, k, v) = DOMAIN f \cup {k}
           /\ Put(f, k, v)[k] = v
           /\ \A t \in DOMAIN f \ {k} : Put(f, k, v)[t] = f[t]
<1>1. DOMAIN f \subseteq Nat /\ f \in [DOMAIN f -> S]
  BY TrackFcnType
<1>2. Put(f, k, v) \in [DOMAIN f \cup {k} -> S]
  BY <1>1 DEF Put
<1>3. QED
  BY <1>1, <1>2, TrackFcnType DEF Put

\* The function without arguments is a function of the tracks.
LEMMA EmptyFacts ==
    ASSUME NEW S
    PROVE  EmptyFcn \in TrackFcns(S) /\ DOMAIN EmptyFcn = {}
<1>1. DOMAIN EmptyFcn = {} /\ EmptyFcn \in [{} -> S]
  BY DEF EmptyFcn
<1>2. QED
  BY <1>1, TrackFcnType

-----------------------------------------------------------------------------
(* The methods of the pipeline.                                            *)

\* _transition between two states keeps everything but the state, and raises
\* only when the state machine does not know the transition.
LEMMA MoveFacts ==
    ASSUME NEW p \in Pipes, NEW target \in DOMAIN AllowedTransitions
    PROVE  /\ Move(p, target) \in Pipes
           /\ Move(p, target) = [p EXCEPT !.state = Move(p, target).state,
                                          !.raised = Move(p, target).raised]
           /\ ~p.raised /\ (target = p.state \/ target \in AllowedTransitions[p.state]) =>
                Move(p, target) = [p EXCEPT !.state = target]
<1>1. CASE p.raised \/ target = p.state
  BY <1>1 DEF Move, Pipes
<1>2. CASE ~(p.raised \/ target = p.state) /\ target \in AllowedTransitions[p.state]
  BY <1>2 DEF Move, Pipes
<1>3. CASE ~(p.raised \/ target = p.state) /\ target \notin AllowedTransitions[p.state]
  BY <1>3 DEF Move, Pipes
<1>4. QED
  BY <1>1, <1>2, <1>3

\* The empty pipeline of a reset is sound and has no tracks; ids go on.
LEMMA ResetFacts ==
    ASSUME NEW p, Sound(p)
    PROVE  /\ Sound(PipelineReset(p))
           /\ PipelineReset(p).active = {} /\ PipelineReset(p).state = "PERSON_SCAN"
           /\ DOMAIN PipelineReset(p).tracks = {} /\ DOMAIN PipelineReset(p).evidence = {}
           /\ PipelineReset(p).raised = p.raised
           /\ PipelineReset(p).next = p.next
           /\ PipelineReset(p).confirmer = p.confirmer
<1> DEFINE e == Without(p.evidence, p.active)
           q == PipelineReset(p)
<1>1. p \in Pipes
  BY DEF Sound
<1>2. e \in TrackFcns(Evidence) /\ DOMAIN e = {}
  <2>1. p.evidence \in TrackFcns(Evidence) /\ DOMAIN p.evidence \subseteq p.active
    BY <1>1 DEF Sound, Pipes
  <2>2. e \in TrackFcns(Evidence)
    BY <2>1, WithoutFacts, Zenon
  <2>3. DOMAIN e = {}
    BY <2>1 DEF Without, Restrict
  <2>4. QED
    BY <2>2, <2>3
<1>3. q = [p EXCEPT !.evidence = e, !.tracks = EmptyFcn, !.latest = None,
                     !.active = {}, !.analysis = None, !.state = "PERSON_SCAN"]
  BY DEF PipelineReset
<1> HIDE DEF e, q
<1>4. EmptyFcn \in TrackFcns(TrackRecord) /\ DOMAIN EmptyFcn = {}
  BY EmptyFacts
<1>5. "PERSON_SCAN" \in DOMAIN AllowedTransitions /\ "PERSON_SCAN" \notin Settled
  BY DEF AllowedTransitions, Settled
<1>6. q \in Pipes /\ q.evidence = e /\ q.tracks = EmptyFcn /\ q.active = {}
      /\ q.state = "PERSON_SCAN" /\ q.raised = p.raised /\ q.next = p.next
      /\ q.confirmer = p.confirmer
  BY <1>1, <1>2, <1>3, <1>4, <1>5 DEF Pipes
<1>7. Sound(q)
  BY <1>2, <1>4, <1>5, <1>6 DEF Sound
<1>8. QED
  BY <1>2, <1>4, <1>6, <1>7 DEF q

\* What an update u leaves of the tracks: the lost ones go, new ones come under
\* ids never used before, and the sessions of all are s if they were.
Tracked(tracks, next, s, u) ==
    /\ u.tracks \in TrackFcns(TrackRecord)
    /\ u.next \in Nat \ {0} /\ next <= u.next
    /\ u.lost \subseteq DOMAIN tracks
    /\ u.new \cap 1 .. (next - 1) = {}
    /\ DOMAIN u.tracks = (DOMAIN tracks \ u.lost) \cup u.new
    /\ DOMAIN u.tracks \subseteq 1 .. (u.next - 1)
    /\ (\A t \in DOMAIN tracks : tracks[t].session = s) =>
         \A t \in DOMAIN u.tracks : u.tracks[t].session = s

\* update() of the tracker does that, whatever the frame matches.
LEMMA TrackerFacts ==
    ASSUME NEW tracks \in TrackFcns(TrackRecord), NEW next \in Nat \ {0},
           DOMAIN tracks \subseteq 1 .. (next - 1),
           NEW matched \in SUBSET DOMAIN tracks, NEW n \in Nat, Cardinality(matched) <= n,
           NEW s \in Nat
    PROVE  Tracked(tracks, next, s, TrackerUpdate(tracks, next, matched, n, s))
<1> DEFINE card == Cardinality(matched)
           lost == {t \in DOMAIN tracks \ matched : tracks[t].missed >= MaxMissed}
           k    == next + n - card
           new  == next .. (next + n - card - 1)
           all  == (DOMAIN tracks \ lost) \cup new
           u    == TrackerUpdate(tracks, next, matched, n, s)
<1>1. card \in Nat
  <2>1. IsFiniteSet(1 .. (next - 1))
    BY FS_Interval
  <2>2. matched \in SUBSET (1 .. (next - 1))
    OBVIOUS
  <2>3. IsFiniteSet(matched)
    BY <2>1, <2>2, FS_Subset
  <2>4. QED
    BY <2>3, FS_CardinalityType
<1>c. card <= n
  OBVIOUS
<1>2. DOMAIN tracks \subseteq Nat /\ tracks \in [DOMAIN tracks -> TrackRecord]
  BY TrackFcnType
<1>3. /\ u.next = k /\ u.new = new /\ u.lost = lost
      /\ u.tracks = [t \in all |-> IF t \in new THEN [missed |-> 0, session |-> s]
                        ELSE [tracks[t] EXCEPT !.missed = IF t \in matched THEN 0 ELSE @ + 1]]
  BY DEF TrackerUpdate
<1> HIDE DEF u
<1>4. k \in Nat \ {0} /\ next <= k
  <2> HIDE DEF card
  <2>1. QED
    BY <1>1, <1>c
<1>5. new \cap 1 .. (next - 1) = {} /\ all \subseteq 1 .. (k - 1)
  <2> HIDE DEF card
  <2>1. QED
    BY <1>1, <1>c
<1>6. \A t \in all \ new : t \in DOMAIN tracks /\ tracks[t] \in TrackRecord
  BY <1>2
<1>7. u.tracks \in [all -> TrackRecord]
  <2>1. SUFFICES ASSUME NEW t \in all PROVE u.tracks[t] \in TrackRecord
    BY <1>3
  <2>2. CASE t \in new
    BY <1>3, <2>2 DEF TrackRecord
  <2>3. CASE t \notin new
    <3>1. u.tracks[t] = [tracks[t] EXCEPT !.missed = IF t \in matched THEN 0 ELSE @ + 1]
      BY <1>3, <2>3
    <3>2. tracks[t] \in TrackRecord
      BY <1>6, <2>3
    <3>3. QED
      BY <3>1, <3>2 DEF TrackRecord
  <2>4. QED
    BY <2>2, <2>3
<1>8. u.tracks \in TrackFcns(TrackRecord) /\ DOMAIN u.tracks = all
  <2>1. DOMAIN u.tracks = all
    BY <1>3
  <2>2. all \subseteq Nat
    BY <1>2, <1>5, <1>4
  <2>3. QED
    BY <2>1, <2>2, <1>7, TrackFcnType
<1>9. ASSUME \A t \in DOMAIN tracks : tracks[t].session = s, NEW t \in all
      PROVE  u.tracks[t].session = s
  <2>1. CASE t \in new
    BY <1>3, <2>1
  <2>2. CASE t \notin new
    <3>1. u.tracks[t] = [tracks[t] EXCEPT !.missed = IF t \in matched THEN 0 ELSE @ + 1]
      BY <1>3, <2>2
    <3>2. tracks[t] \in TrackRecord /\ tracks[t].session = s
      BY <1>6, <1>9, <2>2
    <3>3. QED
      BY <3>1, <3>2 DEF TrackRecord
  <2>3. QED
    BY <2>1, <2>2
<1>10. lost \subseteq DOMAIN tracks /\ all = (DOMAIN tracks \ lost) \cup new
  OBVIOUS
<1> HIDE DEF card, k, lost, new, all
<1>11. /\ u.next \in Nat \ {0} /\ next <= u.next
       /\ u.lost \subseteq DOMAIN tracks /\ u.new \cap 1 .. (next - 1) = {}
  BY <1>3, <1>4, <1>5, <1>10
<1>12. /\ DOMAIN u.tracks = (DOMAIN tracks \ u.lost) \cup u.new
       /\ DOMAIN u.tracks \subseteq 1 .. (u.next - 1)
  <2>1. all \subseteq 1 .. (u.next - 1)
    BY <1>3, <1>5
  <2>2. QED
    BY <1>3, <1>8, <1>10, <2>1
<1>13. QED
  BY <1>8, <1>9, <1>11, <1>12 DEF Tracked, u

\* observe() of the state machine, for a pipeline whose tracks have just been
\* updated: the machine takes a transition it knows, and rests in a state that
\* fits the tracks.
LEMMA ObserveFacts ==
    ASSUME NEW p \in Pipes, NEW u, ~p.raised,
           u.lost \subseteq p.active, u.new \subseteq Nat, p.tracks = u.tracks,
           DOMAIN u.tracks = (p.active \ u.lost) \cup u.new,
           p.state = "PERSON_SCAN" <=> p.active = {},
           p.state /= "PERSON_DETECTED",
           p.state \in Settled => p.analysis \in p.active
    PROVE  \E st \in DOMAIN AllowedTransitions, an \in Nat \cup {None} :
             /\ Observe(p, u) = [p EXCEPT !.active = DOMAIN u.tracks, !.analysis = an, !.state = st]
             /\ st = "PERSON_SCAN" <=> DOMAIN u.tracks = {}
             /\ st /= "PERSON_DETECTED"
             /\ st \in Settled => an \in DOMAIN u.tracks
             /\ st \in Settled => st = p.state /\ an = p.analysis
<1> DEFINE act == DOMAIN u.tracks
           a == IF p.analysis \in u.lost THEN None ELSE p.analysis
           q == [p EXCEPT !.active = act, !.analysis = a]
<1>1. act \subseteq Nat
  BY DEF Pipes
<1>2. a \in Nat \cup {None}
  BY DEF Pipes
<1>3. q \in Pipes /\ q.active = act /\ q.analysis = a /\ q.state = p.state /\ ~q.raised
  <2> HIDE DEF act, a
  <2>1. QED
    BY <1>1, <1>2 DEF Pipes
<1>4. Observe(p, u) =
        CASE p.state \in Settled -> AnalysisClosed(q)
          [] p.state \notin Settled /\ act = {} -> Move(q, "PERSON_SCAN")
          [] p.state \notin Settled /\ act /= {} ->
               Move(IF u.new /= {} THEN Move(q, "PERSON_DETECTED") ELSE q, "TRACKING")
  BY <1>3 DEF Observe
<1>5. p.state \in DOMAIN AllowedTransitions
  BY DEF Pipes
<1>6. CASE p.state \in Settled
  <2>1. Observe(p, u) = AnalysisClosed(q)
    BY <1>4, <1>6
  <2>2. CASE a \in act
    <3>1. Observe(p, u) = q
      BY <1>3, <2>1, <2>2 DEF AnalysisClosed
    <3>2. p.analysis \in p.active /\ p.state /= "PERSON_SCAN"
      BY <1>6 DEF Settled
    <3>3. q = [p EXCEPT !.active = act, !.analysis = a, !.state = p.state]
      BY <1>2, <1>3 DEF Pipes
    <3>4. a = p.analysis
      BY <1>1, <2>2, PeopleAssumption
    <3>5. QED
      BY <1>2, <1>5, <2>2, <3>1, <3>2, <3>3, <3>4
  <2>3. CASE a \notin act
    <3> DEFINE st == IF act = {} THEN "PERSON_SCAN" ELSE "TRACKING"
               r == [q EXCEPT !.analysis = None]
    <3>1. Observe(p, u) = Move(r, st)
      BY <1>3, <2>1, <2>3 DEF AnalysisClosed
    <3>2. r \in Pipes /\ r.state = p.state /\ ~r.raised
      BY <1>3 DEF Pipes
    <3>3. st \in DOMAIN AllowedTransitions /\ st \in AllowedTransitions[p.state]
      BY <1>6 DEF Settled, AllowedTransitions
    <3>4. Move(r, st) = [r EXCEPT !.state = st]
      <4> HIDE DEF r, st
      <4>1. QED
        BY <3>2, <3>3, MoveFacts
    <3>5. [r EXCEPT !.state = st] = [p EXCEPT !.active = act, !.analysis = None, !.state = st]
      BY DEF Pipes
    <3>6. st \notin Settled /\ st /= "PERSON_DETECTED" /\ (st = "PERSON_SCAN" <=> act = {})
      BY DEF Settled
    <3>7. QED
      BY <3>1, <3>3, <3>4, <3>5, <3>6
  <2>4. QED
    BY <2>2, <2>3
<1>7. CASE p.state \notin Settled /\ act = {}
  <2>1. Observe(p, u) = Move(q, "PERSON_SCAN")
    BY <1>4, <1>7
  <2>2. /\ "PERSON_SCAN" \in DOMAIN AllowedTransitions
        /\ p.state = "PERSON_SCAN" \/ "PERSON_SCAN" \in AllowedTransitions[p.state]
    BY <1>5, <1>7 DEF Settled, AllowedTransitions
  <2>3. Move(q, "PERSON_SCAN") = [q EXCEPT !.state = "PERSON_SCAN"]
    <3> HIDE DEF q
    <3>1. QED
      BY <1>3, <2>2, MoveFacts
  <2>4. "PERSON_SCAN" \notin Settled
    BY DEF Settled
  <2>5. QED
    BY <1>2, <1>7, <2>1, <2>2, <2>3, <2>4
<1>8. CASE p.state \notin Settled /\ act /= {}
  <2> DEFINE r == IF u.new /= {} THEN Move(q, "PERSON_DETECTED") ELSE q
  <2>1. Observe(p, u) = Move(r, "TRACKING")
    BY <1>4, <1>8
  <2>2. p.state \in {"PERSON_SCAN", "TRACKING"}
    BY <1>5, <1>8 DEF Settled, AllowedTransitions
  <2>3. {"PERSON_DETECTED", "TRACKING"} \subseteq DOMAIN AllowedTransitions
    BY DEF AllowedTransitions
  <2>4. Move(r, "TRACKING") = [q EXCEPT !.state = "TRACKING"]
    <3>1. CASE u.new /= {}
      <4> DEFINE d == Move(q, "PERSON_DETECTED")
      <4>1. "PERSON_DETECTED" \in AllowedTransitions[p.state]
        BY <2>2 DEF AllowedTransitions
      <4>2. d = [q EXCEPT !.state = "PERSON_DETECTED"]
        <5> HIDE DEF q
        <5>1. QED
          BY <1>3, <2>3, <4>1, MoveFacts
      <4>3. d \in Pipes /\ d.state = "PERSON_DETECTED" /\ ~d.raised
        BY <1>3, <2>3, <4>2 DEF Pipes
      <4>4. "TRACKING" \in AllowedTransitions["PERSON_DETECTED"]
        BY DEF AllowedTransitions
      <4>5. Move(d, "TRACKING") = [d EXCEPT !.state = "TRACKING"]
        <5> HIDE DEF d
        <5>1. QED
          BY <2>3, <4>3, <4>4, MoveFacts
      <4>6. QED
        BY <1>3, <3>1, <4>2, <4>5 DEF Pipes
    <3>2. CASE u.new = {}
      <4>1. p.active /= {}
        BY <1>8, <3>2
      <4>2. p.state = "TRACKING"
        BY <2>2, <4>1
      <4>3. r = q
        BY <3>2
      <4>4. Move(q, "TRACKING") = q
        BY <1>3, <4>2 DEF Move
      <4>5. QED
        BY <1>3, <4>2, <4>3, <4>4 DEF Pipes
    <3>3. QED
      BY <3>1, <3>2
  <2>5. "TRACKING" \notin Settled
    BY DEF Settled
  <2>6. QED
    BY <1>2, <1>8, <2>1, <2>3, <2>4, <2>5
<1>9. QED
  BY <1>6, <1>7, <1>8

\* update() of a sound pipeline never raises, and leaves a sound pipeline: the
\* tracks of before whose ids survive are the same, and so is their evidence.
Updated(p, s, r) ==
    /\ Sound(r) /\ ~r.raised
    /\ r.confirmer = p.confirmer /\ p.next <= r.next
    /\ r.active \cap 1 .. (p.next - 1) \subseteq p.active
    /\ \A t \in DOMAIN r.evidence :
         t \in DOMAIN p.evidence /\ r.evidence[t] = p.evidence[t]
    /\ r.state = "KNOWN" => p.state = "KNOWN" /\ r.analysis = p.analysis
    /\ (\A t \in DOMAIN p.tracks : p.tracks[t].session = s) =>
         \A t \in DOMAIN r.tracks : r.tracks[t].session = s

LEMMA UpdateFacts ==
    ASSUME NEW p, Sound(p), ~p.raised, NEW matched \in SUBSET DOMAIN p.tracks,
           NEW n \in Nat, Cardinality(matched) <= n, NEW s \in Nat
    PROVE  Updated(p, s, PipelineUpdate(p, matched, n, s))
<1> DEFINE u == TrackerUpdate(p.tracks, p.next, matched, n, s)
           e == Without(p.evidence, u.lost)
           q == [p EXCEPT !.tracks = u.tracks, !.next = u.next, !.evidence = e]
           r == PipelineUpdate(p, matched, n, s)
<1>1. p \in Pipes
  BY DEF Sound
<1>2. /\ p.tracks \in TrackFcns(TrackRecord) /\ p.next \in Nat \ {0}
      /\ DOMAIN p.tracks \subseteq 1 .. (p.next - 1) /\ p.active = DOMAIN p.tracks
  BY <1>1 DEF Sound, Pipes
<1>3. r = LET o == Observe(q, u) IN IF o.raised THEN o ELSE [o EXCEPT !.latest = DOMAIN u.tracks]
  BY DEF PipelineUpdate
<1> HIDE DEF u, r
<1>4. Tracked(p.tracks, p.next, s, u)
  BY <1>2, TrackerFacts, Zenon DEF u
<1>5. /\ e \in TrackFcns(Evidence) /\ DOMAIN e = DOMAIN p.evidence \ u.lost
      /\ \A t \in DOMAIN e : t \in DOMAIN p.evidence /\ e[t] = p.evidence[t]
  <2>1. p.evidence \in TrackFcns(Evidence)
    BY <1>1 DEF Pipes
  <2>2. e \in TrackFcns(Evidence)
    BY <2>1, WithoutFacts, Zenon
  <2>3. QED
    BY <2>2 DEF Without, Restrict
<1> HIDE DEF e
<1>6. /\ q \in Pipes /\ q.tracks = u.tracks /\ q.next = u.next /\ q.evidence = e
      /\ q.state = p.state /\ q.active = p.active /\ q.analysis = p.analysis
      /\ ~q.raised /\ q.confirmer = p.confirmer
  BY <1>1, <1>4, <1>5 DEF Pipes, Tracked
<1> HIDE DEF q
<1>7. PICK st \in DOMAIN AllowedTransitions, an \in Nat \cup {None} :
        /\ Observe(q, u) = [q EXCEPT !.active = DOMAIN u.tracks, !.analysis = an, !.state = st]
        /\ st = "PERSON_SCAN" <=> DOMAIN u.tracks = {}
        /\ st /= "PERSON_DETECTED"
        /\ st \in Settled => an \in DOMAIN u.tracks
        /\ st \in Settled => st = q.state /\ an = q.analysis
  <2>1. u.new \subseteq Nat
    <3>1. DOMAIN u.tracks \subseteq Nat
      BY <1>4, TrackFcnType DEF Tracked
    <3>2. QED
      BY <1>4, <3>1 DEF Tracked
  <2>2. /\ q.state = "PERSON_SCAN" <=> q.active = {}
        /\ q.state /= "PERSON_DETECTED"
        /\ q.state \in Settled => q.analysis \in q.active
    BY <1>6 DEF Sound
  <2>3. q.tracks = u.tracks /\ q \in Pipes /\ ~q.raised
    BY <1>6
  <2>4. u.lost \subseteq q.active /\ DOMAIN u.tracks = (q.active \ u.lost) \cup u.new
    BY <1>2, <1>4, <1>6 DEF Tracked
  <2>5. QED
    BY <2>1, <2>2, <2>3, <2>4, ObserveFacts, Zenon
<1>8. /\ r = [q EXCEPT !.active = DOMAIN u.tracks, !.analysis = an, !.state = st,
                       !.latest = DOMAIN u.tracks]
  BY <1>3, <1>6, <1>7 DEF Pipes
<1>9. DOMAIN u.tracks \in SUBSET Nat
  BY <1>4, TrackFcnType DEF Tracked
<1>10. /\ r \in Pipes /\ r.tracks = u.tracks /\ r.next = u.next /\ r.evidence = e
       /\ r.state = st /\ r.active = DOMAIN u.tracks /\ r.analysis = an
       /\ ~r.raised /\ r.confirmer = p.confirmer
  BY <1>6, <1>8, <1>9 DEF Pipes
<1>11. DOMAIN e \subseteq DOMAIN u.tracks
  BY <1>2, <1>4, <1>5 DEF Sound, Tracked
<1>12. Sound(r)
  <2>1. st \notin {"PERSON_DETECTED", "COOLDOWN"}
    BY <1>6, <1>7 DEF Sound, Settled
  <2>2. QED
    BY <1>4, <1>7, <1>10, <1>11, <2>1 DEF Sound, Tracked
<1>13. st = "KNOWN" => p.state = "KNOWN" /\ an = p.analysis
  BY <1>6, <1>7 DEF Settled
<1>14. r.active \cap 1 .. (p.next - 1) \subseteq p.active
  BY <1>2, <1>4, <1>10 DEF Tracked
<1>15. Updated(p, s, r)
  BY <1>4, <1>5, <1>10, <1>12, <1>13, <1>14 DEF Tracked, Updated
<1>16. QED
  BY <1>15 DEF r

-----------------------------------------------------------------------------
(* The recognition of one track.                                           *)

\* The count of an observation, and its cap.
CountAfter(e, t, key, expired) ==
    IF t \in DOMAIN e /\ e[t].key = key /\ ~expired THEN e[t].count + 1 ELSE 1
Capped(n) == IF n > MinConfirmations THEN MinConfirmations ELSE n

\* observe() of the confirmer changes the evidence of one track: the key and
\* its count.
Confirmed(e, t, key, expired, f) ==
    /\ f \in TrackFcns(Evidence)
    /\ DOMAIN f = DOMAIN e \cup {t}
    /\ f[t] = [key |-> key, count |-> Capped(CountAfter(e, t, key, expired))]
    /\ \A x \in DOMAIN e \ {t} : f[x] = e[x]

LEMMA ConfirmFacts ==
    ASSUME NEW e \in TrackFcns(Evidence), NEW t \in Nat, NEW key \in Keys, NEW expired \in BOOLEAN
    PROVE  Confirmed(e, t, key, expired, Confirm(e, t, key, expired))
<1> DEFINE v == [key |-> key, count |-> Capped(CountAfter(e, t, key, expired))]
<1>1. Confirm(e, t, key, expired) = Put(e, t, v)
  BY DEF Confirm, Capped, CountAfter
<1>2. v \in Evidence
  <2>1. e \in [DOMAIN e -> Evidence]
    BY TrackFcnType
  <2>2. CountAfter(e, t, key, expired) \in Nat
    BY <2>1 DEF CountAfter, Evidence
  <2>3. Capped(CountAfter(e, t, key, expired)) \in Nat
    BY <2>2, PolicyAssumption DEF Capped
  <2>4. QED
    BY <2>3 DEF Evidence
<1> HIDE DEF v
<1>3. Put(e, t, v) \in TrackFcns(Evidence)
  BY <1>2, PutFacts, Zenon
<1>4. QED
  BY <1>1, <1>3 DEF Confirmed, Put, v

\* begin_face_analysis() of a track that is there, and the observation that
\* follows: neither raises, and the camera knows somebody afterwards only if
\* the observation was confirmed.
RecognizedAs(p, t, key, expired, q) ==
    /\ Sound(q) /\ ~q.raised
    /\ q.tracks = p.tracks /\ q.next = p.next /\ q.confirmer = p.confirmer /\ q.active = p.active
    /\ q.evidence = Confirm(p.evidence, t, key, expired)
    /\ q.state = "KNOWN" => q.analysis = t /\ IsConfirmed(q, t) /\ key /= "unknown"

LEMMA BeginFacts ==
    ASSUME NEW p, Sound(p), ~p.raised, NEW t \in p.active
    PROVE  /\ BeginFaceAnalysis(p, t) = [p EXCEPT !.analysis = t, !.state = "FACE_ANALYSIS"]
           /\ Sound(BeginFaceAnalysis(p, t)) /\ ~BeginFaceAnalysis(p, t).raised
<1> DEFINE r == [p EXCEPT !.analysis = t]
           b == [p EXCEPT !.analysis = t, !.state = "FACE_ANALYSIS"]
<1>1. p \in Pipes /\ p.active \subseteq Nat
  BY DEF Sound, Pipes
<1>2. p.state \in {"TRACKING", "FACE_ANALYSIS", "KNOWN", "UNKNOWN"}
  <2>1. p.state \in DOMAIN AllowedTransitions
    BY <1>1 DEF Pipes
  <2>2. p.state \notin {"PERSON_SCAN", "PERSON_DETECTED", "COOLDOWN"}
    BY DEF Sound
  <2>3. QED
    BY <2>1, <2>2 DEF AllowedTransitions
<1>3. BeginFaceAnalysis(p, t) = Move(r, "FACE_ANALYSIS")
  BY <1>2 DEF BeginFaceAnalysis
<1>4. r \in Pipes /\ r.state = p.state /\ ~r.raised
  BY <1>1 DEF Pipes
<1>5. /\ "FACE_ANALYSIS" \in DOMAIN AllowedTransitions
      /\ p.state = "FACE_ANALYSIS" \/ "FACE_ANALYSIS" \in AllowedTransitions[p.state]
  BY <1>2 DEF AllowedTransitions
<1>6. Move(r, "FACE_ANALYSIS") = [r EXCEPT !.state = "FACE_ANALYSIS"]
  <2> HIDE DEF r
  <2>1. QED
    BY <1>4, <1>5, MoveFacts
<1>7. BeginFaceAnalysis(p, t) = b
  BY <1>3, <1>6
<1>8. /\ b \in Pipes /\ b.state = "FACE_ANALYSIS" /\ b.analysis = t /\ ~b.raised
      /\ b.active = p.active /\ b.tracks = p.tracks /\ b.next = p.next /\ b.evidence = p.evidence
  BY <1>1, <1>5 DEF Pipes
<1> HIDE DEF b
<1>9. Sound(b)
  BY <1>8 DEF Sound
<1>10. QED
  BY <1>7, <1>8, <1>9 DEF b

LEMMA RecognitionFacts ==
    ASSUME NEW p, Sound(p), ~p.raised, p.confirmer, NEW t \in p.active,
           NEW key \in Keys, NEW expired \in BOOLEAN
    PROVE  RecognizedAs(p, t, key, expired,
                      ObserveRecognition(BeginFaceAnalysis(p, t), t, key, expired))
<1> DEFINE b == BeginFaceAnalysis(p, t)
           f == Confirm(p.evidence, t, key, expired)
           q == [b EXCEPT !.evidence = f]
           target == IF key = "unknown" THEN "UNKNOWN" ELSE "KNOWN"
           r == ObserveRecognition(b, t, key, expired)
<1>1. p \in Pipes /\ p.active \subseteq Nat
  BY DEF Sound, Pipes
<1>2. b = [p EXCEPT !.analysis = t, !.state = "FACE_ANALYSIS"] /\ Sound(b) /\ ~b.raised
  BY BeginFacts
<1>3. b \in Pipes
  BY <1>2 DEF Sound
<1>4. /\ b.active = p.active /\ b.tracks = p.tracks /\ b.next = p.next /\ b.confirmer = p.confirmer
      /\ b.analysis = t /\ b.state = "FACE_ANALYSIS" /\ b.evidence = p.evidence
  BY <1>1, <1>2 DEF Pipes
<1>5. f \in TrackFcns(Evidence) /\ DOMAIN f = DOMAIN p.evidence \cup {t}
  <2>1. p.evidence \in TrackFcns(Evidence) /\ t \in Nat
    BY <1>1 DEF Pipes
  <2>2. Confirmed(p.evidence, t, key, expired, f)
    BY <2>1, ConfirmFacts, Zenon
  <2>3. QED
    BY <2>2 DEF Confirmed
<1> HIDE DEF b, f
<1>6. /\ q \in Pipes /\ q.active = p.active /\ q.tracks = p.tracks /\ q.next = p.next
      /\ q.confirmer = p.confirmer /\ q.analysis = t /\ q.state = "FACE_ANALYSIS" /\ q.evidence = f
      /\ ~q.raised
  BY <1>2, <1>3, <1>4, <1>5 DEF Pipes
<1>7. r = IF IsConfirmed(q, t) THEN CompleteFaceAnalysis(q, t, key) ELSE q
  <2>1. [b EXCEPT !.evidence = Confirm(@, t, key, expired)] = q
    BY <1>4 DEF f
  <2>2. QED
    BY <1>4, <1>6, <2>1 DEF ObserveRecognition
<1> HIDE DEF q
<1>8. Sound(q)
  BY <1>2, <1>4, <1>5, <1>6 DEF Sound
<1>9. CASE IsConfirmed(q, t)
  <2>1. r = Move(q, target)
    BY <1>6, <1>7, <1>9 DEF CompleteFaceAnalysis
  <2>2. target \in DOMAIN AllowedTransitions /\ target \in AllowedTransitions[q.state]
    BY <1>6 DEF AllowedTransitions
  <2>3. target \in Settled /\ target \notin {"PERSON_SCAN", "PERSON_DETECTED", "COOLDOWN"}
        /\ (target = "KNOWN" => key /= "unknown")
    BY DEF Settled
  <2> HIDE DEF target
  <2>4. r = [q EXCEPT !.state = target]
    BY <1>6, <2>1, <2>2, MoveFacts
  <2>5. /\ r \in Pipes /\ r.active = q.active /\ r.tracks = q.tracks /\ r.next = q.next
        /\ r.confirmer = q.confirmer /\ r.analysis = q.analysis /\ r.state = target
        /\ r.evidence = q.evidence /\ ~r.raised
    BY <1>6, <2>2, <2>4 DEF Pipes
  <2>6. IsConfirmed(r, t)
    BY <1>9, <2>5 DEF IsConfirmed
  <2> HIDE DEF r
  <2>7. Sound(r)
    BY <1>6, <1>8, <2>3, <2>5 DEF Sound
  <2>8. RecognizedAs(p, t, key, expired, r)
    BY <1>6, <2>3, <2>5, <2>6, <2>7 DEF RecognizedAs, f
  <2>9. QED
    BY <2>8 DEF r, b
<1>10. CASE ~IsConfirmed(q, t)
  <2>1. r = q
    BY <1>7, <1>10
  <2>2. RecognizedAs(p, t, key, expired, q)
    BY <1>6, <1>8 DEF RecognizedAs, f
  <2>3. QED
    BY <2>1, <2>2 DEF b
<1>11. QED
  BY <1>9, <1>10

\* One turn of the orchestrator's loop.  Without a recognition the evidence
\* stays, nobody is known who was not, and no name is given out that was not;
\* with one, the camera knows somebody, and the track has a name, only if the
\* confirmer says so.
Processed(p, o, t, c, d) ==
    /\ Sound(d.pipe)
    /\ d.pipe.tracks = p.tracks /\ d.pipe.next = p.next
    /\ d.pipe.confirmer = p.confirmer /\ d.pipe.active = p.active
    /\ d.orch \in Orchs
    /\ DOMAIN d.orch.final \subseteq DOMAIN d.orch.base
    /\ DOMAIN d.orch.base \subseteq DOMAIN o.base \cup {t}
    /\ \A x \in DOMAIN d.orch.final \ {t} : x \in DOMAIN o.final /\ d.orch.final[x] = o.final[x]
    /\ d.seen = None =>
         /\ d.pipe.evidence = p.evidence
         /\ d.pipe.state = p.state /\ d.pipe.analysis = p.analysis
         /\ t \in DOMAIN d.orch.final =>
              \/ d.orch.final[t] = "unknown"
              \/ t \in DOMAIN o.final /\ d.orch.final[t] = o.final[t]
    /\ d.seen /= None =>
         /\ d.seen \in Keys
         /\ d.pipe.evidence = Confirm(p.evidence, t, d.seen, c.expired)
         /\ d.pipe.state = "KNOWN" =>
              d.pipe.analysis = t /\ IsConfirmed(d.pipe, t) /\ d.seen /= "unknown"
         /\ t \in DOMAIN d.orch.final /\ d.orch.final[t] \in People =>
              d.orch.final[t] = d.seen /\ IsConfirmed(d.pipe, t)

\* The caches of a detection of one track, and of its result.
LEMMA OrchFacts ==
    ASSUME NEW o \in Orchs, NEW t \in Nat
    PROVE  /\ o.base \in TrackFcns(BaseResult) /\ o.final \in TrackFcns(Keys)
           /\ \A v \in BaseResult : [o EXCEPT !.base = Put(@, t, v)] \in Orchs
           /\ \A v \in Keys : [o EXCEPT !.final = Put(@, t, v)] \in Orchs
           /\ [o EXCEPT !.final = Without(@, {t})] \in Orchs
<1>1. o.base \in TrackFcns(BaseResult) /\ o.final \in TrackFcns(Keys)
  BY DEF Orchs
<1>2. ASSUME NEW v \in BaseResult PROVE [o EXCEPT !.base = Put(@, t, v)] \in Orchs
  <2>1. Put(o.base, t, v) \in TrackFcns(BaseResult)
    BY <1>1, PutFacts, Zenon
  <2>2. QED
    BY <1>1, <2>1 DEF Orchs
<1>3. ASSUME NEW v \in Keys PROVE [o EXCEPT !.final = Put(@, t, v)] \in Orchs
  <2>1. Put(o.final, t, v) \in TrackFcns(Keys)
    BY <1>1, PutFacts, Zenon
  <2>2. QED
    BY <1>1, <2>1 DEF Orchs
<1>4. [o EXCEPT !.final = Without(@, {t})] \in Orchs
  <2>1. Without(o.final, {t}) \in TrackFcns(Keys)
    BY <1>1, WithoutFacts, Zenon
  <2>2. QED
    BY <1>1, <2>1 DEF Orchs
<1>5. QED
  BY <1>1, <1>2, <1>3, <1>4

LEMMA ProcessFacts ==
    ASSUME NEW p, Sound(p), ~p.raised, NEW t \in p.active,
           NEW o \in Orchs, DOMAIN o.final \subseteq DOMAIN o.base, NEW c \in FaceChoices
    PROVE  Processed(p, o, t, c, ProcessTrack(p, o, t, c))
<1> DEFINE d == ProcessTrack(p, o, t, c)
           found == [faces |-> c.faces, key |-> None]
           det == IF c.detect THEN [o EXCEPT !.base = Put(@, t, found)] ELSE o
           base == RecognizeTrack(det.base[t], c)
           after == [det EXCEPT !.base[t] = base]
           q == ObserveRecognition(BeginFaceAnalysis(p, t), t, base.key, c.expired)
           name == IF IsConfirmed(q, t) THEN base.key ELSE "unknown"
<1>1. p \in Pipes /\ t \in Nat /\ ~(p.raised)
  BY DEF Sound, Pipes
<1>2. c.faces \in BOOLEAN /\ c.key \in Results /\ c.expired \in BOOLEAN
  BY DEF FaceChoices, Results
<1>3. found \in BaseResult
  BY <1>2 DEF BaseResult, Results
<1>4. /\ det \in Orchs /\ det.final = o.final
      /\ DOMAIN det.base \subseteq DOMAIN o.base \cup {t} /\ DOMAIN o.base \subseteq DOMAIN det.base
  <2>1. CASE c.detect
    <3>1. det = [o EXCEPT !.base = Put(@, t, found)]
      BY <2>1
    <3>2. det \in Orchs
      BY <1>1, <1>3, <3>1, OrchFacts
    <3>3. DOMAIN Put(o.base, t, found) = DOMAIN o.base \cup {t}
      BY DEF Put
    <3>4. QED
      BY <3>1, <3>2, <3>3 DEF Orchs
  <2>2. CASE ~c.detect
    BY <2>2
  <2>3. QED
    BY <2>1, <2>2
<1> HIDE DEF found, det
<1>5. d = IF c.detect /\ c.fails THEN [pipe |-> [p EXCEPT !.raised = TRUE], orch |-> o, seen |-> None]
          ELSE IF t \notin DOMAIN det.base \/ ~c.recognize THEN [pipe |-> p, orch |-> det, seen |-> None]
          ELSE IF base.key = None
            THEN [pipe |-> p, orch |-> [after EXCEPT !.final = Without(@, {t})], seen |-> None]
          ELSE IF ~p.confirmer
            THEN [pipe |-> p, orch |-> [after EXCEPT !.final = Put(@, t, "unknown")], seen |-> None]
          ELSE LET b == BeginFaceAnalysis(p, t)
                   w == IF b.raised THEN b ELSE ObserveRecognition(b, t, base.key, c.expired)
                   f == IF IsConfirmed(w, t) THEN base.key ELSE "unknown"
               IN IF w.raised THEN [pipe |-> w, orch |-> after, seen |-> None]
                  ELSE [pipe |-> w, orch |-> [after EXCEPT !.final = Put(@, t, f)], seen |-> base.key]
  BY DEF ProcessTrack, det, found
<1> HIDE DEF d
<1>6. CASE c.detect /\ c.fails
  <2>1. d.pipe = [p EXCEPT !.raised = TRUE] /\ d.orch = o /\ d.seen = None
    BY <1>5, <1>6
  <2>2. /\ d.pipe \in Pipes /\ d.pipe.tracks = p.tracks /\ d.pipe.next = p.next
        /\ d.pipe.confirmer = p.confirmer /\ d.pipe.active = p.active /\ d.pipe.evidence = p.evidence
        /\ d.pipe.state = p.state /\ d.pipe.analysis = p.analysis
    BY <1>1, <2>1 DEF Pipes
  <2>3. Sound(d.pipe)
    BY <2>2 DEF Sound
  <2>4. QED
    BY <2>1, <2>2, <2>3 DEF Processed, d
<1>7. CASE ~(c.detect /\ c.fails) /\ (t \notin DOMAIN det.base \/ ~c.recognize)
  <2>1. d.pipe = p /\ d.orch = det /\ d.seen = None
    BY <1>5, <1>7
  <2>2. QED
    BY <1>4, <2>1 DEF Processed, d
<1>8. CASE ~(c.detect /\ c.fails) /\ t \in DOMAIN det.base /\ c.recognize
  <2>1. det.base[t] \in BaseResult
    <3>1. det.base \in TrackFcns(BaseResult)
      BY <1>4 DEF Orchs
    <3>2. det.base \in [DOMAIN det.base -> BaseResult]
      BY <3>1, TrackFcnType
    <3>3. QED
      BY <1>8, <3>2
  <2>2. base \in BaseResult
    BY <1>2, <2>1 DEF RecognizeTrack, BaseResult
  <2> HIDE DEF base
  <2>3. after = [det EXCEPT !.base = Put(@, t, base)] /\ after \in Orchs
    <3>1. det \in Orchs /\ t \in Nat /\ t \in DOMAIN det.base
      BY <1>1, <1>4, <1>8
    <3>2. after = [det EXCEPT !.base = Put(@, t, base)]
      <4>1. det.base \in [DOMAIN det.base -> BaseResult] /\ DOMAIN det.base \cup {t} = DOMAIN det.base
        BY <3>1, TrackFcnType DEF Orchs
      <4>2. [det.base EXCEPT ![t] = base] = Put(det.base, t, base)
        BY <4>1 DEF Put
      <4>3. QED
        BY <3>1, <4>2 DEF Orchs
    <3>3. [det EXCEPT !.base = Put(@, t, base)] \in Orchs
      BY <2>2, <3>1, OrchFacts, Zenon
    <3>4. QED
      BY <3>2, <3>3, Zenon
  <2>4. after.final = o.final /\ DOMAIN after.base = DOMAIN det.base
    <3>1. DOMAIN Put(det.base, t, base) = DOMAIN det.base
      BY <1>8 DEF Put
    <3>2. QED
      BY <1>4, <2>3, <3>1 DEF Orchs
  <2> HIDE DEF after
  <2>5. CASE base.key = None
    <3> DEFINE r == [after EXCEPT !.final = Without(@, {t})]
    <3>1. d.pipe = p /\ d.orch = r /\ d.seen = None
      BY <1>5, <1>8, <2>5
    <3>2. r \in Orchs /\ r.base = after.base /\ r.final = Without(o.final, {t})
      BY <1>1, <2>3, <2>4, OrchFacts DEF Orchs
    <3>3. /\ DOMAIN r.final = DOMAIN o.final \ {t}
          /\ \A x \in DOMAIN r.final : r.final[x] = o.final[x]
      BY <3>2 DEF Without, Restrict
    <3>4. t \notin DOMAIN r.final /\ DOMAIN r.final \subseteq DOMAIN r.base
      BY <1>4, <2>4, <3>2, <3>3
    <3>5. \A x \in DOMAIN r.final \ {t} : x \in DOMAIN o.final /\ r.final[x] = o.final[x]
      BY <3>3
    <3>6. DOMAIN r.base \subseteq DOMAIN o.base \cup {t}
      BY <1>4, <2>4, <3>2
    <3>7. r \in Orchs
      BY <3>2
    <3> HIDE DEF r
    <3>8. Processed(p, o, t, c, d)
      BY <3>1, <3>4, <3>5, <3>6, <3>7 DEF Processed
    <3>9. QED
      BY <3>8 DEF d
  <2>6. CASE base.key /= None /\ ~p.confirmer
    <3> DEFINE r == [after EXCEPT !.final = Put(@, t, "unknown")]
    <3>1. d.pipe = p /\ d.orch = r /\ d.seen = None
      BY <1>5, <1>8, <2>6
    <3>2. "unknown" \in Keys
      BY DEF Keys
    <3>3. r \in Orchs /\ r.base = after.base /\ r.final = Put(o.final, t, "unknown")
      BY <1>1, <2>3, <2>4, <3>2, OrchFacts DEF Orchs
    <3>4. /\ DOMAIN r.final = DOMAIN o.final \cup {t} /\ r.final[t] = "unknown"
          /\ \A x \in DOMAIN r.final \ {t} : r.final[x] = o.final[x]
      BY <3>3 DEF Put
    <3>5. DOMAIN r.final \subseteq DOMAIN r.base /\ DOMAIN r.base \subseteq DOMAIN o.base \cup {t}
      BY <1>4, <1>8, <2>4, <3>3, <3>4
    <3>6. \A x \in DOMAIN r.final \ {t} : x \in DOMAIN o.final /\ r.final[x] = o.final[x]
      BY <3>4
    <3>7. r \in Orchs
      BY <3>3
    <3> HIDE DEF r
    <3>8. Processed(p, o, t, c, d)
      BY <3>1, <3>4, <3>5, <3>6, <3>7 DEF Processed
    <3>9. QED
      BY <3>8 DEF d
  <2>7. CASE base.key /= None /\ p.confirmer
    <3> DEFINE r == [after EXCEPT !.final = Put(@, t, name)]
    <3>1. base.key \in Keys
      BY <2>2, <2>7 DEF BaseResult, Results
    <3>2. ~BeginFaceAnalysis(p, t).raised
      BY BeginFacts
    <3>3. RecognizedAs(p, t, base.key, c.expired, q)
      BY <1>2, <2>7, <3>1, RecognitionFacts
    <3>4. ~q.raised
      BY <3>3 DEF RecognizedAs
    <3>5. d = [pipe |-> q, orch |-> r, seen |-> base.key]
      BY <1>5, <1>8, <2>7, <3>2, <3>4
    <3> HIDE DEF q
    <3>6. name \in Keys /\ (name \in People => name = base.key /\ IsConfirmed(q, t))
      BY <3>1, PeopleAssumption DEF Keys
    <3> HIDE DEF name
    <3>7. r \in Orchs /\ r.base = after.base /\ r.final = Put(o.final, t, name)
      BY <1>1, <2>3, <2>4, <3>6, OrchFacts DEF Orchs
    <3>8. /\ DOMAIN r.final = DOMAIN o.final \cup {t} /\ r.final[t] = name
          /\ \A x \in DOMAIN r.final \ {t} : r.final[x] = o.final[x]
      BY <3>7 DEF Put
    <3>9. d.pipe = q /\ d.orch = r /\ d.seen = base.key
      BY <3>5
    <3> HIDE DEF r
    <3>10. QED
      BY <1>4, <1>8, <2>4, <2>7, <3>1, <3>3, <3>6, <3>7, <3>8, <3>9 DEF Processed, RecognizedAs, d
  <2>8. QED
    BY <2>5, <2>6, <2>7
<1>9. QED
  BY <1>6, <1>7, <1>8

-----------------------------------------------------------------------------
(* The window of the last recognitions.                                    *)

\* A window with one more recognition in front, cut to MinConfirmations.
Window(key, old) ==
    LET all == <<key>> \o old
    IN SubSeq(all, 1, IF Len(all) < MinConfirmations THEN Len(all) ELSE MinConfirmations)

LEMMA WindowFacts ==
    ASSUME NEW key \in Keys, NEW old \in Seq(Keys)
    PROVE  /\ Window(key, old) \in Seq(Keys)
           /\ Len(Window(key, old)) = Capped(Len(old) + 1)
           /\ \A i \in 1 .. Len(Window(key, old)) :
                Window(key, old)[i] = IF i = 1 THEN key ELSE old[i - 1]
<1> DEFINE all == <<key>> \o old
           n == IF Len(all) < MinConfirmations THEN Len(all) ELSE MinConfirmations
<1>1. /\ all \in Seq(Keys) /\ Len(all) = Len(old) + 1
      /\ \A i \in 1 .. Len(all) : all[i] = IF i = 1 THEN key ELSE old[i - 1]
  OBVIOUS
<1>2. n \in Nat /\ n <= Len(all) /\ n = Capped(Len(old) + 1)
  BY <1>1, PolicyAssumption DEF Capped
<1>3. Window(key, old) = SubSeq(all, 1, n)
  BY DEF Window
<1> HIDE DEF all, n
<1>4. /\ SubSeq(all, 1, n) \in Seq(Keys) /\ Len(SubSeq(all, 1, n)) = n
      /\ \A i \in 1 .. n : SubSeq(all, 1, n)[i] = all[i]
  BY <1>1, <1>2
<1>5. QED
  BY <1>1, <1>2, <1>3, <1>4

\* One more recognition of the same key lengthens a streak by one, up to the cap.
LEMMA StreakGrows ==
    ASSUME NEW key \in Keys, NEW old \in Seq(Keys), NEW k \in Nat, Streak(old, k, key)
    PROVE  Streak(Window(key, old), Capped(k + 1), key)
<1> DEFINE w == Window(key, old)
           n == Len(old)
           m == Len(w)
<1>1. /\ m = Capped(n + 1) /\ n \in Nat /\ w \in Seq(Keys)
      /\ \A i \in 1 .. m : w[i] = IF i = 1 THEN key ELSE old[i - 1]
  BY WindowFacts
<1>2. k <= n /\ \A i \in 1 .. k : old[i] = key
  BY DEF Streak
<1> HIDE DEF w, n, m
<1>3. Capped(k + 1) <= m /\ Capped(k + 1) \in Nat /\ Capped(k + 1) <= k + 1 /\ m \in Nat
  BY <1>1, <1>2, PolicyAssumption DEF Capped
<1>4. ASSUME NEW i \in 1 .. Capped(k + 1) PROVE w[i] = key
  <2> DEFINE c == Capped(k + 1)
  <2>1. c \in Nat /\ c <= m /\ c <= k + 1 /\ m \in Nat
    BY <1>3
  <2>2. i \in 1 .. c
    BY <1>4
  <2> HIDE DEF c
  <2>3. i \in 1 .. m /\ (i /= 1 => i - 1 \in 1 .. k)
    BY <2>1, <2>2
  <2>4. QED
    BY <1>1, <1>2, <2>3
<1>5. QED
  BY <1>3, <1>4 DEF Streak, w, m

\* A full streak is the window of IdentityIsConfirmed.
LEMMA FullStreak ==
    ASSUME NEW s \in Seq(Keys), NEW key, Len(s) <= MinConfirmations, Streak(s, MinConfirmations, key)
    PROVE  s = [i \in 1 .. MinConfirmations |-> key]
<1>1. Len(s) = MinConfirmations
  BY PolicyAssumption DEF Streak
<1>2. \A i \in 1 .. MinConfirmations : s[i] = key
  BY DEF Streak
<1>3. s = [i \in 1 .. Len(s) |-> s[i]]
  OBVIOUS
<1>4. QED
  BY <1>1, <1>2, <1>3

\* Every set of track ids that is not empty has a least one: the loop over the
\* tracks has a next one.
LEMMA LeastTrack ==
    ASSUME NEW S \in SUBSET Nat, S /= {}
    PROVE  \E u \in S : \A v \in S : u <= v
<1> DEFINE R == {ss \in Nat \X Nat : ss[1] < ss[2]}
<1>1. IsWellFoundedOn(R, Nat)
  BY NatLessThanWellFounded DEF OpToRel
<1>2. \E u \in S : \A v \in S : ~(<<v, u>> \in R)
  <2> HIDE DEF R
  <2>1. QED
    BY <1>1, WFMin
<1>3. PICK u \in S : \A v \in S : ~(<<v, u>> \in R)
  BY <1>2
<1>4. ASSUME NEW v \in S PROVE u <= v
  <2>1. ~(<<v, u>> \in R)
    BY <1>3
  <2>2. QED
    BY <2>1
<1>5. QED
  BY <1>4

-----------------------------------------------------------------------------
(* The initial states.                                                     *)

LEMMA RuntimeInitInv == RuntimeInit => RuntimeInv
<1> SUFFICES ASSUME RuntimeInit PROVE RuntimeInv
  OBVIOUS
<1>1. config \in [motion: BOOLEAN, faces: BOOLEAN, reconnects: Nat]
  BY ConfigurationAssumption DEF RuntimeInit
<1>2. /\ EmptyFcn \in TrackFcns(TrackRecord) /\ EmptyFcn \in TrackFcns(Evidence)
      /\ EmptyFcn \in TrackFcns(BaseResult) /\ EmptyFcn \in TrackFcns(Keys)
      /\ EmptyFcn \in TrackFcns(Seq(Keys)) /\ DOMAIN EmptyFcn = {}
  BY EmptyFacts
<1>3. /\ pipe \in Pipes /\ pipe.tracks = EmptyFcn /\ pipe.active = {} /\ pipe.evidence = EmptyFcn
      /\ pipe.state = "PERSON_SCAN" /\ pipe.next = 1 /\ pipe.confirmer = config.faces
      /\ ~pipe.raised
  <2>1. pipe = [tracks |-> EmptyFcn, next |-> 1, active |-> {}, state |-> "PERSON_SCAN",
                analysis |-> None, confirmer |-> config.faces, evidence |-> EmptyFcn,
                latest |-> None, raised |-> FALSE]
    BY DEF RuntimeInit, NewPipeline, SetConfirmer
  <2>2. "PERSON_SCAN" \in DOMAIN AllowedTransitions /\ config.faces \in BOOLEAN
    BY <1>1 DEF AllowedTransitions
  <2>3. QED
    BY <1>2, <2>1, <2>2 DEF Pipes
<1>4. PipeInv
  BY <1>2, <1>3 DEF PipeInv, Sound, Settled
<1>5. orch = [base |-> EmptyFcn, final |-> EmptyFcn] /\ recent = EmptyFcn
  BY DEF RuntimeInit, NewOrchestrator
<1>6. orch \in Orchs /\ DOMAIN orch.base = {} /\ DOMAIN orch.final = {} /\ DOMAIN recent = {}
  BY <1>2, <1>5 DEF Orchs
<1>7. RuntimeTypes
  BY <1>1, <1>2, <1>5, <1>6, RuntimeAssumption DEF RuntimeInit, RuntimeTypes, Workers, Samplers, Nodes, Motions, IdleNode
<1>8. OrchInv
  BY <1>3, <1>5, <1>6 DEF OrchInv, RuntimeInit, IdleNode, NewOrchestrator
<1>9. StreakInv
  BY <1>2, <1>3, <1>6 DEF StreakInv
<1>10. SessionInv
  BY <1>2, <1>3 DEF SessionInv, RuntimeInit, IdleNode
<1>11. QED
  BY <1>4, <1>7, <1>8, <1>9, <1>10 DEF RuntimeInv

-----------------------------------------------------------------------------
(* The steps that leave the pipeline and what it feeds alone.              *)

LEMMA PipeFrame ==
    ASSUME RuntimeInv, UNCHANGED <<config, pipe, orch, recent>>,
           node'.pc = "faces" => node.pc = "faces" /\ node'.todo = node.todo,
           pipe.raised => node'.pc = "error"
    PROVE  PipeInv' /\ OrchInv' /\ StreakInv'
<1>1. PipeInv'
  BY DEF RuntimeInv, PipeInv, Sound
<1>2. OrchInv'
  BY DEF RuntimeInv, OrchInv
<1>3. StreakInv'
  BY DEF RuntimeInv, StreakInv
<1>4. QED
  BY <1>1, <1>2, <1>3

\* The worker reconnects: counts only grow while a packet is on its way.
LEMMA WorkerReconnectInv == RuntimeInv /\ WorkerReconnect => RuntimeInv'
<1> SUFFICES ASSUME RuntimeInv, WorkerReconnect PROVE RuntimeInv'
  OBVIOUS
<1>1. /\ worker' = [worker EXCEPT !.state = "reconnecting", !.count = worker.count + 1]
      /\ UNCHANGED <<config, sampler, node, motion, pipe, orch, recent>>
  BY DEF WorkerReconnect
<1>2. RuntimeTypes /\ SessionInv /\ PipeInv
  BY DEF RuntimeInv
<1>3. worker.count \in Nat /\ worker'.count = worker.count + 1
  BY <1>1, <1>2 DEF RuntimeTypes, Workers, Samplers, Nodes, Motions
<1>4. RuntimeTypes'
  <2>1. worker \in Workers
    BY <1>2 DEF RuntimeTypes, Workers, Samplers, Nodes, Motions
  <2> DEFINE c == worker.count + 1
  <2>c. c \in Nat
    BY <1>3
  <2>d. worker' = [worker EXCEPT !.state = "reconnecting", !.count = c]
    BY <1>1
  <2> HIDE DEF c
  <2>2. worker' \in Workers
    BY <2>1, <2>c, <2>d DEF Workers
  <2>3. QED
    BY <1>1, <1>2, <2>2 DEF RuntimeTypes, Workers, Samplers, Nodes, Motions
<1>5. SessionInv'
  <2>1. sampler.out /= None => sampler.out \in Nat
    BY <1>2 DEF RuntimeTypes, Workers, Samplers, Nodes, Motions
  <2>2. QED
    BY <1>1, <1>2, <1>3, <2>1 DEF SessionInv
<1>6. PipeInv' /\ OrchInv' /\ StreakInv'
  BY <1>1, <1>2, PipeFrame DEF PipeInv
<1>7. QED
  BY <1>4, <1>5, <1>6 DEF RuntimeInv

LEMMA WorkerEndsInv == RuntimeInv /\ WorkerEnds => RuntimeInv'
<1> SUFFICES ASSUME RuntimeInv, WorkerEnds PROVE RuntimeInv'
  OBVIOUS
<1>1. /\ \E s \in {"failed", "stopped"} : worker' = [worker EXCEPT !.state = s, !.alive = FALSE]
      /\ UNCHANGED <<config, sampler, node, motion, pipe, orch, recent>>
  BY DEF WorkerEnds
<1>2. RuntimeTypes /\ SessionInv /\ PipeInv
  BY DEF RuntimeInv
<1>3. RuntimeTypes' /\ worker'.count = worker.count
  BY <1>1, <1>2 DEF RuntimeTypes, Workers, Samplers, Nodes, Motions
<1>4. SessionInv'
  BY <1>1, <1>2, <1>3 DEF SessionInv
<1>5. PipeInv' /\ OrchInv' /\ StreakInv'
  BY <1>1, <1>2, PipeFrame DEF PipeInv
<1>6. QED
  BY <1>3, <1>4, <1>5 DEF RuntimeInv

\* A sampled frame carries the count of now.
LEMMA SamplerAcceptInv == RuntimeInv /\ SamplerAccept => RuntimeInv'
<1> SUFFICES ASSUME RuntimeInv, SamplerAccept PROVE RuntimeInv'
  OBVIOUS
<1>1. /\ worker' = [worker EXCEPT !.state = "running"]
      /\ sampler' = [sampler EXCEPT !.out = worker.count]
      /\ UNCHANGED <<config, node, motion, pipe, orch, recent>>
  BY DEF SamplerAccept
<1>2. RuntimeTypes /\ SessionInv /\ PipeInv
  BY DEF RuntimeInv
<1>3. /\ RuntimeTypes' /\ worker'.count = worker.count /\ worker.count \in Nat
      /\ sampler'.out = worker.count
  BY <1>1, <1>2 DEF RuntimeTypes, Workers, Samplers, Nodes, Motions
<1>4. SessionInv'
  BY <1>1, <1>2, <1>3 DEF SessionInv
<1>5. PipeInv' /\ OrchInv' /\ StreakInv'
  BY <1>1, <1>2, PipeFrame DEF PipeInv
<1>6. QED
  BY <1>3, <1>4, <1>5 DEF RuntimeInv

LEMMA StopRuntimeInv == RuntimeInv /\ StopRuntime => RuntimeInv'
<1> SUFFICES ASSUME RuntimeInv, StopRuntime PROVE RuntimeInv'
  OBVIOUS
<1>1. /\ node' = [node EXCEPT !.stop = TRUE]
      /\ sampler' = [sampler EXCEPT !.alive = FALSE]
      /\ worker' = worker \/ worker' = [worker EXCEPT !.state = "stopping"]
      /\ UNCHANGED <<config, motion, pipe, orch, recent>>
  BY DEF StopRuntime
<1>2. RuntimeTypes /\ SessionInv /\ PipeInv
  BY DEF RuntimeInv
<1>3. /\ node'.pc = node.pc /\ node'.packet = node.packet /\ node'.count = node.count
      /\ node'.todo = node.todo /\ sampler'.out = sampler.out /\ worker'.count = worker.count
  BY <1>1, <1>2 DEF RuntimeTypes, Workers, Samplers, Nodes, Motions
<1>4. RuntimeTypes'
  BY <1>1, <1>2 DEF RuntimeTypes, Workers, Samplers, Nodes, Motions
<1>5. SessionInv'
  BY <1>1, <1>2, <1>3 DEF SessionInv
<1>6. PipeInv' /\ OrchInv' /\ StreakInv'
  BY <1>1, <1>2, <1>3, PipeFrame DEF PipeInv
<1>7. QED
  BY <1>4, <1>5, <1>6 DEF RuntimeInv

\* A packet that is taken is not from a session to come.
LEMMA NodeGetInv == RuntimeInv /\ NodeGet => RuntimeInv'
<1> SUFFICES ASSUME RuntimeInv, NodeGet PROVE RuntimeInv'
  OBVIOUS
<1>1. RuntimeTypes /\ SessionInv /\ PipeInv
  BY DEF RuntimeInv
<1>2. node.pc = "get" /\ ~pipe.raised
  BY <1>1 DEF NodeGet, PipeInv
<1>3. CASE node' = [node EXCEPT !.pc = "dead"] /\ UNCHANGED <<config, worker, sampler, motion, pipe, orch, recent>>
  <2>1. RuntimeTypes' /\ node'.pc = "dead" /\ node'.count = node.count
    BY <1>1, <1>3 DEF RuntimeTypes, Workers, Samplers, Nodes, Motions
  <2>2. SessionInv'
    BY <1>1, <1>3, <2>1 DEF SessionInv
  <2>3. PipeInv' /\ OrchInv' /\ StreakInv'
    BY <1>2, <1>3, <2>1, PipeFrame
  <2>4. QED
    BY <2>1, <2>2, <2>3 DEF RuntimeInv
<1>4. CASE /\ sampler.out /= None
           /\ node' = [node EXCEPT !.pc = "check", !.packet = sampler.out]
           /\ sampler' = [sampler EXCEPT !.out = None]
           /\ UNCHANGED <<config, worker, motion, pipe, orch, recent>>
  <2>1. sampler.out \in Nat
    BY <1>1, <1>4 DEF RuntimeTypes, Workers, Samplers, Nodes, Motions
  <2>2. /\ RuntimeTypes' /\ node'.pc = "check" /\ node'.count = node.count
        /\ node'.packet = sampler.out /\ sampler'.out = None
    BY <1>1, <1>4, <2>1 DEF RuntimeTypes, Workers, Samplers, Nodes, Motions
  <2>3. SessionInv'
    BY <1>1, <1>4, <2>1, <2>2 DEF SessionInv
  <2>4. PipeInv' /\ OrchInv' /\ StreakInv'
    BY <1>2, <1>4, <2>2, PipeFrame
  <2>5. QED
    BY <2>2, <2>3, <2>4 DEF RuntimeInv
<1>5. QED
  BY <1>3, <1>4 DEF NodeGet, NodeGoto

LEMMA NodeMotionInv == RuntimeInv /\ NodeMotion => RuntimeInv'
<1> SUFFICES ASSUME RuntimeInv, NodeMotion PROVE RuntimeInv'
  OBVIOUS
<1>1. RuntimeTypes /\ SessionInv /\ PipeInv
  BY DEF RuntimeInv
<1>2. node.pc = "motion" /\ ~pipe.raised /\ node.packet \in Nat
  BY <1>1 DEF NodeMotion, PipeInv, SessionInv
<1>3. UNCHANGED <<config, worker, sampler, pipe, orch, recent>>
  BY DEF NodeMotion
<1>4. motion' \in Motions
  <2>1. motion.warm \in 0 .. WarmUp /\ motion \in Motions
    BY <1>1 DEF RuntimeTypes, Workers, Samplers, Nodes, Motions
  <2>2. (IF motion.warm > 0 THEN motion.warm - 1 ELSE 0) \in 0 .. WarmUp
    BY <2>1, RuntimeAssumption
  <2>3. QED
    BY <1>2, <2>1, <2>2 DEF NodeMotion, Motions
<1>5. \/ node' = [node EXCEPT !.pc = "detect"]
      \/ node' = [node EXCEPT !.pc = "get", !.packet = None]
  BY DEF NodeMotion, NodeGoto
<1>6. /\ node' \in Nodes
      /\ node'.count = node.count /\ node'.pc \in {"get", "detect"}
      /\ node'.pc = "detect" => node'.packet = node.packet
  BY <1>1, <1>5 DEF RuntimeTypes, Workers, Samplers, Nodes, Motions
<1>7. RuntimeTypes'
  BY <1>1, <1>3, <1>4, <1>6 DEF RuntimeTypes, Workers, Samplers, Nodes, Motions
<1>8. SessionInv'
  BY <1>1, <1>2, <1>3, <1>6 DEF SessionInv
<1>9. PipeInv' /\ OrchInv' /\ StreakInv'
  BY <1>2, <1>3, <1>6, PipeFrame
<1>10. QED
  BY <1>7, <1>8, <1>9 DEF RuntimeInv

-----------------------------------------------------------------------------
(* The resets.                                                             *)

\* After a reset nobody is there and nothing is known, and the rest agrees
\* with that whatever the thread does next but look at faces.
LEMMA ResetInv ==
    ASSUME RuntimeInv, ResetTracking, ~pipe.raised, config' = config, node'.pc /= "faces"
    PROVE  /\ PipeInv' /\ OrchInv' /\ StreakInv' /\ DOMAIN pipe'.tracks = {}
           /\ motion' \in Motions
           /\ orch' \in Orchs /\ recent' \in TrackFcns(Seq(Keys))
<1>1. RuntimeTypes /\ PipeInv /\ OrchInv
  BY DEF RuntimeInv
<1>2. /\ pipe' = PipelineReset(pipe) /\ recent' = EmptyFcn
      /\ orch' = IF config.faces THEN NewOrchestrator ELSE orch
      /\ motion' = IF config.motion THEN MotionReset ELSE motion
  BY DEF ResetTracking
<1>3. /\ Sound(pipe') /\ pipe'.active = {} /\ pipe'.state = "PERSON_SCAN"
      /\ DOMAIN pipe'.tracks = {} /\ DOMAIN pipe'.evidence = {} /\ ~pipe'.raised
      /\ pipe'.next = pipe.next /\ pipe'.confirmer = pipe.confirmer
  BY <1>1, <1>2, ResetFacts DEF PipeInv
<1>4. orch' = NewOrchestrator
  BY <1>1, <1>2 DEF OrchInv
<1>5. /\ EmptyFcn \in TrackFcns(BaseResult) /\ EmptyFcn \in TrackFcns(Keys)
      /\ EmptyFcn \in TrackFcns(Seq(Keys)) /\ DOMAIN EmptyFcn = {}
  BY EmptyFacts
<1>6. orch' \in Orchs /\ DOMAIN orch'.base = {} /\ DOMAIN orch'.final = {} /\ DOMAIN recent' = {}
  BY <1>2, <1>4, <1>5 DEF NewOrchestrator, Orchs
<1>7. motion' \in Motions
  BY <1>1, <1>2, RuntimeAssumption DEF RuntimeTypes, Motions, MotionReset
<1>8. PipeInv'
  BY <1>3 DEF PipeInv
<1>9. OrchInv'
  BY <1>1, <1>3, <1>4, <1>6 DEF OrchInv
<1>10. StreakInv'
  BY <1>3, <1>6 DEF StreakInv
<1>11. QED
  BY <1>2, <1>3, <1>5, <1>6, <1>7, <1>8, <1>9, <1>10

LEMMA StartRuntimeInv == RuntimeInv /\ StartRuntime => RuntimeInv'
<1> SUFFICES ASSUME RuntimeInv, StartRuntime PROVE RuntimeInv'
  OBVIOUS
<1>1. RuntimeTypes /\ SessionInv /\ PipeInv
  BY DEF RuntimeInv
<1>2. node.pc = "dead" /\ ResetTracking /\ config' = config /\ ~pipe.raised
  BY <1>1 DEF StartRuntime, PipeInv
<1>3. /\ node' \in Nodes
      /\ node'.pc \in {"dead", "get"}
  <2>1. /\ node \in Nodes
        /\ node.pc = "dead"
    BY <1>1, <1>2 DEF RuntimeTypes, Workers, Samplers, Nodes, Motions
  <2>2. PICK c \in Nat : \/ node' = [node EXCEPT !.stop = FALSE, !.count = c]
                         \/ node' = [node EXCEPT !.stop = FALSE, !.count = c, !.pc = "get"]
    BY 0 \in Nat, Zenon DEF StartRuntime
  <2>3. QED
    BY <2>1, <2>2 DEF Nodes
<1>4. /\ worker' \in Workers
      /\ sampler' \in Samplers
      /\ sampler'.out = None \/ (sampler' = sampler /\ worker' = worker)
  <2>1. /\ worker \in Workers
        /\ sampler \in Samplers
    BY <1>1 DEF RuntimeTypes, Workers, Samplers, Nodes, Motions
  <2>2. CASE worker.state = "failed"
    <3>1. sampler' = sampler /\ worker' = worker
      BY <2>2 DEF StartRuntime
    <3>2. QED
      BY <2>1, <3>1
  <2>3. CASE worker.state /= "failed"
    <3>1. PICK c \in Nat :
            /\ \/ worker' = worker
               \/ worker' = [state |-> "running", alive |-> TRUE, count |-> c]
            /\ sampler' = [alive |-> TRUE, out |-> None]
      BY <2>3, 0 \in Nat, Zenon DEF StartRuntime
    <3>2. worker' \in Workers
      <4>1. [state |-> "running", alive |-> TRUE, count |-> c] \in Workers
        BY DEF Workers
      <4>2. QED
        BY <2>1, <3>1, <4>1
    <3>3. sampler' \in Samplers /\ sampler'.out = None
      BY <3>1 DEF Samplers
    <3>4. QED
      BY <3>2, <3>3
  <2>4. QED
    BY <2>2, <2>3
<1>5. /\ PipeInv' /\ OrchInv' /\ StreakInv' /\ DOMAIN pipe'.tracks = {}
      /\ motion' \in Motions
      /\ orch' \in Orchs /\ recent' \in TrackFcns(Seq(Keys))
  BY <1>2, <1>3, ResetInv
<1>6. RuntimeTypes'
  BY <1>1, <1>2, <1>3, <1>4, <1>5 DEF RuntimeTypes, Workers, Samplers, Nodes, Motions
<1>7. SessionInv'
  BY <1>1, <1>3, <1>4, <1>5 DEF SessionInv
<1>8. QED
  BY <1>5, <1>6, <1>7 DEF RuntimeInv

\* The check: the packet is not newer than the count that is noticed, and the
\* tracks of another session are gone.
LEMMA NodeCheckInv == RuntimeInv /\ NodeCheck => RuntimeInv'
<1> SUFFICES ASSUME RuntimeInv, NodeCheck PROVE RuntimeInv'
  OBVIOUS
<1>1. RuntimeTypes /\ SessionInv /\ PipeInv
  BY DEF RuntimeInv
<1>2. /\ node.pc = "check" /\ ~pipe.raised /\ UNCHANGED <<config, worker, sampler>>
      /\ node' = [node EXCEPT !.pc = IF config.motion THEN "motion" ELSE "detect",
                              !.count = worker.count]
  BY <1>1 DEF NodeCheck, PipeInv
<1>3. /\ node' \in Nodes
      /\ node'.pc \in {"motion", "detect"} /\ node'.count = worker.count
      /\ node'.packet = node.packet /\ node.packet \in Nat /\ node.packet <= worker.count
  BY <1>1, <1>2 DEF RuntimeTypes, Nodes, Workers, SessionInv
<1>4. CASE worker.count /= node.count
  <2>1. ResetTracking
    BY <1>4 DEF NodeCheck
  <2>2. /\ PipeInv' /\ OrchInv' /\ StreakInv' /\ DOMAIN pipe'.tracks = {}
        /\ motion' \in Motions
        /\ orch' \in Orchs /\ recent' \in TrackFcns(Seq(Keys))
    BY <1>2, <1>3, <2>1, ResetInv
  <2>3. RuntimeTypes'
    BY <1>1, <1>2, <1>3, <2>2 DEF RuntimeTypes, Workers, Samplers, Nodes, Motions
  <2>4. SessionInv'
    BY <1>1, <1>2, <1>3, <2>2 DEF SessionInv
  <2>5. QED
    BY <2>2, <2>3, <2>4 DEF RuntimeInv
<1>5. CASE worker.count = node.count
  <2>1. UNCHANGED <<motion, pipe, orch, recent>>
    BY <1>5 DEF NodeCheck
  <2>2. PipeInv' /\ OrchInv' /\ StreakInv'
    BY <1>2, <1>3, <2>1, PipeFrame
  <2>3. RuntimeTypes'
    BY <1>1, <1>2, <1>3, <2>1 DEF RuntimeTypes, Workers, Samplers, Nodes, Motions
  <2>4. SessionInv'
    BY <1>1, <1>2, <1>3, <1>5, <2>1 DEF SessionInv
  <2>5. QED
    BY <2>2, <2>3, <2>4 DEF RuntimeInv
<1>6. QED
  BY <1>4, <1>5

-----------------------------------------------------------------------------
(* A sample: the detector, the update and the recognitions.                *)

\* What ForgetTracks leaves of the caches.
LEMMA ForgetFacts ==
    ASSUME NEW o \in Orchs, NEW active \in SUBSET Nat, DOMAIN o.final \subseteq DOMAIN o.base
    PROVE  /\ ForgetTracks(o, active) \in Orchs
           /\ DOMAIN ForgetTracks(o, active).base = DOMAIN o.base \cap active
           /\ DOMAIN ForgetTracks(o, active).final = DOMAIN o.final \cap active
           /\ \A t \in DOMAIN o.final \cap active : ForgetTracks(o, active).final[t] = o.final[t]
<1> DEFINE gone == DOMAIN o.base \ active
           b == Without(o.base, gone)
           f == Without(o.final, gone)
<1>1. o.base \in TrackFcns(BaseResult) /\ o.final \in TrackFcns(Keys)
  BY DEF Orchs
<1>2. b \in TrackFcns(BaseResult) /\ f \in TrackFcns(Keys)
  <2> HIDE DEF gone
  <2>1. QED
    BY <1>1, WithoutFacts, Zenon
<1>3. ForgetTracks(o, active) = [base |-> b, final |-> f]
  BY DEF ForgetTracks
<1>4. /\ DOMAIN b = DOMAIN o.base \cap active /\ DOMAIN f = DOMAIN o.final \cap active
      /\ \A t \in DOMAIN o.final \cap active : f[t] = o.final[t]
  BY DEF Without, Restrict
<1> HIDE DEF b, f
<1>5. QED
  BY <1>2, <1>3, <1>4 DEF Orchs

\* A detection that raises changes nothing; any other leaves a sound pipeline,
\* caches of what is there, and the windows of the tracks that survive.
LEMMA NodeDetectInv == RuntimeInv /\ NodeDetect => RuntimeInv'
<1> SUFFICES ASSUME RuntimeInv, NodeDetect PROVE RuntimeInv'
  OBVIOUS
<1>1. RuntimeTypes /\ SessionInv /\ PipeInv /\ OrchInv /\ StreakInv
  BY DEF RuntimeInv
<1>2. /\ node.pc = "detect" /\ Sound(pipe) /\ ~pipe.raised
      /\ UNCHANGED <<config, worker, sampler, motion>>
  BY <1>1 DEF NodeDetect, PipeInv
<1>3. node \in Nodes /\ node.count \in Nat /\ orch \in Orchs
  BY <1>1 DEF RuntimeTypes, Nodes
<1>4. CASE node' = [node EXCEPT !.pc = "get", !.packet = None] /\ UNCHANGED <<pipe, orch, recent>>
  <2>1. node' \in Nodes /\ node'.pc = "get" /\ node'.count = node.count
    BY <1>3, <1>4 DEF Nodes
  <2>2. RuntimeTypes'
    BY <1>1, <1>2, <1>4, <2>1 DEF RuntimeTypes, Nodes, Workers, Samplers, Motions
  <2>3. SessionInv'
    BY <1>1, <1>2, <1>4, <2>1 DEF SessionInv
  <2>4. PipeInv' /\ OrchInv' /\ StreakInv'
    BY <1>2, <1>4, <2>1, PipeFrame
  <2>5. QED
    BY <2>2, <2>3, <2>4 DEF RuntimeInv
<1>5. ASSUME NEW n \in 0 .. MaxDetections, NEW matched \in SUBSET DOMAIN pipe.tracks,
             Cardinality(matched) <= n, pipe' = PipelineUpdate(pipe, matched, n, node.count),
             orch' = IF config.faces /\ pipe'.active /= {} THEN ForgetTracks(orch, pipe'.active) ELSE orch,
             recent' = Restrict(recent, DOMAIN recent \cap DOMAIN pipe'.tracks),
             node' = [node EXCEPT !.pc = IF pipe'.raised THEN "error" ELSE "faces",
                                  !.todo = IF config.faces THEN pipe'.active ELSE {}]
      PROVE  RuntimeInv'
  <2>1. Updated(pipe, node.count, pipe')
    <3>1. n \in Nat
      BY RuntimeAssumption
    <3>2. Updated(pipe, node.count, PipelineUpdate(pipe, matched, n, node.count))
      BY <1>2, <1>3, <1>5, <3>1, UpdateFacts, Zenon
    <3>3. QED
      BY <1>5, <3>2
  <2>2. /\ Sound(pipe') /\ ~pipe'.raised /\ pipe'.confirmer = pipe.confirmer
        /\ pipe'.active \cap 1 .. (pipe.next - 1) \subseteq pipe.active
    BY <2>1 DEF Updated
  <2>3. /\ pipe'.active = DOMAIN pipe'.tracks /\ pipe'.active \subseteq Nat
        /\ 1 .. (pipe.next - 1) \subseteq 1 .. (pipe'.next - 1)
    <3>1. pipe.next \in Nat /\ pipe'.next \in Nat /\ pipe.next <= pipe'.next
      BY <1>2, <2>1, <2>2 DEF Sound, Pipes, Updated
    <3>2. QED
      BY <2>2, <3>1 DEF Sound, Pipes
  <2>4. /\ node' \in Nodes /\ node'.pc = "faces" /\ node'.count = node.count
        /\ node'.packet = node.packet /\ node'.todo = IF config.faces THEN pipe'.active ELSE {}
    BY <1>3, <1>5, <2>2, <2>3 DEF Nodes
  <2>5. /\ DOMAIN recent' = DOMAIN recent \cap pipe'.active
        /\ \A t \in DOMAIN recent' : recent'[t] = recent[t]
        /\ recent' \in TrackFcns(Seq(Keys))
    <3>1. DOMAIN recent \subseteq Nat /\ recent \in [DOMAIN recent -> Seq(Keys)]
      BY <1>1, TrackFcnType DEF RuntimeTypes
    <3>2. /\ DOMAIN recent' = DOMAIN recent \cap pipe'.active
          /\ \A t \in DOMAIN recent' : recent'[t] = recent[t]
          /\ recent' \in [DOMAIN recent' -> Seq(Keys)]
      BY <1>5, <2>3, <3>1 DEF Restrict
    <3>3. QED
      BY <3>1, <3>2, TrackFcnType
  <2>6. /\ orch' \in Orchs /\ DOMAIN orch'.final \subseteq DOMAIN orch'.base
        /\ DOMAIN orch'.base \subseteq DOMAIN orch.base
        /\ config.faces /\ pipe'.active /= {} => DOMAIN orch'.base \subseteq pipe'.active
        /\ ~config.faces => orch' = orch
        /\ \A t \in DOMAIN orch'.final : t \in DOMAIN orch.final /\ orch'.final[t] = orch.final[t]
    <3>1. DOMAIN orch.final \subseteq DOMAIN orch.base
      BY <1>1 DEF OrchInv
    <3>2. CASE config.faces /\ pipe'.active /= {}
      <4>1. orch' = ForgetTracks(orch, pipe'.active)
        BY <1>5, <3>2
      <4>2. QED
        BY <1>3, <2>3, <3>1, <3>2, <4>1, ForgetFacts
    <3>3. CASE ~(config.faces /\ pipe'.active /= {})
      BY <1>3, <1>5, <3>1, <3>3
    <3>4. QED
      BY <3>2, <3>3
  <2>7. PipeInv'
    BY <2>2 DEF PipeInv
  <2>8. OrchInv'
    <3>1. /\ DOMAIN orch'.base \subseteq 1 .. (pipe'.next - 1)
          /\ pipe'.confirmer = config.faces
      BY <1>1, <2>2, <2>3, <2>6 DEF OrchInv
    <3>2. ~config.faces => orch' = NewOrchestrator /\ DOMAIN orch'.base = {}
      BY <1>1, <2>6, EmptyFacts DEF OrchInv, NewOrchestrator
    <3>3. QED
      BY <1>2, <2>4, <2>5, <2>6, <3>1, <3>2 DEF OrchInv
  <2>9. StreakInv'
    <3>1. \A t \in DOMAIN recent' : Len(recent'[t]) <= MinConfirmations
      BY <1>1, <2>5 DEF StreakInv
    <3>2. ASSUME NEW t \in DOMAIN pipe'.evidence
          PROVE  /\ t \in DOMAIN recent'
                 /\ Streak(recent'[t], pipe'.evidence[t].count, pipe'.evidence[t].key)
      <4>1. t \in DOMAIN pipe.evidence /\ pipe'.evidence[t] = pipe.evidence[t] /\ t \in pipe'.active
        BY <2>1, <2>2 DEF Updated, Sound
      <4>2. t \in DOMAIN recent /\ Streak(recent[t], pipe.evidence[t].count, pipe.evidence[t].key)
        BY <1>1, <4>1 DEF StreakInv
      <4>3. QED
        BY <2>5, <4>1, <4>2
    <3>3. ASSUME NEW t \in DOMAIN orch'.final \cap pipe'.active, orch'.final[t] \in People
          PROVE  t \in DOMAIN recent' /\ Streak(recent'[t], MinConfirmations, orch'.final[t])
      <4>1. t \in DOMAIN orch.final /\ orch'.final[t] = orch.final[t] /\ t \in pipe'.active
        BY <2>6
      <4>2. t \in pipe.active
        BY <1>1, <2>2, <4>1 DEF OrchInv
      <4>3. t \in DOMAIN recent /\ Streak(recent[t], MinConfirmations, orch.final[t])
        BY <1>1, <3>3, <4>1, <4>2 DEF StreakInv
      <4>4. QED
        BY <2>5, <4>1, <4>3
    <3>4. ASSUME pipe'.state = "KNOWN"
          PROVE  \E who \in People : /\ pipe'.analysis \in DOMAIN recent'
                                     /\ Streak(recent'[pipe'.analysis], MinConfirmations, who)
      <4>1. pipe.state = "KNOWN" /\ pipe'.analysis = pipe.analysis
        BY <2>1, <3>4 DEF Updated
      <4>2. pipe'.analysis \in pipe'.active
        BY <2>2, <3>4 DEF Sound, Settled
      <4>3. PICK who \in People : /\ pipe.analysis \in DOMAIN recent
                                  /\ Streak(recent[pipe.analysis], MinConfirmations, who)
        BY <1>1, <4>1 DEF StreakInv
      <4>4. QED
        BY <2>5, <4>1, <4>2, <4>3
    <3>5. QED
      BY <3>1, <3>2, <3>3, <3>4 DEF StreakInv
  <2>10. SessionInv'
    <3>1. \A t \in DOMAIN pipe'.tracks : pipe'.tracks[t].session = node.count
      BY <1>1, <2>1 DEF Updated, SessionInv
    <3>2. QED
      BY <1>1, <1>2, <2>4, <3>1 DEF SessionInv
  <2>11. RuntimeTypes'
    BY <1>1, <1>2, <2>4, <2>5, <2>6 DEF RuntimeTypes, Workers, Samplers, Motions
  <2>12. QED
    BY <2>7, <2>8, <2>9, <2>10, <2>11 DEF RuntimeInv
<1>6. QED
  BY <1>4, <1>5 DEF NodeDetect

\* The recognitions of one track: a streak grows with the evidence, and nobody
\* has a name that the streak does not carry.
LEMMA FaceStreak ==
    ASSUME RuntimeInv, NEW t \in pipe.active, NEW c \in FaceChoices, NEW d,
           Processed(pipe, orch, t, c, d), pipe' = d.pipe, orch' = d.orch,
           recent' = IF d.seen = None THEN recent ELSE Remember(t, d.seen, c.expired)
    PROVE  /\ StreakInv' /\ recent' \in TrackFcns(Seq(Keys))
           /\ DOMAIN recent' \subseteq DOMAIN recent \cup {t}
<1> USE DEF Processed
<1>1. /\ RuntimeTypes /\ PipeInv /\ OrchInv /\ StreakInv
  BY DEF RuntimeInv
<1>2. /\ t \in Nat /\ c.expired \in BOOLEAN /\ recent \in TrackFcns(Seq(Keys))
      /\ pipe.evidence \in TrackFcns(Evidence)
  BY <1>1 DEF PipeInv, Sound, Pipes, FaceChoices, RuntimeTypes
<1>3. pipe.active = pipe'.active
  OBVIOUS
<1>4. CASE d.seen = None
  <2>1. recent' = recent /\ pipe'.evidence = pipe.evidence
    BY <1>4
  <2>2. ASSUME NEW x \in DOMAIN orch'.final \cap pipe'.active, orch'.final[x] \in People
        PROVE  x \in DOMAIN recent' /\ Streak(recent'[x], MinConfirmations, orch'.final[x])
    <3>1. x \in DOMAIN orch.final /\ orch'.final[x] = orch.final[x]
      BY <1>4, <2>2, PeopleAssumption
    <3>2. x \in DOMAIN recent /\ Streak(recent[x], MinConfirmations, orch.final[x])
      BY <1>1, <1>3, <2>2, <3>1 DEF StreakInv
    <3>3. QED
      BY <2>1, <3>1, <3>2
  <2>3. pipe'.state = "KNOWN" => \E who \in People :
          /\ pipe'.analysis \in DOMAIN recent'
          /\ Streak(recent'[pipe'.analysis], MinConfirmations, who)
    <3>1. pipe'.state = pipe.state /\ pipe'.analysis = pipe.analysis
      BY <1>4
    <3>2. QED
      BY <1>1, <2>1, <3>1 DEF StreakInv
  <2>4. StreakInv'
    BY <1>1, <2>1, <2>2, <2>3 DEF StreakInv
  <2>5. QED
    BY <1>2, <2>1, <2>4
<1>5. CASE d.seen /= None
  <2> DEFINE key == d.seen
             old == IF t \in DOMAIN recent /\ ~c.expired THEN recent[t] ELSE <<>>
             w == Window(key, old)
             e == pipe.evidence
             k == IF t \in DOMAIN e /\ e[t].key = key /\ ~c.expired THEN e[t].count ELSE 0
  <2>1. key \in Keys /\ pipe'.evidence = Confirm(e, t, key, c.expired)
    BY <1>5
  <2>2. Confirmed(e, t, key, c.expired, pipe'.evidence)
    <3> HIDE DEF key, e
    <3>1. e \in TrackFcns(Evidence)
      BY <1>2 DEF e
    <3>2. Confirmed(e, t, key, c.expired, Confirm(e, t, key, c.expired))
      BY <1>2, <2>1, <3>1, ConfirmFacts, Zenon
    <3>3. QED
      BY <2>1, <3>2
  <2>3. old \in Seq(Keys)
    BY <1>2, TrackFcnType
  <2>4. recent' = Put(recent, t, w)
    BY <1>5 DEF Remember, Window
  <2>5. k \in Nat /\ CountAfter(e, t, key, c.expired) = k + 1
    <3>1. e \in [DOMAIN e -> Evidence]
      BY <1>2, TrackFcnType
    <3>2. QED
      BY <3>1 DEF CountAfter, Evidence
  <2>6. Streak(old, k, key)
    <3>1. CASE t \in DOMAIN e /\ e[t].key = key /\ ~c.expired
      <4>1. t \in DOMAIN recent /\ Streak(recent[t], e[t].count, e[t].key)
        BY <1>1, <3>1 DEF StreakInv
      <4>2. QED
        BY <3>1, <4>1
    <3>2. CASE ~(t \in DOMAIN e /\ e[t].key = key /\ ~c.expired)
      <4>1. k = 0
        BY <3>2
      <4> HIDE DEF k, old
      <4>2. Len(old) \in Nat
        BY <2>3
      <4>3. QED
        BY <4>1, <4>2 DEF Streak
    <3>3. QED
      BY <3>1, <3>2
  <2> HIDE DEF key, old, k
  <2>7. /\ w \in Seq(Keys) /\ Streak(w, Capped(k + 1), key)
        /\ Len(w) <= MinConfirmations
    <3>1. w \in Seq(Keys) /\ Len(w) = Capped(Len(old) + 1)
      BY <2>1, <2>3, WindowFacts
    <3>2. Len(old) \in Nat
      BY <2>3
    <3>3. Capped(Len(old) + 1) <= MinConfirmations
      BY <3>2, PolicyAssumption DEF Capped
    <3>4. QED
      BY <2>1, <2>3, <2>5, <2>6, <3>1, <3>3, StreakGrows
  <2> HIDE DEF w, e
  <2>8. /\ DOMAIN recent' = DOMAIN recent \cup {t} /\ recent'[t] = w
        /\ \A x \in DOMAIN recent \ {t} : recent'[x] = recent[x]
    BY <2>4 DEF Put
  <2>9. recent' \in TrackFcns(Seq(Keys))
    <3>1. w \in Seq(Keys) /\ t \in Nat /\ recent \in TrackFcns(Seq(Keys))
      BY <1>2, <2>7
    <3>2. Put(recent, t, w) \in TrackFcns(Seq(Keys))
      BY <3>1, PutFacts, Zenon
    <3>3. QED
      BY <2>4, <3>2
  <2>10. /\ DOMAIN pipe'.evidence = DOMAIN e \cup {t}
         /\ pipe'.evidence[t] = [key |-> key, count |-> Capped(k + 1)]
         /\ \A x \in DOMAIN e \ {t} : pipe'.evidence[x] = e[x]
    BY <2>2, <2>5 DEF Confirmed
  <2>11. IsConfirmed(pipe', t) => Streak(w, MinConfirmations, key)
    <3> DEFINE n == Capped(k + 1)
    <3>1. pipe'.evidence[t].count = n
      BY <2>10
    <3>2. n \in Nat /\ n <= MinConfirmations
      BY <2>5, PolicyAssumption DEF Capped
    <3>3. Streak(w, n, key)
      BY <2>7
    <3> HIDE DEF n
    <3>4. IsConfirmed(pipe', t) => n = MinConfirmations
      BY <3>1, <3>2, PolicyAssumption DEF IsConfirmed
    <3>5. QED
      BY <3>3, <3>4
  <2>12. \A x \in DOMAIN recent' : Len(recent'[x]) <= MinConfirmations
    BY <1>1, <2>7, <2>8 DEF StreakInv
  <2>13. ASSUME NEW x \in DOMAIN pipe'.evidence
         PROVE  /\ x \in DOMAIN recent'
                /\ Streak(recent'[x], pipe'.evidence[x].count, pipe'.evidence[x].key)
    <3>1. CASE x = t
      <4>1. pipe'.evidence[x].count = Capped(k + 1) /\ pipe'.evidence[x].key = key
        BY <2>10, <3>1
      <4>2. QED
        BY <2>7, <2>8, <3>1, <4>1
    <3>2. CASE x /= t
      <4>1. x \in DOMAIN e /\ pipe'.evidence[x] = e[x]
        BY <2>10, <3>2
      <4>2. x \in DOMAIN recent /\ Streak(recent[x], e[x].count, e[x].key)
        BY <1>1, <4>1 DEF StreakInv, e
      <4>3. QED
        BY <2>8, <3>2, <4>1, <4>2
    <3>3. QED
      BY <3>1, <3>2
  <2>14. ASSUME NEW x \in DOMAIN orch'.final \cap pipe'.active, orch'.final[x] \in People
         PROVE  x \in DOMAIN recent' /\ Streak(recent'[x], MinConfirmations, orch'.final[x])
    <3>1. CASE x = t
      <4>1. orch'.final[x] = key /\ IsConfirmed(pipe', t)
        BY <1>5, <2>14, <3>1 DEF key
      <4>2. QED
        BY <2>8, <2>11, <3>1, <4>1
    <3>2. CASE x /= t
      <4>1. x \in DOMAIN orch.final /\ orch'.final[x] = orch.final[x]
        BY <2>14, <3>2
      <4>2. x \in DOMAIN recent /\ Streak(recent[x], MinConfirmations, orch.final[x])
        BY <1>1, <1>3, <2>14, <4>1 DEF StreakInv
      <4>3. QED
        BY <2>8, <3>2, <4>1, <4>2
    <3>3. QED
      BY <3>1, <3>2
  <2>15. ASSUME pipe'.state = "KNOWN"
         PROVE  \E who \in People : /\ pipe'.analysis \in DOMAIN recent'
                                    /\ Streak(recent'[pipe'.analysis], MinConfirmations, who)
    <3>1. pipe'.analysis = t /\ IsConfirmed(pipe', t) /\ key /= "unknown"
      BY <1>5, <2>15 DEF key
    <3>2. key \in People
      BY <2>1, <3>1 DEF Keys
    <3>3. QED
      BY <2>8, <2>11, <3>1, <3>2
  <2>16. StreakInv'
    BY <2>12, <2>13, <2>14, <2>15 DEF StreakInv
  <2>17. QED
    BY <2>8, <2>9, <2>16
<1>6. QED
  BY <1>4, <1>5

LEMMA NodeFaceInv == RuntimeInv /\ NodeFace => RuntimeInv'
<1> SUFFICES ASSUME RuntimeInv, NodeFace PROVE RuntimeInv'
  OBVIOUS
<1> DEFINE t == CHOOSE u \in node.todo : \A v \in node.todo : u <= v
<1>1. RuntimeTypes /\ SessionInv /\ PipeInv /\ OrchInv /\ StreakInv
  BY DEF RuntimeInv
<1>2. /\ node.pc = "faces" /\ node.todo /= {} /\ Sound(pipe) /\ ~pipe.raised
      /\ UNCHANGED <<config, worker, sampler, motion>>
  BY <1>1 DEF NodeFace, PipeInv
<1>3. node \in Nodes /\ orch \in Orchs /\ node.todo \in SUBSET Nat
  BY <1>1 DEF RuntimeTypes, Nodes
<1>4. t \in node.todo
  <2>1. \E u \in node.todo : \A v \in node.todo : u <= v
    BY <1>2, <1>3, LeastTrack
  <2>2. QED
    BY <2>1, Zenon
<1>5. t \in pipe.active /\ config.faces /\ DOMAIN orch.base \subseteq pipe.active
  BY <1>1, <1>2, <1>4 DEF OrchInv
<1>6. PICK c \in FaceChoices :
        LET d == ProcessTrack(pipe, orch, t, c)
        IN /\ pipe' = d.pipe
           /\ orch' = d.orch
           /\ recent' = IF d.seen = None THEN recent ELSE Remember(t, d.seen, c.expired)
           /\ node' = [node EXCEPT !.todo = @ \ {t}, !.pc = IF d.pipe.raised THEN "error" ELSE @]
  BY DEF NodeFace
<1> DEFINE d == ProcessTrack(pipe, orch, t, c)
<1> HIDE DEF t
<1>7. Processed(pipe, orch, t, c, d)
  <2>1. DOMAIN orch.final \subseteq DOMAIN orch.base
    BY <1>1 DEF OrchInv
  <2>2. QED
    BY <1>2, <1>3, <1>5, <2>1, ProcessFacts, Zenon
<1>8. /\ pipe' = d.pipe /\ orch' = d.orch
      /\ recent' = IF d.seen = None THEN recent ELSE Remember(t, d.seen, c.expired)
      /\ node' = [node EXCEPT !.todo = node.todo \ {t},
                              !.pc = IF pipe'.raised THEN "error" ELSE node.pc]
  BY <1>6
<1> HIDE DEF d
<1>9. /\ StreakInv' /\ recent' \in TrackFcns(Seq(Keys))
      /\ DOMAIN recent' \subseteq DOMAIN recent \cup {t}
  BY <1>5, <1>7, <1>8, FaceStreak
<1>10. /\ Sound(pipe') /\ pipe'.tracks = pipe.tracks /\ pipe'.next = pipe.next
       /\ pipe'.confirmer = pipe.confirmer /\ pipe'.active = pipe.active
       /\ orch' \in Orchs /\ DOMAIN orch'.final \subseteq DOMAIN orch'.base
       /\ DOMAIN orch'.base \subseteq DOMAIN orch.base \cup {t}
  BY <1>7, <1>8 DEF Processed
<1>11. /\ node' \in Nodes /\ node'.packet = node.packet /\ node'.count = node.count
       /\ node'.todo \subseteq node.todo
       /\ node'.pc = IF pipe'.raised THEN "error" ELSE "faces"
  BY <1>2, <1>3, <1>8 DEF Nodes
<1>12. PipeInv'
  BY <1>10, <1>11 DEF PipeInv
<1>13. OrchInv'
  <2>1. t \in 1 .. (pipe.next - 1)
    BY <1>2, <1>5 DEF Sound
  <2>2. QED
    BY <1>1, <1>2, <1>5, <1>9, <1>10, <1>11, <2>1 DEF OrchInv
<1>14. SessionInv'
  BY <1>1, <1>2, <1>10, <1>11 DEF SessionInv
<1>15. RuntimeTypes'
  BY <1>1, <1>2, <1>9, <1>10, <1>11 DEF RuntimeTypes, Workers, Samplers, Motions
<1>16. QED
  BY <1>9, <1>12, <1>13, <1>14, <1>15 DEF RuntimeInv

LEMMA NodeDoneInv == RuntimeInv /\ NodeDone => RuntimeInv'
<1> SUFFICES ASSUME RuntimeInv, NodeDone PROVE RuntimeInv'
  OBVIOUS
<1>1. RuntimeTypes /\ SessionInv /\ PipeInv /\ OrchInv /\ StreakInv
  BY DEF RuntimeInv
<1>2. /\ Sound(pipe) /\ ~pipe.raised /\ UNCHANGED <<config, worker, sampler, motion, orch, recent>>
      /\ node' = [node EXCEPT !.pc = "get", !.packet = None]
  BY <1>1 DEF NodeDone, PipeInv
<1>3. node' \in Nodes /\ node'.pc = "get" /\ node'.count = node.count
  BY <1>1, <1>2 DEF RuntimeTypes, Nodes
<1>4. RuntimeTypes'
  BY <1>1, <1>2, <1>3 DEF RuntimeTypes, Workers, Samplers, Motions
<1>5. CASE UNCHANGED pipe
  <2>1. PipeInv' /\ OrchInv' /\ StreakInv'
    BY <1>2, <1>3, <1>5, PipeFrame
  <2>2. SessionInv'
    BY <1>1, <1>2, <1>3, <1>5 DEF SessionInv
  <2>3. QED
    BY <1>4, <2>1, <2>2 DEF RuntimeInv
<1>6. CASE \E t \in pipe.active : pipe' = BeginFaceAnalysis(pipe, t)
  <2>1. PICK t \in pipe.active : pipe' = BeginFaceAnalysis(pipe, t)
    BY <1>6
  <2>2. /\ pipe' = [pipe EXCEPT !.analysis = t, !.state = "FACE_ANALYSIS"]
        /\ Sound(pipe') /\ ~pipe'.raised
    BY <1>2, <2>1, BeginFacts
  <2>3. /\ pipe'.tracks = pipe.tracks /\ pipe'.active = pipe.active /\ pipe'.next = pipe.next
        /\ pipe'.evidence = pipe.evidence /\ pipe'.confirmer = pipe.confirmer
        /\ pipe'.state = "FACE_ANALYSIS"
    BY <1>2, <2>2 DEF Sound, Pipes
  <2>4. PipeInv'
    BY <2>2 DEF PipeInv
  <2>5. OrchInv'
    BY <1>1, <1>2, <1>3, <2>3 DEF OrchInv
  <2>6. StreakInv'
    BY <1>1, <1>2, <2>3 DEF StreakInv
  <2>7. SessionInv'
    BY <1>1, <1>2, <1>3, <2>3 DEF SessionInv
  <2>8. QED
    BY <1>4, <2>4, <2>5, <2>6, <2>7 DEF RuntimeInv
<1>7. QED
  BY <1>5, <1>6 DEF NodeDone

LEMMA NodeErrorInv == RuntimeInv /\ NodeError => RuntimeInv'
<1> SUFFICES ASSUME RuntimeInv, NodeError PROVE RuntimeInv'
  OBVIOUS
<1>1. RuntimeTypes /\ SessionInv /\ PipeInv /\ OrchInv /\ StreakInv
  BY DEF RuntimeInv
<1>2. /\ UNCHANGED <<config, worker, sampler, motion, orch, recent>>
      /\ pipe' = [pipe EXCEPT !.raised = FALSE]
      /\ node' = [node EXCEPT !.pc = "get", !.packet = None, !.todo = {}]
  BY DEF NodeError
<1>3. node' \in Nodes /\ node'.pc = "get" /\ node'.count = node.count
  BY <1>1, <1>2 DEF RuntimeTypes, Nodes
<1>4. /\ pipe' \in Pipes /\ pipe'.tracks = pipe.tracks /\ pipe'.active = pipe.active
      /\ pipe'.next = pipe.next /\ pipe'.evidence = pipe.evidence /\ pipe'.state = pipe.state
      /\ pipe'.analysis = pipe.analysis /\ pipe'.confirmer = pipe.confirmer /\ ~pipe'.raised
  BY <1>1, <1>2 DEF PipeInv, Sound, Pipes
<1>5. PipeInv'
  BY <1>1, <1>4 DEF PipeInv, Sound
<1>6. OrchInv'
  BY <1>1, <1>2, <1>3, <1>4 DEF OrchInv
<1>7. StreakInv'
  BY <1>1, <1>2, <1>4 DEF StreakInv
<1>8. SessionInv'
  BY <1>1, <1>2, <1>3, <1>4 DEF SessionInv
<1>9. RuntimeTypes'
  BY <1>1, <1>2, <1>3 DEF RuntimeTypes, Workers, Samplers, Motions
<1>10. QED
  BY <1>5, <1>6, <1>7, <1>8, <1>9 DEF RuntimeInv

-----------------------------------------------------------------------------
(* The theorems.                                                           *)

LEMMA RuntimeNextInv == RuntimeInv /\ [RuntimeNext]_runtimeVars => RuntimeInv'
<1> SUFFICES ASSUME RuntimeInv, [RuntimeNext]_runtimeVars PROVE RuntimeInv'
  OBVIOUS
<1>1. CASE Others
  BY <1>1, WorkerReconnectInv, WorkerEndsInv, SamplerAcceptInv, StartRuntimeInv, StopRuntimeInv, Zenon
     DEF Others
<1>2. CASE Node
  BY <1>2, NodeGetInv, NodeCheckInv, NodeMotionInv, NodeDetectInv, NodeFaceInv, NodeDoneInv,
     NodeErrorInv, Zenon DEF Node
<1>3. CASE UNCHANGED runtimeVars
  <2>1. PipeInv' /\ OrchInv' /\ StreakInv'
    BY <1>3 DEF runtimeVars, RuntimeInv, PipeInv, OrchInv, StreakInv, Sound
  <2>2. RuntimeTypes' /\ SessionInv'
    BY <1>3 DEF runtimeVars, RuntimeInv, RuntimeTypes, SessionInv
  <2>3. QED
    BY <2>1, <2>2 DEF RuntimeInv
<1>4. QED
  BY <1>1, <1>2, <1>3 DEF RuntimeNext

\* Whatever frames, reconnects, failures, stops and restarts come, the runtime,
\* its tracking and its recognition keep the inductive invariant.
THEOREM RuntimeAgrees == RuntimeSpec => []RuntimeInv
<1>1. RuntimeInit => RuntimeInv
  BY RuntimeInitInv
<1>2. RuntimeInv /\ [RuntimeNext]_runtimeVars => RuntimeInv'
  BY RuntimeNextInv
<1>3. QED
  BY <1>1, <1>2, PTL DEF RuntimeSpec

LEMMA RuntimeInvTyped == RuntimeInv => RuntimeTypeOK
BY DEF RuntimeInv, RuntimeTypes, PipeInv, Sound, Pipes, Nodes, Motions, Workers, Samplers, RuntimeTypeOK

\* The variables of the runtime keep their types and bounds (runtime.py).
THEOREM RuntimeTyped == RuntimeSpec => []RuntimeTypeOK
<1>1. QED
  BY RuntimeInvTyped, RuntimeAgrees, PTL

\* The tracker, the state machine, the confirmer and the orchestrator agree
\* about who is there (tracking/pipeline.py, tracking/state.py).
THEOREM TrackingAlwaysAgrees == RuntimeSpec => []TrackingAgrees
<1>1. RuntimeInv => TrackingAgrees
  BY DEF RuntimeInv, PipeInv, Sound, OrchInv, TrackingAgrees
<1>2. QED
  BY <1>1, RuntimeAgrees, PTL

\* A name needs MinConfirmations recognitions of that person in a row
\* (face/confirmation.py).
THEOREM NamesAreConfirmed == RuntimeSpec => []IdentityIsConfirmed
<1>1. ASSUME RuntimeInv PROVE IdentityIsConfirmed
  <2>1. StreakInv /\ RuntimeTypes
    BY <1>1 DEF RuntimeInv
  <2>2. recent \in [DOMAIN recent -> Seq(Keys)]
    BY <2>1, TrackFcnType DEF RuntimeTypes
  <2>3. ASSUME NEW t \in DOMAIN orch.final \cap pipe.active, orch.final[t] \in People
        PROVE  t \in DOMAIN recent /\ recent[t] = [i \in 1 .. MinConfirmations |-> orch.final[t]]
    <3>1. /\ t \in DOMAIN recent /\ Streak(recent[t], MinConfirmations, orch.final[t])
          /\ Len(recent[t]) <= MinConfirmations /\ recent[t] \in Seq(Keys)
      BY <2>1, <2>2, <2>3 DEF StreakInv
    <3>2. QED
      BY <3>1, FullStreak
  <2>4. ASSUME pipe.state = "KNOWN"
        PROVE  \E who \in People : recent[pipe.analysis] = [i \in 1 .. MinConfirmations |-> who]
    <3>1. PICK who \in People : /\ pipe.analysis \in DOMAIN recent
                                /\ Streak(recent[pipe.analysis], MinConfirmations, who)
      BY <2>1, <2>4 DEF StreakInv
    <3>2. Len(recent[pipe.analysis]) <= MinConfirmations /\ recent[pipe.analysis] \in Seq(Keys)
      BY <2>1, <2>2, <3>1 DEF StreakInv
    <3>3. QED
      BY <3>1, <3>2, FullStreak
  <2>5. QED
    BY <2>3, <2>4 DEF IdentityIsConfirmed
<1>2. QED
  BY <1>1, RuntimeAgrees, PTL

\* No frame is looked at before the reconnect that preceded it was noticed
\* (runtime.py, _run).
THEOREM ReconnectsAreNoticed == RuntimeSpec => []ReconnectNoticedFirst
<1>1. RuntimeInv => ReconnectNoticedFirst
  BY DEF RuntimeInv, SessionInv, ReconnectNoticedFirst
<1>2. QED
  BY <1>1, RuntimeAgrees, PTL

=============================================================================
