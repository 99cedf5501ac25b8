----------------------- MODULE StreamingServiceProofs -----------------------
(***************************************************************************)
(* Proofs about StreamingService.  A handler is a composition of methods,  *)
(* operators from a service to a service, so that there is one lemma per   *)
(* method, and one per handler that puts them together.  Two invariants    *)
(* need no knowledge of each other: PipesOK is about the pipelines and the *)
(* messages about them, ControlOK about the state, the timer and the       *)
(* request.                                                                *)
(***************************************************************************)
EXTENDS StreamingService, FiniteSetTheorems, TLAPS

Pipes == [live : BOOLEAN, ready : BOOLEAN, surfaceLost : BOOLEAN,
          bind : Networks \cup {None}, output : Outputs \cup {None}]

Letters == [kind : MessageKinds, pipe : Pipelines, gen : Nat, retry : BOOLEAN]

Services ==
    [state : States, preview : PreviewStates, wifi : Networks \cup {None},
     resume : BOOLEAN, requested : BOOLEAN, attempts : 0 .. MaxRetry,
     timer : BOOLEAN, rejected : BOOLEAN, active : Pipelines \cup {None},
     pipelines : [Pipelines -> Pipes], queue : Seq(Letters)]

\* An output has announced its format when a message says so that carries its
\* generation: no message is left that speaks for it before.
Spoken(s, p) ==
    \A i \in DOMAIN s.queue :
        /\ s.queue[i].kind = "format" /\ s.queue[i].pipe = p
        /\ s.queue[i].gen = s.pipelines[p].output.gen
        => s.pipelines[p].output.announced

\* One pipeline at most is live, a closed one keeps nothing, an output needs a
\* camera that is ready, and its server an encoder that announced its format.
PipeOK(s, p) ==
    /\ s.pipelines[p].live => p = s.active
    /\ s.pipelines[p].live \/ s.pipelines[p] = ClosedPipeline
    /\ s.pipelines[p].output # None =>
         /\ s.pipelines[p].ready
         /\ s.pipelines[p].output.serving => s.pipelines[p].output.announced
         /\ Spoken(s, p)

PipesOK(s) == \A p \in Pipelines : PipeOK(s, p)

\* Between handlers the machine does not rest in STOPPING.
Rests(s) == s.state # "STOPPING" \/ s.rejected

\* And what is underway or will be retried is requested, and no retry is
\* pending for what is underway.
ControlOK(s) ==
    /\ Rests(s)
    /\ s.timer \/ s.state \in Underway => s.requested
    /\ s.timer => s.state \notin Underway

Good(s) == s \in Services /\ PipesOK(s)

SamePipes(s, r) ==
    r.active = s.active /\ r.pipelines = s.pipelines /\ r.queue = s.queue

\* The state and the request stay; a retry may be cancelled.
SameControl(s, r) ==
    /\ r.state = s.state /\ r.requested = s.requested /\ r.rejected = s.rejected
    /\ r.timer => s.timer

\* What a method of the pipeline or of its controller does to a service.
Works(s, r) == Good(r) /\ SameControl(s, r)

\* What asking for the output does: the state stays or waits for a network.
Asked(s, r) ==
    /\ Good(r)
    /\ r.requested = s.requested
    /\ r.timer => s.timer
    /\ r.state = s.state \/ r.state = "WAITING"
    /\ s.rejected => r.rejected

\* What a transition does.
Moved(s, r, next) ==
    /\ r \in Services /\ SamePipes(s, r)
    /\ r.requested = s.requested /\ r.timer = s.timer
    /\ IF next = s.state \/ next \in Allowed[s.state]
         THEN r.state = next /\ r.rejected = s.rejected
         ELSE r.state = s.state /\ r.rejected

-----------------------------------------------------------------------------
(* Predicates on services.                                                 *)

LEMMA SamePipesGood ==
  ASSUME NEW s, NEW r, Good(s), r \in Services, SamePipes(s, r)
  PROVE  Good(r)
BY DEF Good, SamePipes, PipesOK, PipeOK, Spoken

LEMMA WorksTwice ==
  ASSUME NEW s, NEW r, NEW t, Works(s, r), Works(r, t)
  PROVE  Works(s, t)
BY DEF Works, SameControl

LEMMA WorksAsked ==
  ASSUME NEW s, NEW r, NEW t, Works(s, r), Asked(r, t)
  PROVE  Asked(s, t)
BY DEF Works, SameControl, Asked

LEMMA WorksIsAsked ==
  ASSUME NEW s, NEW r, Works(s, r)
  PROVE  Asked(s, r)
BY DEF Works, SameControl, Asked

LEMMA WorksControl ==
  ASSUME NEW s, NEW r, ControlOK(s), Works(s, r)
  PROVE  ControlOK(r)
BY DEF Works, SameControl, ControlOK, Rests

LEMMA AskedControl ==
  ASSUME NEW s, NEW r, Asked(s, r), Rests(s),
         s.requested, ~s.timer
  PROVE  ControlOK(r)
BY DEF Asked, ControlOK, Rests

\* A transition that is not allowed leaves the state as it is.
LEMMA TransitionMoves ==
  ASSUME NEW s \in Services, NEW next \in States
  PROVE  Moved(s, TransitionTo(s, next), next)
<1>1. CASE next = s.state \/ next \in Allowed[s.state]
  <2>1. TransitionTo(s, next) = [s EXCEPT !.state = next]
    BY <1>1 DEF TransitionTo
  <2>2. [s EXCEPT !.state = next] \in Services
    BY DEF Services
  <2>3. QED
    BY <1>1, <2>1, <2>2 DEF Moved, SamePipes, Services
<1>2. CASE ~(next = s.state \/ next \in Allowed[s.state])
  <2>1. TransitionTo(s, next) = [s EXCEPT !.rejected = TRUE]
    BY <1>2 DEF TransitionTo
  <2>2. [s EXCEPT !.rejected = TRUE] \in Services
    BY DEF Services
  <2>3. QED
    BY <1>2, <2>1, <2>2 DEF Moved, SamePipes, Services
<1>3. QED
  BY <1>1, <1>2

-----------------------------------------------------------------------------
(* The pipeline.                                                           *)

\* A number that no message carries exists: there are more numbers than
\* messages.
LEMMA FreshIsFresh ==
  ASSUME NEW s \in Services
  PROVE  /\ FreshGeneration(s) \in Nat \ {0}
         /\ \A i \in DOMAIN s.queue : s.queue[i].gen # FreshGeneration(s)
<1> DEFINE n == Len(s.queue)
           Carried(g, i) == s.queue[i].gen = g
           place == [g \in 1 .. n + 1 |-> CHOOSE i \in 1 .. n : Carried(g, i)]
<1>1. n \in Nat /\ DOMAIN s.queue = 1 .. n
  BY DEF Services
<1>2. \E g \in 1 .. n + 1 : \A i \in 1 .. n : s.queue[i].gen # g
  <2>1. SUFFICES ASSUME \A g \in 1 .. n + 1 : \E i \in 1 .. n : Carried(g, i)
                 PROVE  FALSE
    OBVIOUS
  <2>2. ASSUME NEW g \in 1 .. n + 1
        PROVE  place[g] \in 1 .. n /\ s.queue[place[g]].gen = g
    BY <2>1
  <2>3. place \in [1 .. n + 1 -> 1 .. n]
    BY <2>2
  <2>4. /\ IsFiniteSet(1 .. n) /\ Cardinality(1 .. n) = n
        /\ IsFiniteSet(1 .. n + 1) /\ Cardinality(1 .. n + 1) = n + 1
    BY <1>1, FS_Interval
  <2>5. \E x, y \in 1 .. n + 1 : x # y /\ place[x] = place[y]
    <3> HIDE DEF place, n
    <3>1. Cardinality(1 .. n) < Cardinality(1 .. n + 1)
      BY <1>1, <2>4
    <3>2. QED
      BY <2>3, <2>4, <3>1, FS_PigeonHole
  <2>6. QED
    BY <2>2, <2>5
<1>3. \E g \in 1 .. n + 1 : \A m \in ToSet(s.queue) : m.gen # g
  BY <1>1, <1>2 DEF ToSet
<1>4. /\ FreshGeneration(s) \in 1 .. n + 1
      /\ \A m \in ToSet(s.queue) : m.gen # FreshGeneration(s)
  BY <1>3 DEF FreshGeneration
<1>5. QED
  BY <1>1, <1>4 DEF ToSet

LEMMA PostWorks ==
  ASSUME NEW s, NEW m \in Letters, Good(s),
         m.kind = "format" => s.pipelines[m.pipe].output.announced
  PROVE  Works(s, Post(s, m))
<1> DEFINE r == Post(s, m)
<1>1. s \in Services /\ s.queue \in Seq(Letters)
  BY DEF Good, Services
<1>2. /\ r = [s EXCEPT !.queue = Append(s.queue, m)]
      /\ Append(s.queue, m) \in Seq(Letters)
  BY <1>1 DEF Post
<1>3. r \in Services
  BY <1>1, <1>2 DEF Services
<1>4. /\ r.pipelines = s.pipelines /\ r.active = s.active
      /\ r.queue = Append(s.queue, m) /\ SameControl(s, r)
  BY <1>1, <1>2 DEF Services, SameControl
<1> HIDE DEF r
<1>5. ASSUME NEW i \in DOMAIN r.queue
      PROVE  (i \in DOMAIN s.queue /\ r.queue[i] = s.queue[i]) \/ r.queue[i] = m
  BY <1>1, <1>4, <1>5
<1>6. PipesOK(r)
  <2>1. ASSUME NEW p \in Pipelines PROVE PipeOK(r, p)
    <3>1. PipeOK(s, p)
      BY DEF Good, PipesOK
    <3>2. Spoken(s, p) => Spoken(r, p)
      BY <1>4, <1>5 DEF Spoken
    <3>3. QED
      BY <1>4, <3>1, <3>2 DEF PipeOK
  <2>2. QED
    BY <2>1 DEF PipesOK
<1>7. Works(s, r)
  BY <1>3, <1>4, <1>6 DEF Works, Good
<1>8. QED
  BY <1>7 DEF r

LEMMA LetterTypes ==
  ASSUME NEW kind \in MessageKinds, NEW p \in Pipelines
  PROVE  /\ Message(kind, p) \in Letters /\ Message(kind, p).kind = kind
         /\ \A outcome : Failure(kind, p, outcome) \in Letters
                         /\ Failure(kind, p, outcome).kind = kind
BY DEF Message, Failure, Letters

\* A pipeline that may take the place of p.
Fits(s, p, pipe) ==
    /\ pipe \in Pipes
    /\ pipe.live => p = s.active
    /\ pipe.live \/ pipe = ClosedPipeline
    /\ pipe.output # None =>
         /\ pipe.ready
         /\ pipe.output.serving => pipe.output.announced
         /\ pipe.output.announced \/ \A i \in DOMAIN s.queue :
              ~ (s.queue[i].kind = "format" /\ s.queue[i].pipe = p
                 /\ s.queue[i].gen = pipe.output.gen)

LEMMA ReplaceWorks ==
  ASSUME NEW s, Good(s), NEW p \in Pipelines, NEW pipe, Fits(s, p, pipe)
  PROVE  Works(s, [s EXCEPT !.pipelines[p] = pipe])
<1> DEFINE r == [s EXCEPT !.pipelines[p] = pipe]
<1>1. s \in Services /\ pipe \in Pipes
  BY DEF Good, Fits
<1>2. r \in Services
  BY <1>1 DEF Services
<1>3. /\ r.pipelines = [s.pipelines EXCEPT ![p] = pipe] /\ r.active = s.active
      /\ r.queue = s.queue /\ SameControl(s, r)
  BY <1>1 DEF Services, SameControl
<1>4. s.pipelines \in [Pipelines -> Pipes]
  BY <1>1 DEF Services
<1> HIDE DEF r
<1>5. PipeOK(r, p)
  <2>1. r.pipelines[p] = pipe
    BY <1>3, <1>4
  <2>2. QED
    BY <1>3, <2>1 DEF PipeOK, Fits, Spoken
<1>6. ASSUME NEW q \in Pipelines, q # p PROVE PipeOK(r, q)
  <2>1. r.pipelines[q] = s.pipelines[q]
    BY <1>3, <1>4, <1>6
  <2>2. QED
    BY <1>3, <2>1 DEF PipeOK, Good, PipesOK, Spoken
<1>7. PipesOK(r)
  BY <1>5, <1>6 DEF PipesOK
<1>8. Works(s, r)
  BY <1>2, <1>3, <1>7 DEF Works, Good
<1>9. QED
  BY <1>8 DEF r

LEMMA ClosedFits ==
  ASSUME NEW s, Good(s), NEW p \in Pipelines
  PROVE  Fits(s, p, ClosedPipeline)
BY DEF Fits, ClosedPipeline, Pipes

LEMMA PipeTypes ==
  ASSUME NEW s, Good(s), NEW p \in Pipelines
  PROVE  s.pipelines[p] \in Pipes /\ PipeOK(s, p)
BY DEF Good, Services, PipesOK

LEMMA SamePipe ==
  ASSUME NEW x \in Pipes, NEW y \in Pipes, x.live = y.live, x.ready = y.ready,
         x.surfaceLost = y.surfaceLost, x.bind = y.bind, x.output = y.output
  PROVE  x = y
BY DEF Pipes

LEMMA StopOutputWorks ==
  ASSUME NEW s, Good(s), NEW p \in Pipelines
  PROVE  Works(s, StopOutput(s, p))
<1> DEFINE pipe == [s.pipelines[p] EXCEPT !.output = None, !.bind = None]
<1>1. StopOutput(s, p) = [s EXCEPT !.pipelines[p] = pipe]
  BY DEF StopOutput, Good, Services
<1>2. Fits(s, p, pipe)
  <2>1. s.pipelines[p] \in Pipes /\ PipeOK(s, p)
    BY PipeTypes
  <2>2. pipe \in Pipes /\ pipe.live = s.pipelines[p].live /\ pipe.output = None
    BY <2>1 DEF Pipes
  <2>3. pipe.live \/ pipe = ClosedPipeline
    <3>1. ASSUME s.pipelines[p] = ClosedPipeline PROVE pipe = ClosedPipeline
      <4>1. /\ pipe.live = ClosedPipeline.live /\ pipe.ready = ClosedPipeline.ready
            /\ pipe.surfaceLost = ClosedPipeline.surfaceLost
            /\ pipe.bind = ClosedPipeline.bind /\ pipe.output = ClosedPipeline.output
        BY <2>1, <3>1 DEF ClosedPipeline, Pipes
      <4>2. ClosedPipeline \in Pipes
        BY DEF ClosedPipeline, Pipes
      <4> HIDE DEF pipe
      <4>3. QED
        BY <2>2, <4>1, <4>2, SamePipe
    <3>2. QED
      BY <2>1, <2>2, <3>1 DEF PipeOK
  <2>4. QED
    BY <2>1, <2>2, <2>3 DEF PipeOK, Fits
<1> HIDE DEF pipe
<1>3. QED
  BY <1>1, <1>2, ReplaceWorks

LEMMA FailStreamWorks ==
  ASSUME NEW s, Good(s), NEW p \in Pipelines, NEW outcome
  PROVE  Works(s, FailStream(s, p, outcome))
<1> DEFINE m == Failure("streamError", p, outcome)
<1>1. CASE s.pipelines[p].live
  <2>1. FailStream(s, p, outcome) = Post(StopOutput(s, p), m)
    BY <1>1 DEF FailStream
  <2>2. m \in Letters /\ m.kind # "format"
    BY LetterTypes DEF MessageKinds
  <2>3. Works(s, StopOutput(s, p)) /\ Good(StopOutput(s, p))
    BY StopOutputWorks DEF Works
  <2> HIDE DEF m
  <2>4. Works(StopOutput(s, p), Post(StopOutput(s, p), m))
    BY <2>2, <2>3, PostWorks
  <2>5. QED
    BY <2>1, <2>3, <2>4, WorksTwice
<1>2. CASE ~s.pipelines[p].live
  BY <1>2 DEF FailStream, Works, SameControl
<1>3. QED
  BY <1>1, <1>2

LEMMA FailPreviewWorks ==
  ASSUME NEW s, Good(s), NEW p \in Pipelines
  PROVE  Works(s, FailPreview(s, p))
<1> DEFINE m == Message("previewError", p)
           r == [s EXCEPT !.pipelines[p] = ClosedPipeline]
<1>1. CASE s.pipelines[p].live
  <2>1. FailPreview(s, p) = Post(r, m)
    BY <1>1 DEF FailPreview
  <2>2. m \in Letters /\ m.kind # "format"
    BY LetterTypes DEF MessageKinds
  <2>3. Works(s, r) /\ Good(r)
    BY ClosedFits, ReplaceWorks DEF Works
  <2> HIDE DEF m, r
  <2>4. Works(r, Post(r, m))
    BY <2>2, <2>3, PostWorks
  <2>5. QED
    BY <2>1, <2>3, <2>4, WorksTwice
<1>2. CASE ~s.pipelines[p].live
  BY <1>2 DEF FailPreview, Works, SameControl
<1>3. QED
  BY <1>1, <1>2

LEMMA NewOutputWorks ==
  ASSUME NEW s, Good(s), NEW p \in Pipelines, NEW address \in Networks,
         s.pipelines[p].ready
  PROVE  Works(s, [s EXCEPT !.pipelines[p].output = NewOutput(s, address)])
<1> DEFINE output == NewOutput(s, address)
           pipe == [s.pipelines[p] EXCEPT !.output = output]
<1>1. [s EXCEPT !.pipelines[p].output = output] = [s EXCEPT !.pipelines[p] = pipe]
  BY DEF Good, Services
<1>2. s.pipelines[p] \in Pipes /\ PipeOK(s, p) /\ s \in Services
  BY PipeTypes DEF Good
<1>3. /\ FreshGeneration(s) \in Nat \ {0}
      /\ \A i \in DOMAIN s.queue : s.queue[i].gen # FreshGeneration(s)
  BY <1>2, FreshIsFresh
<1>4. output \in Outputs /\ ~output.serving /\ output.gen = FreshGeneration(s)
  BY <1>3 DEF NewOutput, Outputs
<1> HIDE DEF output
<1>5. /\ pipe \in Pipes /\ pipe.live = s.pipelines[p].live /\ pipe.ready
      /\ pipe.output = output
  BY <1>2, <1>4 DEF Pipes
<1>6. s.pipelines[p].live
  BY <1>2 DEF PipeOK, ClosedPipeline
<1> HIDE DEF pipe
<1>7. Fits(s, p, pipe)
  BY <1>2, <1>3, <1>4, <1>5, <1>6 DEF Fits, PipeOK
<1>8. QED
  BY <1>1, <1>7, ReplaceWorks DEF output

LEMMA StartOutputWorks ==
  ASSUME NEW s, Good(s), NEW p \in Pipelines, NEW address \in Networks,
         NEW outcome
  PROVE  Works(s, StartOutputIfReady(s, p, address, outcome))
<1>1. CASE ~s.pipelines[p].ready \/ s.pipelines[p].output # None
  BY <1>1 DEF StartOutputIfReady, Works, SameControl
<1>2. CASE /\ ~ (~s.pipelines[p].ready \/ s.pipelines[p].output # None)
           /\ outcome = "ok"
  BY <1>2, NewOutputWorks DEF StartOutputIfReady
<1>3. CASE /\ ~ (~s.pipelines[p].ready \/ s.pipelines[p].output # None)
           /\ outcome # "ok"
  BY <1>3, FailStreamWorks DEF StartOutputIfReady
<1>4. QED
  BY <1>1, <1>2, <1>3

LEMMA BindWorks ==
  ASSUME NEW s, Good(s), NEW p \in Pipelines, NEW address \in Networks,
         s.pipelines[p].live
  PROVE  Works(s, [s EXCEPT !.pipelines[p].bind = address])
<1> DEFINE pipe == [s.pipelines[p] EXCEPT !.bind = address]
<1>1. [s EXCEPT !.pipelines[p].bind = address] = [s EXCEPT !.pipelines[p] = pipe]
  BY DEF Good, Services
<1>2. s.pipelines[p] \in Pipes /\ PipeOK(s, p)
  BY PipeTypes
<1>3. /\ pipe \in Pipes /\ pipe.live /\ pipe.ready = s.pipelines[p].ready
      /\ pipe.output = s.pipelines[p].output
  BY <1>2 DEF Pipes
<1> HIDE DEF pipe
<1>4. Fits(s, p, pipe)
  BY <1>2, <1>3 DEF Fits, PipeOK, Spoken
<1>5. QED
  BY <1>1, <1>4, ReplaceWorks

LEMMA PipelineStartWorks ==
  ASSUME NEW s, Good(s), NEW p \in Pipelines, NEW address \in Networks,
         NEW outcome
  PROVE  Works(s, PipelineStartStreaming(s, p, address, outcome))
<1> DEFINE bound == [s EXCEPT !.pipelines[p].bind = address]
           r == PipelineStartStreaming(s, p, address, outcome)
<1>1. CASE ~s.pipelines[p].live
  BY <1>1 DEF PipelineStartStreaming, Works, SameControl
<1>2. CASE s.pipelines[p].live /\ s.pipelines[p].output # None
  <2>1. r = bound
    BY <1>2 DEF PipelineStartStreaming
  <2>2. QED
    BY <1>2, <2>1, BindWorks
<1>3. CASE /\ s.pipelines[p].live /\ s.pipelines[p].output = None
           /\ outcome = "ok"
  <2>1. r = StartOutputIfReady(bound, p, address, "ok")
    BY <1>3 DEF PipelineStartStreaming
  <2>2. Works(s, bound) /\ Good(bound)
    BY <1>3, BindWorks DEF Works
  <2> HIDE DEF bound
  <2>3. Works(bound, StartOutputIfReady(bound, p, address, "ok"))
    BY <2>2, StartOutputWorks
  <2>4. QED
    BY <2>1, <2>2, <2>3, WorksTwice
<1>4. CASE /\ s.pipelines[p].live /\ s.pipelines[p].output = None
           /\ outcome # "ok"
  <2>1. r = FailStream(s, p, outcome)
    BY <1>4 DEF PipelineStartStreaming
  <2>2. QED
    BY <2>1, FailStreamWorks
<1>5. QED
  BY <1>1, <1>2, <1>3, <1>4
-----------------------------------------------------------------------------
(* The controller.                                                         *)

LEMMA LifecycleStartWorks ==
  ASSUME NEW s, Good(s), NEW how, s.active = None => Unused(s) # {}
  PROVE  Works(s, LifecycleStart(s, how))
<1> DEFINE p == CHOOSE q \in Unused(s) : TRUE
           opened == [s EXCEPT !.active = p, !.pipelines[p] = NewPipeline]
<1>1. CASE s.active # None
  BY <1>1 DEF LifecycleStart, Works, SameControl
<1>2. CASE s.active = None
  <2>1. p \in Unused(s)
    BY <1>2
  <2>2. p \in Pipelines /\ \A i \in DOMAIN s.queue : s.queue[i].pipe # p
    BY <2>1 DEF Unused, ToSet
  <2>3. s \in Services /\ PipesOK(s)
    BY DEF Good
  <2> HIDE DEF p
  <2>4. NewPipeline \in Pipes /\ NewPipeline.live /\ NewPipeline.output = None
    BY DEF NewPipeline, ClosedPipeline, Pipes
  <2>5. opened \in Services
    BY <2>2, <2>3, <2>4 DEF Services
  <2>6. /\ opened.pipelines = [s.pipelines EXCEPT ![p] = NewPipeline]
        /\ opened.active = p /\ opened.queue = s.queue /\ SameControl(s, opened)
    BY <2>3 DEF Services, SameControl
  <2>7. s.pipelines \in [Pipelines -> Pipes]
    BY <2>3 DEF Services
  <2> HIDE DEF opened
  <2>8. PipesOK(opened)
    <3>1. PipeOK(opened, p)
      <4>1. opened.pipelines[p] = NewPipeline
        BY <2>2, <2>6, <2>7
      <4>2. Spoken(opened, p)
        BY <2>2, <2>6 DEF Spoken
      <4>3. QED
        BY <2>4, <2>6, <4>1, <4>2 DEF PipeOK
    <3>2. ASSUME NEW q \in Pipelines, q # p PROVE PipeOK(opened, q)
      <4>1. opened.pipelines[q] = s.pipelines[q]
        BY <2>6, <2>7, <3>2
      <4>2. PipeOK(s, q) /\ q # None
        BY <2>3, NoneAssumption DEF PipesOK
      <4>3. ~s.pipelines[q].live
        BY <1>2, <4>2 DEF PipeOK
      <4>4. QED
        BY <2>6, <4>1, <4>2, <4>3 DEF PipeOK, Spoken
    <3>3. QED
      BY <3>1, <3>2 DEF PipesOK
  <2>9. Works(s, opened) /\ Good(opened)
    BY <2>5, <2>6, <2>8 DEF Works, Good
  <2>10. Works(opened, FailPreview(opened, p))
    BY <2>2, <2>9, FailPreviewWorks
  <2>11. LifecycleStart(s, how) = IF how = "broken" THEN FailPreview(opened, p) ELSE opened
    BY <1>2 DEF LifecycleStart, opened, p
  <2>12. QED
    BY <2>9, <2>10, <2>11, WorksTwice
<1>3. QED
  BY <1>1, <1>2

LEMMA ActiveType ==
  ASSUME NEW s, Good(s), s.active # None
  PROVE  s.active \in Pipelines
BY DEF Good, Services

LEMMA StopStreamingWorks ==
  ASSUME NEW s, Good(s)
  PROVE  Works(s, LifecycleStopStreaming(s))
<1>1. CASE s.active # None /\ s.pipelines[s.active].live
  BY <1>1, ActiveType, StopOutputWorks DEF LifecycleStopStreaming
<1>2. CASE ~ (s.active # None /\ s.pipelines[s.active].live)
  BY <1>2 DEF LifecycleStopStreaming, Works, SameControl
<1>3. QED
  BY <1>1, <1>2

\* What stopping the controller leaves: no pipeline, and as many unused ones.
LetGo(s, r) == Works(s, r) /\ r.active = None /\ Unused(s) \subseteq Unused(r)

LEMMA LifecycleStopReleases ==
  ASSUME NEW s, Good(s)
  PROVE  LetGo(s, LifecycleStop(s))
<1>1. CASE s.active = None
  BY <1>1 DEF LifecycleStop, LetGo, Works, SameControl
<1>2. CASE s.active # None
  <2> DEFINE p == s.active
             closed == [s EXCEPT !.pipelines[p] = ClosedPipeline]
             r == [s EXCEPT !.pipelines[p] = ClosedPipeline, !.active = None]
  <2>1. LifecycleStop(s) = r
    BY <1>2 DEF LifecycleStop
  <2>2. p \in Pipelines /\ s \in Services
    BY <1>2, ActiveType DEF Good
  <2>3. Works(s, closed)
    BY <2>2, ClosedFits, ReplaceWorks
  <2>4. /\ closed.pipelines = [s.pipelines EXCEPT ![p] = ClosedPipeline]
        /\ closed.active = s.active /\ closed.queue = s.queue
        /\ s.pipelines \in [Pipelines -> Pipes]
    BY <2>2 DEF Services
  <2>5. r = [closed EXCEPT !.active = None]
    BY <2>2 DEF Services
  <2>6. closed \in Services /\ PipesOK(closed) /\ SameControl(s, closed)
    BY <2>3 DEF Works, Good
  <2> HIDE DEF closed
  <2>7. /\ r \in Services /\ r.active = None /\ r.pipelines = closed.pipelines
        /\ r.queue = closed.queue /\ SameControl(closed, r)
    BY <2>5, <2>6 DEF Services, SameControl
  <2> HIDE DEF r
  <2>8. ASSUME NEW q \in Pipelines PROVE ~closed.pipelines[q].live
    <3>1. ~ClosedPipeline.live
      BY DEF ClosedPipeline
    <3>2. CASE q = p
      BY <2>2, <2>4, <3>1, <3>2
    <3>3. CASE q # p
      BY <2>4, <2>6, <3>3 DEF PipesOK, PipeOK
    <3>4. QED
      BY <3>2, <3>3
  <2>9. PipesOK(r)
    BY <2>6, <2>7, <2>8 DEF PipesOK, PipeOK, Spoken
  <2>10. Unused(s) \subseteq Unused(r)
    BY <2>4, <2>7, <2>8, NoneAssumption DEF Unused
  <2>11. QED
    BY <2>1, <2>6, <2>7, <2>9, <2>10 DEF LetGo, Works, Good, SameControl
<1>3. QED
  BY <1>1, <1>2

-----------------------------------------------------------------------------
(* The methods of the service.                                             *)

LEMMA RequestAsks ==
  ASSUME NEW s, Good(s), NEW outcome
  PROVE  Asked(s, RequestStreamingOutput(s, outcome))
<1>1. CASE s.wifi = None
  <2>1. Moved(s, TransitionTo(s, "WAITING"), "WAITING")
    BY TransitionMoves DEF Good, States
  <2>2. Good(TransitionTo(s, "WAITING"))
    BY <2>1, SamePipesGood DEF Moved
  <2>3. QED
    BY <1>1, <2>1, <2>2 DEF Moved, Asked, RequestStreamingOutput
<1>2. CASE s.wifi # None /\ s.state = "STARTING" /\ s.active # None
  <2>1. s.active \in Pipelines /\ s.wifi \in Networks
    BY <1>2, ActiveType DEF Good, Services
  <2>2. Works(s, PipelineStartStreaming(s, s.active, s.wifi, outcome))
    BY <2>1, PipelineStartWorks
  <2>3. QED
    BY <1>2, <2>2, WorksIsAsked DEF RequestStreamingOutput
<1>3. CASE s.wifi # None /\ ~ (s.state = "STARTING" /\ s.active # None)
  BY <1>3 DEF RequestStreamingOutput, Asked
<1>4. QED
  BY <1>1, <1>2, <1>3
\* A change of a field that neither the pipelines nor the control look at, or
\* the end of a retry.
Edits(s, r) == r \in Services /\ SamePipes(s, r) /\ SameControl(s, r)

LEMMA EditWorks ==
  ASSUME NEW s, NEW r, Good(s), Edits(s, r)
  PROVE  Works(s, r)
BY SamePipesGood DEF Edits, Works

LEMMA FieldEdits ==
  ASSUME NEW s, Good(s)
  PROVE  /\ Edits(s, CancelRetry(s)) /\ ~CancelRetry(s).timer
         /\ \A b \in BOOLEAN : Edits(s, [s EXCEPT !.resume = b])
         /\ \A v \in PreviewStates : Edits(s, [s EXCEPT !.preview = v])
         /\ \A w \in Networks \cup {None} : Edits(s, [s EXCEPT !.wifi = w])
<1>1. s \in Services
  BY DEF Good
<1>2. CancelRetry(s) \in Services
  BY <1>1 DEF Services, CancelRetry
<1>3. Edits(s, CancelRetry(s)) /\ ~CancelRetry(s).timer
  BY <1>1, <1>2 DEF Services, CancelRetry, Edits, SamePipes, SameControl
<1>4. ASSUME NEW b \in BOOLEAN PROVE Edits(s, [s EXCEPT !.resume = b])
  BY <1>1 DEF Services, Edits, SamePipes, SameControl
<1>5. ASSUME NEW v \in PreviewStates PROVE Edits(s, [s EXCEPT !.preview = v])
  BY <1>1 DEF Services, Edits, SamePipes, SameControl
<1>6. ASSUME NEW w \in Networks \cup {None} PROVE Edits(s, [s EXCEPT !.wifi = w])
  BY <1>1 DEF Services, Edits, SamePipes, SameControl
<1>7. QED
  BY <1>3, <1>4, <1>5, <1>6

LEMMA AttemptsEdit ==
  ASSUME NEW s, Good(s)
  PROVE  Edits(s, [s EXCEPT !.attempts = 0])
<1>1. PICK c \in 0 .. MaxRetry : c = 0
  BY RetryAssumption
<1>2. s \in Services
  BY DEF Good
<1>3. Edits(s, [s EXCEPT !.attempts = c])
  BY <1>2 DEF Services, Edits, SamePipes, SameControl
<1>4. QED
  BY <1>1, <1>3

LEMMA SameUnused ==
  ASSUME NEW s, NEW r, SamePipes(s, r)
  PROVE  Unused(r) = Unused(s) /\ r.active = s.active
BY DEF SamePipes, Unused

LEMMA MovedGood ==
  ASSUME NEW s, Good(s), NEW next \in States
  PROVE  Moved(s, TransitionTo(s, next), next) /\ Good(TransitionTo(s, next))
<1>1. Moved(s, TransitionTo(s, next), next)
  BY TransitionMoves DEF Good
<1>2. QED
  BY <1>1, SamePipesGood DEF Moved

LEMMA MovedControl ==
  ASSUME NEW s, NEW r, NEW next, Moved(s, r, next), next # "STOPPING", Rests(s),
         s.requested, ~s.timer
  PROVE  ControlOK(r)
BY DEF Moved, ControlOK, Rests

LEMMA StartPreviewWorks ==
  ASSUME NEW s, Good(s), NEW how, s.active = None => Unused(s) # {}
  PROVE  Works(s, StartPreview(s, how))
<1> DEFINE r == StartPreview(s, how)
           asked == CancelRetry(s)
           shown == [asked EXCEPT !.preview = "STARTING"]
           error == [s EXCEPT !.preview = "ERROR"]
<1>1. r = s \/ r = error \/ r = LifecycleStart(shown, how)
  BY DEF StartPreview
<1>2. Works(s, s)
  BY DEF Works, SameControl
<1>3. {"STARTING", "ERROR"} \subseteq PreviewStates
  BY DEF PreviewStates
<1>4. Works(s, error)
  BY <1>3, FieldEdits, EditWorks
<1>5. Works(s, asked) /\ Good(asked) /\ SamePipes(s, asked)
  BY FieldEdits, EditWorks DEF Works, Edits
<1> HIDE DEF asked
<1>6. Works(asked, shown) /\ Good(shown) /\ SamePipes(asked, shown)
  BY <1>3, <1>5, FieldEdits, EditWorks DEF Works, Edits
<1> HIDE DEF shown
<1>7. shown.active = None => Unused(shown) # {}
  BY <1>5, <1>6, SameUnused
<1>8. Works(shown, LifecycleStart(shown, how))
  BY <1>6, <1>7, LifecycleStartWorks
<1>9. Works(s, LifecycleStart(shown, how))
  BY <1>5, <1>6, <1>8, WorksTwice
<1>10. QED
  BY <1>1, <1>2, <1>4, <1>9

LEMMA WithPreviewAsks ==
  ASSUME NEW s, Good(s), NEW outcome, lan \in Networks \cup {None}
  PROVE  Asked(s, StartWithPreview(s, outcome))
<1> DEFINE wifi == IF s.wifi = None THEN lan ELSE s.wifi
           known == [s EXCEPT !.wifi = wifi]
           quiet == [known EXCEPT !.resume = FALSE]
<1>1. StartWithPreview(s, outcome) = IF known.wifi = None
        THEN TransitionTo(quiet, "WAITING") ELSE RequestStreamingOutput(known, outcome)
  BY DEF StartWithPreview
<1>2. wifi \in Networks \cup {None}
  BY DEF Good, Services
<1> HIDE DEF wifi
<1>3. Works(s, known) /\ Good(known)
  BY <1>2, FieldEdits, EditWorks DEF Works
<1> HIDE DEF known
<1>4. Works(known, quiet) /\ Good(quiet)
  BY <1>3, FieldEdits, EditWorks DEF Works
<1>5. Asked(known, RequestStreamingOutput(known, outcome))
  BY <1>3, RequestAsks
<1> HIDE DEF quiet
<1>6. /\ Moved(quiet, TransitionTo(quiet, "WAITING"), "WAITING")
      /\ Good(TransitionTo(quiet, "WAITING"))
  BY <1>4, MovedGood DEF States
<1>7. Asked(quiet, TransitionTo(quiet, "WAITING"))
  BY <1>6 DEF Moved, Asked
<1>8. QED
  BY <1>1, <1>3, <1>4, <1>5, <1>7, WorksAsked
\* A service between handlers.
Settled(r) == Good(r) /\ ControlOK(r)

LEMMA StartStreamingSettles ==
  ASSUME NEW s, Good(s), ControlOK(s), NEW how, NEW outcome,
         lan \in Networks \cup {None}, s.active = None => Unused(s) # {}
  PROVE  Settled(StartStreaming(s, how, outcome))
<1> DEFINE quiet == [CancelRetry(s) EXCEPT !.attempts = 0]
           asked == [CancelRetry(s) EXCEPT !.attempts = 0, !.requested = TRUE]
           moved == TransitionTo(asked, "STARTING")
           begun == IF s.state \in {"STOPPED", "ERROR"} THEN moved ELSE asked
           shown == StartPreview(begun, how)
           failed == TransitionTo(shown, "ERROR")
           given == StartWithPreview(begun, outcome)
           r == StartStreaming(s, how, outcome)
<1>1. r = given \/ r = failed \/ r = shown
  BY DEF StartStreaming
<1>2. Works(s, CancelRetry(s)) /\ Edits(s, CancelRetry(s)) /\ ~CancelRetry(s).timer
  BY FieldEdits, EditWorks
<1>3. Edits(CancelRetry(s), quiet)
  BY <1>2, AttemptsEdit DEF Works
<1>4. asked = [quiet EXCEPT !.requested = TRUE] /\ quiet \in Services
  BY <1>2, <1>3 DEF Edits, Services
<1>5. /\ SamePipes(s, quiet) /\ quiet.state = s.state /\ quiet.rejected = s.rejected
      /\ ~quiet.timer
  BY <1>2, <1>3 DEF Edits, SamePipes, SameControl
<1> HIDE DEF quiet
<1>6. /\ asked \in Services /\ SamePipes(s, asked) /\ asked.requested /\ ~asked.timer
      /\ Rests(asked)
  <2>1. asked \in Services
    BY <1>4 DEF Services
  <2>2. /\ SamePipes(quiet, asked) /\ asked.requested /\ asked.timer = quiet.timer
        /\ asked.state = quiet.state /\ asked.rejected = quiet.rejected
    BY <1>4 DEF Services, SamePipes
  <2>3. QED
    BY <1>5, <2>1, <2>2 DEF SamePipes, Rests, ControlOK
<1>7. Good(asked)
  BY <1>6, SamePipesGood
<1> HIDE DEF asked
<1>8. Moved(asked, moved, "STARTING") /\ Good(moved)
  BY <1>7, MovedGood DEF States
<1>9. /\ SamePipes(s, moved) /\ moved.requested /\ ~moved.timer /\ Rests(moved)
  BY <1>6, <1>8 DEF Moved, SamePipes, Rests
<1> HIDE DEF moved
<1>10. /\ Good(begun) /\ SamePipes(s, begun) /\ begun.requested /\ ~begun.timer
       /\ Rests(begun)
  BY <1>6, <1>7, <1>8, <1>9
<1> HIDE DEF begun
<1>11. Settled(given)
  BY <1>10, WithPreviewAsks, AskedControl DEF Settled, Asked
<1>12. begun.active = None => Unused(begun) # {}
  BY <1>10, SameUnused
<1>13. Works(begun, shown)
  BY <1>10, <1>12, StartPreviewWorks
<1>14. ControlOK(begun)
  BY <1>10 DEF ControlOK
<1>15. Good(shown) /\ ControlOK(shown) /\ shown.requested /\ ~shown.timer /\ Rests(shown)
  BY <1>10, <1>13, <1>14, WorksControl DEF Works, SameControl, ControlOK
<1> HIDE DEF shown
<1>16. Moved(shown, failed, "ERROR") /\ Good(failed)
  BY <1>15, MovedGood DEF States
<1>17. ControlOK(failed)
  BY <1>15, <1>16, MovedControl
<1>18. QED
  BY <1>1, <1>11, <1>15, <1>16, <1>17 DEF Settled

\* What stopping the output leaves.
Stopped(s, r, next) ==
    /\ Good(r)
    /\ r.requested = s.requested
    /\ r.timer => s.timer
    /\ r.state \in {next, "STOPPED", "ERROR"}
    /\ r.state \in Underway => s.state \in Underway

LEMMA StopOutputStops ==
  ASSUME NEW s, Good(s), NEW next \in {"STOPPED", "WAITING"}, NEW clean,
         s.state # "STOPPING"
  PROVE  Stopped(s, StopStreamOutputFor(s, next, clean), next)
<1> DEFINE r == StopStreamOutputFor(s, next, clean)
<1>1. CASE s.state \in Underway
  <2> DEFINE stopping == TransitionTo(s, "STOPPING")
             quiet == LifecycleStopStreaming(stopping)
             last == IF clean THEN next ELSE "ERROR"
  <2>1. r = TransitionTo(quiet, last)
    BY <1>1 DEF StopStreamOutputFor
  <2>2. Moved(s, stopping, "STOPPING") /\ Good(stopping)
    BY MovedGood DEF States
  <2>3. "STOPPING" \in Allowed[s.state]
    BY <1>1 DEF Underway, Allowed
  <2>4. stopping.state = "STOPPING" /\ stopping.requested = s.requested /\ stopping.timer = s.timer
    BY <2>2, <2>3 DEF Moved
  <2> HIDE DEF stopping
  <2>5. Works(stopping, quiet)
    BY <2>2, StopStreamingWorks
  <2>6. /\ Good(quiet) /\ quiet.state = "STOPPING" /\ quiet.requested = s.requested
        /\ quiet.timer => s.timer
    BY <2>4, <2>5 DEF Works, SameControl
  <2> HIDE DEF quiet
  <2>7. last \in States /\ last \in Allowed["STOPPING"] /\ last \in {next, "ERROR"}
    BY DEF States, Allowed
  <2> HIDE DEF last
  <2>8. Moved(quiet, TransitionTo(quiet, last), last) /\ Good(TransitionTo(quiet, last))
    BY <2>6, <2>7, MovedGood
  <2>9. QED
    BY <1>1, <2>1, <2>6, <2>7, <2>8 DEF Moved, Stopped
<1>2. CASE s.state \notin Underway /\ s.state = "ERROR" /\ next = "WAITING"
  BY <1>2 DEF StopStreamOutputFor, Stopped
<1>3. CASE s.state \notin Underway /\ ~ (s.state = "ERROR" /\ next = "WAITING")
  <2>1. r = TransitionTo(s, next)
    BY <1>3 DEF StopStreamOutputFor
  <2>2. Moved(s, TransitionTo(s, next), next) /\ Good(TransitionTo(s, next))
    BY MovedGood DEF States
  <2>3. s.state \in {"STOPPED", "ERROR"}
    BY <1>3 DEF Good, Services, States, Underway
  <2>4. TransitionTo(s, next).state \in {"STOPPED", "ERROR"}
    BY <1>3, <2>2, <2>3 DEF Moved, Allowed
  <2>5. QED
    BY <2>1, <2>2, <2>4 DEF Moved, Stopped, Underway
<1>4. QED
  BY <1>1, <1>2, <1>3

\* What stopping the preview leaves: no pipeline, and a stream that is stopped
\* or failed unless the machine refused.
Closed(s, r) ==
    /\ Good(r)
    /\ r.requested = s.requested
    /\ r.timer => s.timer
    /\ r.rejected \/ r.state \in {"STOPPED", "ERROR"}
    /\ r.active = None /\ Unused(s) \subseteq Unused(r)

LEMMA StopPreviewCloses ==
  ASSUME NEW s, Good(s), NEW clean \in BOOLEAN, s.state # "STOPPING"
  PROVE  Closed(s, StopPreviewPipeline(s, clean))
<1> DEFINE r == StopPreviewPipeline(s, clean)
<1>1. CASE s.active = None
  <2> DEFINE idle == [s EXCEPT !.preview = "IDLE"]
  <2>1. r = IF s.state = "ERROR" THEN idle ELSE TransitionTo(idle, "STOPPED")
    BY <1>1 DEF StopPreviewPipeline
  <2>2. Edits(s, idle) /\ Good(idle)
    BY FieldEdits, EditWorks DEF PreviewStates, Works
  <2> HIDE DEF idle
  <2>3. Moved(idle, TransitionTo(idle, "STOPPED"), "STOPPED") /\ Good(TransitionTo(idle, "STOPPED"))
    BY <2>2, MovedGood DEF States
  <2>4. SamePipes(s, r) /\ Good(r)
    BY <2>1, <2>2, <2>3 DEF Moved, Edits, SamePipes
  <2>5. r.active = None /\ Unused(s) \subseteq Unused(r)
    BY <1>1, <2>4, SameUnused
  <2>6. /\ r.requested = s.requested /\ (r.timer => s.timer)
        /\ r.rejected \/ r.state \in {"STOPPED", "ERROR"}
    BY <2>1, <2>2, <2>3 DEF Moved, Edits, SameControl
  <2> HIDE DEF r
  <2>7. Closed(s, r)
    BY <2>4, <2>5, <2>6 DEF Closed
  <2>8. QED
    BY <2>7 DEF r
<1>2. CASE s.active # None
  <2> DEFINE stopping == IF s.state \in Underway THEN TransitionTo(s, "STOPPING") ELSE s
             stopped == LifecycleStop(stopping)
             idle == [stopped EXCEPT !.preview = "IDLE"]
  <2>1. r = IF clean THEN IF stopped.state = "STOPPING" THEN TransitionTo(idle, "STOPPED") ELSE idle
                     ELSE TransitionTo(stopped, "ERROR")
    BY <1>2 DEF StopPreviewPipeline
  <2>2. Moved(s, TransitionTo(s, "STOPPING"), "STOPPING") /\ Good(TransitionTo(s, "STOPPING"))
    BY MovedGood DEF States
  <2>3. s.state \in Underway => "STOPPING" \in Allowed[s.state]
    BY DEF Underway, Allowed
  <2>4. s.state \notin Underway => s.state \in {"STOPPED", "ERROR"}
    BY DEF Good, Services, States, Underway
  <2>5. /\ Good(stopping) /\ SamePipes(s, stopping)
        /\ stopping.state \in {"STOPPING", "STOPPED", "ERROR"}
        /\ stopping.requested = s.requested /\ stopping.timer = s.timer
    BY <2>2, <2>3, <2>4 DEF Moved, SamePipes
  <2> HIDE DEF stopping
  <2>6. LetGo(stopping, stopped)
    BY <2>5, LifecycleStopReleases
  <2>7. Unused(s) \subseteq Unused(stopped) /\ stopped.active = None
    BY <2>5, <2>6, SameUnused DEF LetGo
  <2>8. /\ Good(stopped) /\ stopped.state \in {"STOPPING", "STOPPED", "ERROR"}
        /\ stopped.requested = s.requested /\ (stopped.timer => s.timer)
    BY <2>5, <2>6 DEF LetGo, Works, SameControl
  <2> HIDE DEF stopped
  <2>9. Edits(stopped, idle) /\ Good(idle)
    BY <2>8, FieldEdits, EditWorks DEF PreviewStates, Works
  <2> HIDE DEF idle
  <2>10. Moved(idle, TransitionTo(idle, "STOPPED"), "STOPPED") /\ Good(TransitionTo(idle, "STOPPED"))
    BY <2>9, MovedGood DEF States
  <2>11. Moved(stopped, TransitionTo(stopped, "ERROR"), "ERROR") /\ Good(TransitionTo(stopped, "ERROR"))
    BY <2>8, MovedGood DEF States
  <2>12. SamePipes(stopped, r) /\ Good(r)
    BY <2>1, <2>9, <2>10, <2>11 DEF Moved, Edits, SamePipes
  <2>13. r.active = None /\ Unused(s) \subseteq Unused(r)
    BY <2>7, <2>12, SameUnused
  <2>14. r.requested = s.requested /\ (r.timer => s.timer)
    BY <2>1, <2>8, <2>9, <2>10, <2>11 DEF Moved, Edits, SameControl
  <2>15. "STOPPED" \in Allowed["STOPPING"]
    BY DEF Allowed
  <2>16. r.rejected \/ r.state \in {"STOPPED", "ERROR"}
    BY <2>1, <2>8, <2>9, <2>10, <2>11, <2>15 DEF Moved, Edits, SameControl
  <2> HIDE DEF r
  <2>17. Closed(s, r)
    BY <2>12, <2>13, <2>14, <2>16 DEF Closed
  <2>18. QED
    BY <2>17 DEF r
<1>3. QED
  BY <1>1, <1>2
\* What a handler that the user does not stand behind may do.
Handles(s, r) == Settled(r) /\ (r.requested => s.requested)

LEMMA WorksHandles ==
  ASSUME NEW s, NEW r, Settled(s), Works(s, r)
  PROVE  Handles(s, r)
BY WorksControl DEF Settled, Handles, Works, SameControl

LEMMA HandlesTwice ==
  ASSUME NEW s, NEW r, NEW t, Handles(s, r), Handles(r, t)
  PROVE  Handles(s, t)
BY DEF Handles

LEMMA StoppedHandles ==
  ASSUME NEW s, NEW t, NEW r, NEW next \in {"STOPPED", "WAITING"}, Settled(s),
         Edits(s, t), Stopped(t, r, next)
  PROVE  Handles(s, r)
BY DEF Settled, Edits, SameControl, Stopped, Handles, ControlOK, Rests

LEMMA NotStopping ==
  ASSUME NEW s, Settled(s), ~s.rejected
  PROVE  s.state # "STOPPING"
BY DEF Settled, ControlOK, Rests

\* A restart of what was requested: the machine goes to STARTING and the output
\* is asked for.
LEMMA AgainHandles ==
  ASSUME NEW s, Good(s), NEW outcome, Rests(s), s.requested, ~s.timer
  PROVE  /\ Settled(RequestStreamingOutput(TransitionTo(s, "STARTING"), outcome))
         /\ RequestStreamingOutput(TransitionTo(s, "STARTING"), outcome).requested
<1> DEFINE moved == TransitionTo(s, "STARTING")
           r == RequestStreamingOutput(moved, outcome)
<1>1. Moved(s, moved, "STARTING") /\ Good(moved)
  BY MovedGood DEF States
<1>2. moved.requested /\ ~moved.timer /\ Rests(moved)
  BY <1>1 DEF Moved, Rests
<1> HIDE DEF moved
<1>3. Asked(moved, r)
  BY <1>1, RequestAsks
<1> HIDE DEF r
<1>4. Good(r) /\ ControlOK(r) /\ r.requested
  BY <1>2, <1>3, AskedControl DEF Asked
<1>5. QED
  BY <1>4 DEF Settled, r, moved

LEMMA ContinueHandles ==
  ASSUME NEW s, Settled(s), NEW outcome
  PROVE  Handles(s, ContinueStart(s, outcome))
<1>1. CASE s.requested /\ s.state = "STARTING"
  <2>1. Asked(s, RequestStreamingOutput(s, outcome))
    BY RequestAsks DEF Settled
  <2>2. ~s.timer /\ Rests(s)
    BY <1>1 DEF Settled, ControlOK, Underway
  <2>3. ControlOK(RequestStreamingOutput(s, outcome))
    BY <1>1, <2>1, <2>2, AskedControl
  <2>4. QED
    BY <1>1, <2>1, <2>3 DEF ContinueStart, Handles, Settled, Asked
<1>2. CASE ~ (s.requested /\ s.state = "STARTING")
  BY <1>2 DEF ContinueStart, Handles
<1>3. QED
  BY <1>1, <1>2

LEMMA RetryHandles ==
  ASSUME NEW s, Settled(s), s.requested
  PROVE  Handles(s, ScheduleRetry(s))
<1> DEFINE more == s.attempts + 1
           r == [s EXCEPT !.timer = TRUE, !.attempts = more]
<1>1. CASE /\ s.state = "ERROR" /\ s.preview = "ACTIVE"
           /\ s.wifi # None /\ ~s.timer /\ s.active # None
           /\ s.attempts < MaxRetry
  <2>1. s \in Services /\ Good(s)
    BY DEF Settled, Good
  <2>2. more \in 0 .. MaxRetry
    BY <1>1, <2>1, RetryAssumption DEF Services
  <2>3. ScheduleRetry(s) = r
    BY <1>1 DEF ScheduleRetry
  <2> HIDE DEF more
  <2>4. r \in Services
    BY <2>1, <2>2 DEF Services
  <2>5. SamePipes(s, r) /\ r.state = "ERROR" /\ r.requested
    BY <1>1, <2>1 DEF Services, SamePipes
  <2> HIDE DEF r
  <2>6. Good(r)
    BY <2>1, <2>4, <2>5, SamePipesGood
  <2>7. QED
    BY <2>3, <2>5, <2>6 DEF Handles, Settled, ControlOK, Rests, Underway
<1>2. CASE ~ (/\ s.state = "ERROR" /\ s.preview = "ACTIVE"
              /\ s.wifi # None /\ ~s.timer /\ s.active # None
              /\ s.attempts < MaxRetry)
  <2>1. ScheduleRetry(s) = s
    BY <1>2, Zenon DEF ScheduleRetry
  <2>2. QED
    BY <2>1 DEF Handles
<1>3. QED
  BY <1>1, <1>2

LEMMA FailedHandles ==
  ASSUME NEW s, Settled(s)
  PROVE  /\ Handles(s, TransitionTo(s, "ERROR"))
         /\ TransitionTo(s, "ERROR").requested = s.requested
         /\ TransitionTo(s, "ERROR").timer = s.timer
<1>1. /\ Moved(s, TransitionTo(s, "ERROR"), "ERROR")
      /\ Good(TransitionTo(s, "ERROR"))
  BY MovedGood DEF Settled, States
<1>2. QED
  BY <1>1 DEF Moved, Handles, Settled, ControlOK, Rests, Underway

LEMMA SaveFailedHandles ==
  ASSUME NEW s, Good(s), s.timer => s.requested
  PROVE  Handles(s, SaveFailed(s))
<1>1. CASE s.state = "STOPPED"
  BY <1>1 DEF SaveFailed, Handles, Settled, ControlOK, Rests, Underway
<1>2. CASE s.state # "STOPPED"
  <2>1. Moved(s, TransitionTo(s, "ERROR"), "ERROR") /\ Good(TransitionTo(s, "ERROR"))
    BY MovedGood DEF States
  <2>2. s.state = "ERROR" \/ "ERROR" \in Allowed[s.state]
    BY <1>2 DEF Good, Services, States, Allowed
  <2>3. QED
    BY <1>2, <2>1, <2>2 DEF SaveFailed, Moved, Handles, Settled, ControlOK, Rests, Underway
<1>3. QED
  BY <1>1, <1>2

-----------------------------------------------------------------------------
(* A change of the network.                                                *)

LEMMA LostHandles ==
  ASSUME NEW s, Settled(s), ~s.rejected, NEW clean
  PROVE  Handles(s, NetworkLost(s, clean))
<1> DEFINE resume == s.state = "STREAMING" \/ (s.state = "WAITING" /\ s.resume)
           quiet == CancelRetry(s)
           t == [quiet EXCEPT !.resume = resume]
<1>1. NetworkLost(s, clean) = IF s.state = "ERROR" THEN s
                              ELSE StopStreamOutputFor(t, "WAITING", clean)
  BY DEF NetworkLost
<1>2. Good(s) /\ Edits(s, quiet) /\ Good(quiet)
  BY FieldEdits, EditWorks DEF Settled, Works
<1>3. resume \in BOOLEAN
  BY <1>2 DEF Good, Services
<1> HIDE DEF resume, quiet
<1>4. Edits(quiet, t) /\ Good(t)
  BY <1>2, <1>3, FieldEdits, EditWorks DEF Works
<1> HIDE DEF t
<1>5. Edits(s, t)
  BY <1>2, <1>4 DEF Edits, SamePipes, SameControl
<1>6. t.state # "STOPPING"
  BY <1>5, NotStopping DEF Edits, SameControl
<1>7. Stopped(t, StopStreamOutputFor(t, "WAITING", clean), "WAITING")
  BY <1>4, <1>6, StopOutputStops
<1>8. Handles(s, StopStreamOutputFor(t, "WAITING", clean))
  BY <1>5, <1>7, StoppedHandles
<1>9. Handles(s, s)
  BY DEF Handles
<1>10. QED
  BY <1>1, <1>8, <1>9

LEMMA ReplacedHandles ==
  ASSUME NEW s, Settled(s), ~s.rejected, NEW clean, NEW outcome
  PROVE  Handles(s, NetworkReplaced(s, clean, outcome))
<1> DEFINE resume == s.state = "STREAMING"
           t == [s EXCEPT !.resume = resume]
           stopped == StopStreamOutputFor(t, "STOPPED", clean)
           quiet == [stopped EXCEPT !.resume = FALSE]
           again == RequestStreamingOutput(TransitionTo(quiet, "STARTING"), outcome)
<1>1. NetworkReplaced(s, clean, outcome) =
        IF clean /\ s.state = "STREAMING" THEN again ELSE stopped
  BY DEF NetworkReplaced
<1>2. Good(s) /\ resume \in BOOLEAN
  BY DEF Settled
<1> HIDE DEF resume
<1>3. Edits(s, t) /\ Good(t)
  BY <1>2, FieldEdits, EditWorks DEF Works
<1> HIDE DEF t
<1>4. t.state # "STOPPING"
  BY <1>3, NotStopping DEF Edits, SameControl
<1>5. Stopped(t, stopped, "STOPPED") /\ Good(stopped)
  BY <1>3, <1>4, StopOutputStops DEF Stopped
<1> HIDE DEF stopped
<1>6. Handles(s, stopped)
  BY <1>3, <1>5, StoppedHandles
<1>7. Edits(stopped, quiet) /\ Good(quiet)
  BY <1>5, FieldEdits, EditWorks DEF Works
<1> HIDE DEF quiet
<1>8. ASSUME s.state = "STREAMING" PROVE Handles(s, again)
  <2>1. s.requested /\ ~s.timer
    BY <1>8 DEF Settled, ControlOK, Underway
  <2>2. quiet.requested /\ ~quiet.timer /\ Rests(quiet)
    BY <1>3, <1>5, <1>7, <2>1 DEF Edits, SameControl, Stopped, Rests
  <2>3. Settled(again)
    BY <1>7, <2>2, AgainHandles
  <2>4. QED
    BY <2>1, <2>3 DEF Handles
<1>9. QED
  BY <1>1, <1>6, <1>8

LEMMA BackHandles ==
  ASSUME NEW s, Settled(s), NEW outcome
  PROVE  Handles(s, NetworkBack(s, outcome))
<1> DEFINE quiet == [s EXCEPT !.resume = FALSE]
           given == [s EXCEPT !.requested = FALSE]
           again == RequestStreamingOutput(TransitionTo(quiet, "STARTING"), outcome)
           ended == TransitionTo(given, "STOPPED")
<1>1. NetworkBack(s, outcome) = IF s.state # "WAITING" THEN s
                                ELSE IF s.resume THEN again ELSE ended
  BY DEF NetworkBack
<1>2. Good(s) /\ s \in Services
  BY DEF Settled, Good
<1>3. ASSUME s.state = "WAITING" PROVE s.requested /\ ~s.timer
  BY <1>3 DEF Settled, ControlOK, Underway
<1>4. Edits(s, quiet) /\ Good(quiet)
  BY <1>2, FieldEdits, EditWorks DEF Works
<1> HIDE DEF quiet
<1>5. ASSUME s.state = "WAITING" PROVE Handles(s, again)
  <2>1. Rests(quiet) /\ quiet.requested /\ ~quiet.timer
    BY <1>3, <1>4, <1>5 DEF Edits, SameControl, Rests
  <2>2. QED
    BY <1>3, <1>4, <1>5, <2>1, AgainHandles DEF Handles
<1>6. ASSUME s.state = "WAITING" PROVE Handles(s, ended)
  <2>1. /\ given \in Services /\ SamePipes(s, given) /\ given.state = "WAITING"
        /\ ~given.requested /\ given.timer = s.timer
    BY <1>2, <1>6 DEF Services, SamePipes
  <2> HIDE DEF given
  <2>2. Good(given)
    BY <1>2, <2>1, SamePipesGood
  <2>3. Moved(given, ended, "STOPPED") /\ Good(ended)
    BY <2>2, MovedGood DEF States
  <2>4. "STOPPED" \in Allowed["WAITING"]
    BY DEF Allowed
  <2>5. QED
    BY <1>3, <1>6, <2>1, <2>3, <2>4 DEF Moved, Handles, Settled, ControlOK, Rests, Underway
<1>7. Handles(s, s)
  BY DEF Handles
<1>8. QED
  BY <1>1, <1>5, <1>6, <1>7
-----------------------------------------------------------------------------
(* The inductive invariant, and the handlers of the user.                  *)

Intents == {"off", "on", "recovering"}

\* What the user stopped is not requested.
StopIsObeyed == intent = "off" /\ ~destroyed => ~svc.requested

ServiceInv ==
    /\ Settled(svc)
    /\ StopIsObeyed
    /\ lan \in Networks \cup {None}
    /\ news \in News /\ destroyed \in BOOLEAN
    /\ intent \in Intents

LEMMA CreatedSettles == Settled(Created)
<1>1. Created \in Services
  <2>1. PICK c \in 0 .. MaxRetry : c = 0
    BY RetryAssumption
  <2>2. [p \in Pipelines |-> ClosedPipeline] \in [Pipelines -> Pipes]
    BY DEF ClosedPipeline, Pipes
  <2>3. <<>> \in Seq(Letters)
    OBVIOUS
  <2> DEFINE pipes == [p \in Pipelines |-> ClosedPipeline]
  <2> HIDE DEF pipes
  <2>4. [ state |-> "STOPPED", preview |-> "IDLE", wifi |-> None, resume |-> FALSE,
          requested |-> FALSE, attempts |-> c, timer |-> FALSE, rejected |-> FALSE,
          active |-> None, pipelines |-> pipes, queue |-> <<>> ] \in Services
    BY <2>2, <2>3 DEF Services, States, PreviewStates, pipes
  <2>5. QED
    BY <2>1, <2>4 DEF Created, pipes
<1>2. /\ Created.queue = <<>> /\ Created.pipelines = [p \in Pipelines |-> ClosedPipeline]
      /\ Created.state = "STOPPED" /\ ~Created.timer /\ ~Created.requested
  BY DEF Created
<1>3. ASSUME NEW p \in Pipelines PROVE PipeOK(Created, p)
  <2>1. Created.pipelines[p] = ClosedPipeline
    BY <1>2
  <2>2. ~ClosedPipeline.live /\ ClosedPipeline.output = None
    BY DEF ClosedPipeline
  <2>3. QED
    BY <2>1, <2>2 DEF PipeOK
<1>4. ControlOK(Created)
  BY <1>2 DEF ControlOK, Rests, Underway
<1>5. QED
  BY <1>1, <1>3, <1>4 DEF Settled, Good, PipesOK

LEMMA BecomeInv ==
  ASSUME ServiceInv, NEW s, NEW wish \in Intents, Become(s, wish), Settled(s),
         wish = "off" /\ ~destroyed' => ~s.requested,
         lan' \in Networks \cup {None}, (news \in News /\ destroyed \in BOOLEAN)'
  PROVE  ServiceInv'
<1>1. svc' = s /\ intent' \in {wish, "on"}
  BY DEF Become
<1>2. Settled(svc')
  BY <1>1
<1>3. StopIsObeyed'
  BY <1>1 DEF StopIsObeyed
<1>4. QED
  BY <1>1, <1>2, <1>3 DEF ServiceInv, Intents

LEMMA HandlesInv ==
  ASSUME ServiceInv, NEW s, Become(s, intent), Handles(svc, s),
         UNCHANGED <<lan, news, destroyed>>
  PROVE  ServiceInv'
<1>1. intent \in Intents /\ Settled(s) /\ (intent = "off" /\ ~destroyed' => ~s.requested)
  BY DEF Handles, ServiceInv, StopIsObeyed
<1>2. lan' \in Networks \cup {None} /\ (news \in News /\ destroyed \in BOOLEAN)'
  BY DEF ServiceInv
<1>3. QED
  BY <1>1, <1>2, BecomeInv

LEMMA WorksInv ==
  ASSUME ServiceInv, NEW s, Become(s, intent), Works(svc, s),
         UNCHANGED <<lan, news, destroyed>>
  PROVE  ServiceInv'
<1>1. Handles(svc, s)
  BY WorksHandles DEF ServiceInv
<1>2. QED
  BY <1>1, HandlesInv

LEMMA UserStartsInv ==
  ASSUME ServiceInv, NEW how, NEW outcome, UserStarts(how, outcome)
  PROVE  ServiceInv'
<1> DEFINE r == StartStreaming(svc, how, outcome)
<1>1. Settled(r)
  BY StartStreamingSettles DEF ServiceInv, Settled, UserStarts
<1>2. Become(r, "on") /\ UNCHANGED <<lan, news, destroyed>>
  BY DEF UserStarts
<1>3. lan' \in Networks \cup {None} /\ (news \in News /\ destroyed \in BOOLEAN)'
  BY <1>2 DEF ServiceInv
<1> HIDE DEF r
<1>4. QED
  BY <1>1, <1>2, <1>3, BecomeInv DEF Intents

LEMMA UserStartsPreviewInv ==
  ASSUME ServiceInv, NEW how, UserStartsPreview(how)
  PROVE  ServiceInv'
<1>1. Works(svc, StartPreview(svc, how))
  BY StartPreviewWorks DEF ServiceInv, Settled, UserStartsPreview
<1>2. QED
  BY <1>1, WorksInv DEF UserStartsPreview

LEMMA WithdrawEdits ==
  ASSUME NEW s, Good(s)
  PROVE  /\ Good(Withdraw(s)) /\ SamePipes(s, Withdraw(s))
         /\ ~Withdraw(s).requested /\ ~Withdraw(s).timer
         /\ Withdraw(s).state = s.state /\ Withdraw(s).rejected = s.rejected
<1>1. Withdraw(s) = [s EXCEPT !.timer = FALSE, !.resume = FALSE, !.requested = FALSE]
  BY DEF Withdraw, CancelRetry
<1>2. s \in Services
  BY DEF Good
<1>3. Withdraw(s) \in Services
  BY <1>1, <1>2 DEF Services
<1>4. /\ SamePipes(s, Withdraw(s))
      /\ ~Withdraw(s).requested /\ ~Withdraw(s).timer
      /\ Withdraw(s).state = s.state /\ Withdraw(s).rejected = s.rejected
  BY <1>1, <1>2 DEF Services, SamePipes
<1>5. QED
  BY <1>3, <1>4, SamePipesGood

LEMMA UserStopsInv ==
  ASSUME ServiceInv, NEW clean, UserStops(clean)
  PROVE  ServiceInv'
<1> DEFINE t == Withdraw(svc)
           halted == StopStreamOutputFor(t, "STOPPED", clean)
           stopped == IF svc.state # "STOPPED" \/ svc.active # None THEN halted ELSE t
           r == IF clean THEN [stopped EXCEPT !.attempts = 0] ELSE stopped
<1>1. /\ Settled(svc) /\ Good(svc) /\ ~svc.rejected
      /\ Become(r, "off") /\ UNCHANGED <<lan, news, destroyed>>
  BY DEF ServiceInv, Settled, UserStops, Usable, Calm, Running
<1>2. /\ Good(t) /\ ~t.requested /\ ~t.timer /\ t.state = svc.state
  BY <1>1, WithdrawEdits
<1> HIDE DEF t
<1>3. svc.state # "STOPPING"
  BY <1>1, NotStopping
<1>4. Stopped(t, halted, "STOPPED")
  BY <1>2, <1>3, StopOutputStops
<1> HIDE DEF halted
<1>5. /\ Good(stopped) /\ ~stopped.requested /\ ~stopped.timer
      /\ stopped.state \in {"STOPPED", "ERROR"}
  BY <1>2, <1>4 DEF Stopped
<1> HIDE DEF stopped
<1>6. Edits(stopped, [stopped EXCEPT !.attempts = 0]) /\ Good([stopped EXCEPT !.attempts = 0])
  BY <1>5, AttemptsEdit, EditWorks DEF Works
<1>7. Settled(r) /\ ~r.requested
  BY <1>5, <1>6 DEF Edits, SameControl, Settled, ControlOK, Rests, Underway
<1>8. lan' \in Networks \cup {None} /\ (news \in News /\ destroyed \in BOOLEAN)'
  BY <1>1 DEF ServiceInv
<1> HIDE DEF r
<1>9. QED
  BY <1>1, <1>7, <1>8, BecomeInv DEF Intents

LEMMA UserSavesInv ==
  ASSUME ServiceInv, NEW saved \in BOOLEAN, NEW clean \in BOOLEAN, NEW how,
         UserSavesSettings(saved, clean, how)
  PROVE  ServiceInv'
<1> DEFINE wasStreaming == svc.requested \/ svc.state \in Underway
           shouldRestart == \/ svc.state \in Underway
                            \/ svc.active # None \/ svc.timer \/ svc.resume
           t == Withdraw(svc)
           quiet == [t EXCEPT !.attempts = 0]
           closed == StopPreviewPipeline(quiet, clean)
           asked == [closed EXCEPT !.requested = TRUE]
           moved == TransitionTo(asked, "STARTING")
           again == IF wasStreaming THEN moved ELSE closed
           caught == [closed EXCEPT !.rejected = FALSE]
           r == CASE ~saved -> SaveFailed(svc)
                  [] saved /\ ~shouldRestart -> svc
                  [] saved /\ shouldRestart /\ closed.rejected -> SaveFailed(caught)
                  [] saved /\ shouldRestart /\ ~closed.rejected /\ ~clean -> closed
                  [] saved /\ shouldRestart /\ ~closed.rejected /\ clean ->
                       StartPreview(again, how)
<1>1. /\ Settled(svc) /\ Good(svc) /\ ~svc.rejected /\ Unused(svc) # {}
      /\ Become(r, intent) /\ UNCHANGED <<lan, news, destroyed>>
  BY DEF ServiceInv, Settled, UserSavesSettings, Usable, Calm, Running
<1>2. r \in {SaveFailed(svc), svc, SaveFailed(caught)}
      \/ (~closed.rejected /\ r \in {closed, StartPreview(again, how)})
  BY Zenon
<1> HIDE DEF shouldRestart, r
<1>3. /\ Good(t) /\ SamePipes(svc, t) /\ ~t.requested /\ ~t.timer /\ t.state = svc.state
  BY <1>1, WithdrawEdits
<1> HIDE DEF t
<1>4. Edits(t, quiet) /\ Good(quiet)
  BY <1>3, AttemptsEdit, EditWorks DEF Works
<1> HIDE DEF quiet
<1>5. /\ quiet.state # "STOPPING" /\ ~quiet.requested /\ ~quiet.timer
      /\ Unused(quiet) = Unused(svc)
  BY <1>1, <1>3, <1>4, NotStopping, SameUnused DEF Edits, SameControl
<1>6. Closed(quiet, closed)
  BY <1>4, <1>5, StopPreviewCloses
<1> HIDE DEF closed
<1>7. /\ Good(closed) /\ closed \in Services /\ ~closed.requested /\ ~closed.timer
      /\ closed.rejected \/ closed.state \in {"STOPPED", "ERROR"}
      /\ Unused(closed) # {}
  BY <1>1, <1>5, <1>6 DEF Closed, Good
<1>8. Handles(svc, SaveFailed(svc)) /\ Handles(svc, svc)
  BY <1>1, SaveFailedHandles DEF Settled, ControlOK, Handles
<1>9. Handles(svc, SaveFailed(caught))
  <2>1. /\ caught \in Services /\ SamePipes(closed, caught) /\ ~caught.requested
        /\ ~caught.timer
    BY <1>7 DEF Services, SamePipes
  <2> HIDE DEF caught
  <2>2. Good(caught)
    BY <1>7, <2>1, SamePipesGood
  <2>3. Handles(caught, SaveFailed(caught))
    BY <2>1, <2>2, SaveFailedHandles
  <2>4. QED
    BY <2>1, <2>3 DEF Handles
<1>10. ASSUME ~closed.rejected PROVE Handles(svc, closed)
  BY <1>7, <1>10 DEF Handles, Settled, ControlOK, Rests, Underway
<1>11. ASSUME ~closed.rejected PROVE Handles(svc, StartPreview(again, how))
  <2>1. /\ asked \in Services /\ SamePipes(closed, asked) /\ asked.requested
        /\ ~asked.timer /\ asked.state \in {"STOPPED", "ERROR"}
    BY <1>7, <1>11 DEF Services, SamePipes
  <2> HIDE DEF asked
  <2>2. Good(asked)
    BY <1>7, <2>1, SamePipesGood
  <2>3. Moved(asked, moved, "STARTING") /\ Good(moved)
    BY <2>2, MovedGood DEF States
  <2>4. ControlOK(moved) /\ SamePipes(closed, moved)
    BY <2>1, <2>3, MovedControl DEF Rests, Moved, SamePipes
  <2> HIDE DEF moved
  <2>5. wasStreaming => svc.requested
    BY <1>1 DEF Settled, ControlOK
  <2> HIDE DEF wasStreaming
  <2>6. Handles(svc, again) /\ Good(again) /\ Unused(again) # {}
    <3>1. CASE wasStreaming
      BY <1>7, <2>3, <2>4, <2>5, <3>1, SameUnused DEF Handles, Settled
    <3>2. CASE ~wasStreaming
      BY <1>7, <1>10, <1>11, <3>2
    <3>3. QED
      BY <3>1, <3>2
  <2> HIDE DEF again
  <2>7. Works(again, StartPreview(again, how))
    BY <2>6, StartPreviewWorks
  <2>8. Handles(again, StartPreview(again, how))
    BY <2>6, <2>7, WorksHandles DEF Handles
  <2>9. QED
    BY <2>6, <2>8, HandlesTwice
<1>12. Handles(svc, r)
  BY <1>2, <1>8, <1>9, <1>10, <1>11
<1>13. QED
  BY <1>1, <1>12, HandlesInv

LEMMA DestroyInv ==
  ASSUME ServiceInv, NEW clean, Destroy(clean)
  PROVE  ServiceInv'
<1> DEFINE t == CancelRetry(svc)
           quiet == [t EXCEPT !.resume = FALSE]
           stopping == IF svc.state \in Underway THEN TransitionTo(quiet, "STOPPING")
                                                 ELSE quiet
           stopped == LifecycleStop(stopping)
           next == IF clean THEN "STOPPED" ELSE "ERROR"
           ended == IF stopped.state # "STOPPING" THEN stopped ELSE TransitionTo(stopped, next)
           idle == [ended EXCEPT !.preview = "IDLE"]
           r == IF svc.active = None THEN quiet ELSE IF clean THEN idle ELSE ended
<1>1. /\ Settled(svc) /\ Good(svc) /\ ~svc.rejected
      /\ Become(r, "off") /\ destroyed' = TRUE /\ UNCHANGED <<lan, news>>
  BY DEF ServiceInv, Settled, Destroy, Usable, Calm, Running
<1> HIDE DEF r
<1>2. Edits(svc, t) /\ Good(t) /\ ~t.timer
  BY <1>1, FieldEdits, EditWorks DEF Works
<1> HIDE DEF t
<1>3. Edits(t, quiet) /\ Good(quiet)
  BY <1>2, FieldEdits, EditWorks DEF Works
<1> HIDE DEF quiet
<1>4. ~quiet.timer /\ quiet.state = svc.state /\ quiet.requested = svc.requested
  BY <1>2, <1>3 DEF Edits, SameControl
<1>5. quiet.state # "STOPPING"
  BY <1>1, <1>4, NotStopping
<1>6. ControlOK(quiet)
  BY <1>1, <1>4, <1>5 DEF Settled, ControlOK, Rests
<1>7. /\ Moved(quiet, TransitionTo(quiet, "STOPPING"), "STOPPING")
      /\ Good(TransitionTo(quiet, "STOPPING"))
  BY <1>3, MovedGood DEF States
<1>8. svc.state \in Underway => "STOPPING" \in Allowed[svc.state]
  BY DEF Underway, Allowed
<1>9. svc.state \notin Underway => svc.state \in {"STOPPED", "ERROR"}
  BY <1>1, <1>4, <1>5 DEF Good, Services, States, Underway
<1>10. /\ Good(stopping) /\ ~stopping.timer
       /\ stopping.state \in {"STOPPING", "STOPPED", "ERROR"}
  BY <1>3, <1>4, <1>7, <1>8, <1>9 DEF Moved
<1> HIDE DEF stopping
<1>11. LetGo(stopping, stopped)
  BY <1>10, LifecycleStopReleases
<1>12. /\ Good(stopped) /\ ~stopped.timer
       /\ stopped.state \in {"STOPPING", "STOPPED", "ERROR"}
  BY <1>10, <1>11 DEF LetGo, Works, SameControl
<1> HIDE DEF stopped
<1>13. next \in {"STOPPED", "ERROR"} /\ next \in States /\ next \in Allowed["STOPPING"]
  BY DEF States, Allowed
<1> HIDE DEF next
<1>14. Moved(stopped, TransitionTo(stopped, next), next) /\ Good(TransitionTo(stopped, next))
  BY <1>12, <1>13, MovedGood
<1>15. Good(ended) /\ ~ended.timer /\ ended.state \in {"STOPPED", "ERROR"}
  BY <1>12, <1>13, <1>14 DEF Moved
<1> HIDE DEF ended
<1>16. Edits(ended, idle) /\ Good(idle)
  BY <1>15, FieldEdits, EditWorks DEF Works, PreviewStates
<1> HIDE DEF idle
<1>17. ControlOK(ended) /\ ControlOK(idle)
  BY <1>15, <1>16 DEF Edits, SameControl, ControlOK, Rests, Underway
<1>18. Settled(r)
  BY <1>3, <1>6, <1>15, <1>16, <1>17 DEF Settled, r
<1>19. lan' \in Networks \cup {None} /\ (news \in News /\ destroyed \in BOOLEAN)'
  BY <1>1 DEF ServiceInv
<1>20. QED
  BY <1>1, <1>18, <1>19, BecomeInv DEF Intents

LEMMA RestartInv == ServiceInv /\ Restart => ServiceInv'
<1> SUFFICES ASSUME ServiceInv, Restart PROVE ServiceInv'
  OBVIOUS
<1>1. /\ svc' = Created /\ news' \in {"look", "both"} /\ destroyed' = FALSE /\ intent' = "off"
      /\ lan' = lan
  BY DEF Restart
<1>2. Settled(svc') /\ ~svc'.requested
  BY <1>1, CreatedSettles DEF Created
<1>3. QED
  BY <1>1, <1>2 DEF ServiceInv, StopIsObeyed, Intents, News
-----------------------------------------------------------------------------
(* The network and the timer.                                              *)

LEMMA WifiChangesInv == ServiceInv /\ WifiChanges => ServiceInv'
<1> SUFFICES ASSUME ServiceInv, WifiChanges PROVE ServiceInv'
  OBVIOUS
<1>1. /\ lan' \in Networks \cup {None} /\ news' \in News
      /\ UNCHANGED <<svc, destroyed, intent>>
  BY DEF WifiChanges, ServiceInv, News
<1>2. Settled(svc')
  BY <1>1 DEF ServiceInv
<1>3. QED
  BY <1>1, <1>2 DEF ServiceInv, StopIsObeyed

LEMMA NetworkChangedInv ==
  ASSUME ServiceInv, NEW clean, NEW outcome, OnNetworkChanged(clean, outcome)
  PROVE  ServiceInv'
<1> DEFINE network == IF news = "loss" THEN None ELSE lan
           s == [svc EXCEPT !.wifi = network]
           interested == svc.requested \/ svc.resume \/ svc.state \in Underway
           replaced == /\ svc.wifi \notin {None, network}
                       /\ svc.state \in {"STARTING", "STREAMING"} \/ svc.active # None
           r == CASE ~interested -> s
                  [] interested /\ network = None -> NetworkLost(s, clean)
                  [] interested /\ network # None /\ replaced ->
                       NetworkReplaced(s, clean, outcome)
                  [] interested /\ network # None /\ ~replaced -> NetworkBack(s, outcome)
           wish == IF svc.state = "STREAMING" /\ network = None THEN "recovering" ELSE intent
<1>1. /\ Settled(svc) /\ Good(svc) /\ ~svc.rejected /\ Become(r, wish)
      /\ news' \in News /\ UNCHANGED <<lan, destroyed>>
  BY DEF ServiceInv, Settled, OnNetworkChanged, Running, News
<1>n. network \in Networks \cup {None}
  BY DEF ServiceInv
<1> HIDE DEF network
<1>2. r \in {s, NetworkLost(s, clean), NetworkReplaced(s, clean, outcome), NetworkBack(s, outcome)}
  <2> HIDE DEF interested, replaced, s
  <2>1. QED
    BY Zenon
<1> HIDE DEF r
<1>3. Edits(svc, s) /\ Works(svc, s)
  BY <1>1, <1>n, FieldEdits, EditWorks DEF ServiceInv
<1> HIDE DEF s
<1>4. Handles(svc, s) /\ Settled(s) /\ ~s.rejected
  BY <1>1, <1>3, WorksHandles DEF Handles, Works, SameControl
<1>5. /\ Handles(s, s) /\ Handles(s, NetworkLost(s, clean))
      /\ Handles(s, NetworkReplaced(s, clean, outcome)) /\ Handles(s, NetworkBack(s, outcome))
  BY <1>4, LostHandles, ReplacedHandles, BackHandles DEF Handles
<1>6. Handles(svc, r)
  BY <1>2, <1>4, <1>5, HandlesTwice
<1>7. wish \in Intents /\ (wish = "off" /\ ~destroyed' => ~r.requested)
  BY <1>1, <1>6 DEF ServiceInv, StopIsObeyed, Handles, Intents
<1> HIDE DEF wish
<1>8. lan' \in Networks \cup {None} /\ (news \in News /\ destroyed \in BOOLEAN)'
  BY <1>1 DEF ServiceInv
<1>9. QED
  BY <1>1, <1>6, <1>7, <1>8, BecomeInv DEF Handles

LEMMA RetryFiresInv ==
  ASSUME ServiceInv, NEW outcome, RetryFires(outcome)
  PROVE  ServiceInv'
<1> DEFINE fired == CancelRetry(svc)
           asked == [fired EXCEPT !.requested = TRUE]
           again == RequestStreamingOutput(TransitionTo(asked, "STARTING"), outcome)
           ready == /\ svc.state = "ERROR" /\ svc.preview = "ACTIVE"
                    /\ svc.active # None /\ svc.wifi # None
           r == IF ready THEN again ELSE fired
<1>1. /\ Settled(svc) /\ Good(svc) /\ svc.timer
      /\ Become(r, intent) /\ UNCHANGED <<lan, news, destroyed>>
  BY DEF ServiceInv, Settled, RetryFires
<1>2. svc.requested
  BY <1>1 DEF Settled, ControlOK
<1>3. Edits(svc, fired) /\ Works(svc, fired) /\ ~fired.timer
  BY <1>1, FieldEdits, EditWorks
<1> HIDE DEF fired
<1>4. Handles(svc, fired) /\ Good(fired) /\ fired \in Services
  BY <1>1, <1>3, WorksHandles DEF Works, Good
<1>5. /\ asked \in Services /\ SamePipes(fired, asked) /\ asked.requested /\ ~asked.timer
      /\ asked.state = fired.state /\ asked.rejected = fired.rejected
  BY <1>3, <1>4 DEF Services, SamePipes
<1> HIDE DEF asked
<1>6. Good(asked) /\ Rests(asked)
  BY <1>4, <1>5, SamePipesGood DEF Handles, Settled, ControlOK, Rests
<1>7. Settled(again)
  BY <1>5, <1>6, AgainHandles
<1>8. Handles(svc, r)
  BY <1>2, <1>4, <1>7 DEF Handles
<1> HIDE DEF r
<1>9. QED
  BY <1>1, <1>8, HandlesInv

-----------------------------------------------------------------------------
(* The camera, the preview surface, the encoder and the server.            *)

LEMMA CameraReadyInv ==
  ASSUME ServiceInv, NEW p \in Pipelines, NEW outcome, CameraReady(p, outcome)
  PROVE  ServiceInv'
<1> DEFINE pipe == [svc.pipelines[p] EXCEPT !.ready = TRUE]
           open == [svc EXCEPT !.pipelines[p].ready = TRUE]
           m == Message("previewReady", p)
           shown == Post(open, m)
           bind == svc.pipelines[p].bind
           r == IF bind = None THEN shown ELSE StartOutputIfReady(shown, p, bind, outcome)
<1>1. /\ Good(svc) /\ svc.pipelines[p].live
      /\ Become(r, intent) /\ UNCHANGED <<lan, news, destroyed>>
  BY DEF ServiceInv, Settled, CameraReady
<1>2. open = [svc EXCEPT !.pipelines[p] = pipe]
  BY <1>1 DEF Good, Services
<1>3. svc.pipelines[p] \in Pipes /\ PipeOK(svc, p)
  BY <1>1, PipeTypes
<1>4. /\ pipe \in Pipes /\ pipe.live /\ pipe.ready
      /\ pipe.output = svc.pipelines[p].output /\ bind \in Networks \cup {None}
  BY <1>1, <1>3 DEF Pipes
<1> HIDE DEF pipe, bind, r
<1>5. Fits(svc, p, pipe)
  BY <1>1, <1>3, <1>4 DEF Fits, PipeOK, Spoken
<1>6. Works(svc, open) /\ Good(open)
  BY <1>1, <1>2, <1>5, ReplaceWorks DEF Works
<1> HIDE DEF open
<1>7. m \in Letters /\ m.kind # "format"
  BY LetterTypes DEF MessageKinds
<1> HIDE DEF m
<1>8. Works(open, shown) /\ Good(shown)
  BY <1>6, <1>7, PostWorks DEF Works
<1>9. Works(svc, shown)
  BY <1>6, <1>8, WorksTwice
<1> HIDE DEF shown
<1>10. bind \in Networks => Works(shown, StartOutputIfReady(shown, p, bind, outcome))
  BY <1>8, StartOutputWorks
<1>11. Works(svc, r)
  BY <1>4, <1>9, <1>10, WorksTwice DEF r
<1>12. QED
  BY <1>1, <1>11, WorksInv

LEMMA CameraFailsInv ==
  ASSUME ServiceInv, NEW p \in Pipelines, CameraFails(p)
  PROVE  ServiceInv'
<1>1. Works(svc, FailPreview(svc, p))
  BY FailPreviewWorks DEF ServiceInv, Settled
<1>2. QED
  BY <1>1, WorksInv DEF CameraFails

LEMMA SurfaceWorks ==
  ASSUME NEW s, Good(s), NEW p \in Pipelines, NEW lost \in BOOLEAN, s.pipelines[p].live
  PROVE  Works(s, [s EXCEPT !.pipelines[p].surfaceLost = lost])
<1> DEFINE pipe == [s.pipelines[p] EXCEPT !.surfaceLost = lost]
<1>1. [s EXCEPT !.pipelines[p].surfaceLost = lost] = [s EXCEPT !.pipelines[p] = pipe]
  BY DEF Good, Services
<1>2. s.pipelines[p] \in Pipes /\ PipeOK(s, p)
  BY PipeTypes
<1>3. /\ pipe \in Pipes /\ pipe.live /\ pipe.ready = s.pipelines[p].ready
      /\ pipe.output = s.pipelines[p].output
  BY <1>2 DEF Pipes
<1> HIDE DEF pipe
<1>4. Fits(s, p, pipe)
  BY <1>2, <1>3 DEF Fits, PipeOK, Spoken
<1>5. QED
  BY <1>1, <1>4, ReplaceWorks

LEMMA PreviewDiagnosticInv ==
  ASSUME ServiceInv, NEW p \in Pipelines, PreviewDiagnostic(p)
  PROVE  ServiceInv'
<1> DEFINE lost == [svc EXCEPT !.pipelines[p].surfaceLost = TRUE]
           error == [lost EXCEPT !.preview = "ERROR"]
           r == IF svc.active = p /\ svc.preview # "IDLE" THEN error ELSE lost
<1>1. /\ Good(svc) /\ svc.pipelines[p].live
      /\ Become(r, intent) /\ UNCHANGED <<lan, news, destroyed>>
  BY DEF ServiceInv, Settled, PreviewDiagnostic
<1>2. Works(svc, lost) /\ Good(lost)
  BY <1>1, SurfaceWorks DEF Works
<1> HIDE DEF lost
<1>3. Works(lost, error)
  BY <1>2, FieldEdits, EditWorks DEF PreviewStates
<1>4. Works(svc, error)
  BY <1>2, <1>3, WorksTwice
<1>5. Works(svc, r)
  BY <1>2, <1>4
<1> HIDE DEF r
<1>6. QED
  BY <1>1, <1>5, WorksInv

LEMMA PreviewRecoveredInv ==
  ASSUME ServiceInv, NEW p \in Pipelines, NEW outcome, PreviewRecovered(p, outcome)
  PROVE  ServiceInv'
<1> DEFINE back == [svc EXCEPT !.pipelines[p].surfaceLost = FALSE]
           shown == [back EXCEPT !.preview = "ACTIVE"]
           r == IF svc.active = p /\ svc.preview # "IDLE"
                  THEN ContinueStart(shown, outcome) ELSE back
<1>1. /\ Settled(svc) /\ Good(svc) /\ svc.pipelines[p].live
      /\ Become(r, intent) /\ UNCHANGED <<lan, news, destroyed>>
  BY DEF ServiceInv, Settled, PreviewRecovered
<1>2. Works(svc, back) /\ Good(back)
  BY <1>1, SurfaceWorks DEF Works
<1> HIDE DEF back
<1>3. Works(back, shown)
  BY <1>2, FieldEdits, EditWorks DEF PreviewStates
<1>4. Works(svc, shown)
  BY <1>2, <1>3, WorksTwice
<1> HIDE DEF shown
<1>5. Handles(svc, back) /\ Handles(svc, shown)
  BY <1>1, <1>2, <1>4, WorksHandles
<1>6. Handles(shown, ContinueStart(shown, outcome))
  BY <1>5, ContinueHandles DEF Handles
<1>7. Handles(svc, r)
  BY <1>5, <1>6, HandlesTwice
<1> HIDE DEF r
<1>8. QED
  BY <1>1, <1>7, HandlesInv

\* The output of a pipeline, with another pair of flags.
LEMMA FlagsWork ==
  ASSUME NEW s, Good(s), NEW p \in Pipelines, s.pipelines[p].output # None,
         NEW output \in Outputs, output.gen = s.pipelines[p].output.gen,
         output.announced
  PROVE  Works(s, [s EXCEPT !.pipelines[p].output = output])
<1> DEFINE pipe == [s.pipelines[p] EXCEPT !.output = output]
<1>1. [s EXCEPT !.pipelines[p].output = output] = [s EXCEPT !.pipelines[p] = pipe]
  BY DEF Good, Services
<1>2. s.pipelines[p] \in Pipes /\ PipeOK(s, p)
  BY PipeTypes
<1>3. /\ pipe \in Pipes /\ pipe.live = s.pipelines[p].live
      /\ pipe.ready = s.pipelines[p].ready /\ pipe.output = output
  BY <1>2 DEF Pipes
<1>4. s.pipelines[p].live /\ s.pipelines[p].ready
  BY <1>2 DEF PipeOK, ClosedPipeline
<1> HIDE DEF pipe
<1>5. Fits(s, p, pipe)
  BY <1>2, <1>3, <1>4 DEF Fits, PipeOK
<1>6. QED
  BY <1>1, <1>5, ReplaceWorks

LEMMA OutputType ==
  ASSUME NEW s, Good(s), NEW p \in Pipelines, s.pipelines[p].output # None
  PROVE  s.pipelines[p].output \in Outputs
BY PipeTypes DEF Pipes

LEMMA EncoderAnnouncesInv ==
  ASSUME ServiceInv, NEW p \in Pipelines, EncoderAnnounces(p)
  PROVE  ServiceInv'
<1> DEFINE output == [svc.pipelines[p].output EXCEPT !.announced = TRUE]
           t == [svc EXCEPT !.pipelines[p].output = output]
           gen == svc.pipelines[p].output.gen
           m == [Message("format", p) EXCEPT !.gen = gen]
           r == Post([svc EXCEPT !.pipelines[p].output.announced = TRUE], m)
<1>1. /\ Good(svc) /\ svc.pipelines[p].output # None
      /\ Become(r, intent) /\ UNCHANGED <<lan, news, destroyed>>
  BY DEF ServiceInv, Settled, EncoderAnnounces
<1>2. [svc EXCEPT !.pipelines[p].output.announced = TRUE] = t
  BY <1>1 DEF Good, Services
<1>3. svc.pipelines[p].output \in Outputs
  BY <1>1, OutputType
<1>4. output \in Outputs /\ output.gen = gen /\ output.announced /\ gen \in Nat
  BY <1>3 DEF Outputs
<1> HIDE DEF output
<1>5. Works(svc, t) /\ Good(t)
  BY <1>1, <1>4, FlagsWork DEF Works
<1>6. t.pipelines[p].output = output
  BY <1>1 DEF Good, Services, Pipes
<1> HIDE DEF t, gen
<1>7. m \in Letters /\ m.kind = "format" /\ m.pipe = p
  BY <1>4 DEF Message, Letters, MessageKinds
<1> HIDE DEF m
<1>8. Works(t, Post(t, m))
  BY <1>4, <1>5, <1>6, <1>7, PostWorks
<1>9. Works(svc, r)
  BY <1>2, <1>5, <1>8, WorksTwice
<1> HIDE DEF r
<1>10. QED
  BY <1>1, <1>9, WorksInv

LEMMA OutputFailsInv ==
  ASSUME ServiceInv, NEW p \in Pipelines, NEW outcome, OutputFails(p, outcome)
  PROVE  ServiceInv'
<1> DEFINE m == Failure("outputFails", p, outcome)
<1>1. m \in Letters /\ m.kind # "format"
  BY LetterTypes DEF MessageKinds
<1>2. Become(Post(svc, m), intent) /\ UNCHANGED <<lan, news, destroyed>>
  BY DEF OutputFails
<1> HIDE DEF m
<1>3. Works(svc, Post(svc, m))
  BY <1>1, PostWorks DEF ServiceInv, Settled
<1>4. QED
  BY <1>2, <1>3, WorksInv

LEMMA ReconfigureInv ==
  ASSUME ServiceInv, NEW p \in Pipelines, NEW outcome, Reconfigure(p, outcome)
  PROVE  ServiceInv'
<1> DEFINE bind == svc.pipelines[p].output.bind
           next == [svc EXCEPT !.pipelines[p].output = NewOutput(svc, bind)]
           r == IF outcome = "ok" THEN next ELSE FailStream(svc, p, outcome)
<1>1. /\ Good(svc) /\ svc.pipelines[p].output # None
      /\ Become(r, intent) /\ UNCHANGED <<lan, news, destroyed>>
  BY DEF ServiceInv, Settled, Reconfigure
<1>2. svc.pipelines[p].output \in Outputs /\ svc.pipelines[p].ready
  BY <1>1, OutputType, PipeTypes DEF PipeOK
<1>3. bind \in Networks
  BY <1>2 DEF Outputs
<1> HIDE DEF bind
<1>4. Works(svc, next)
  BY <1>1, <1>2, <1>3, NewOutputWorks
<1>5. Works(svc, FailStream(svc, p, outcome))
  BY <1>1, FailStreamWorks
<1>6. Works(svc, r)
  BY <1>4, <1>5
<1> HIDE DEF r
<1>7. QED
  BY <1>1, <1>6, WorksInv
-----------------------------------------------------------------------------
(* Messages.                                                               *)

LEMMA ReceivedWorks ==
  ASSUME NEW s, Good(s), s.queue # <<>>
  PROVE  /\ Works(s, [s EXCEPT !.queue = Tail(s.queue)])
         /\ Head(s.queue) \in Letters
         /\ [s EXCEPT !.queue = Tail(s.queue)].pipelines = s.pipelines
<1> DEFINE r == [s EXCEPT !.queue = Tail(s.queue)]
<1>1. s \in Services /\ s.queue \in Seq(Letters) /\ PipesOK(s)
  BY DEF Good, Services
<1>2. Head(s.queue) \in Letters /\ Tail(s.queue) \in Seq(Letters)
  BY <1>1
<1>3. r \in Services
  BY <1>1, <1>2 DEF Services
<1>4. /\ r.pipelines = s.pipelines /\ r.active = s.active
      /\ r.queue = Tail(s.queue) /\ SameControl(s, r)
  BY <1>1 DEF Services, SameControl
<1> HIDE DEF r
<1>5. ASSUME NEW i \in DOMAIN r.queue
      PROVE  i + 1 \in DOMAIN s.queue /\ r.queue[i] = s.queue[i + 1]
  BY <1>1, <1>4, <1>5
<1>6. ASSUME NEW p \in Pipelines PROVE PipeOK(r, p)
  <2>1. PipeOK(s, p)
    BY <1>1 DEF PipesOK
  <2>2. Spoken(s, p) => Spoken(r, p)
    BY <1>4, <1>5 DEF Spoken
  <2>3. QED
    BY <1>4, <2>1, <2>2 DEF PipeOK
<1>7. Works(s, r)
  BY <1>3, <1>4, <1>6 DEF Works, Good, PipesOK
<1>8. QED
  BY <1>2, <1>4, <1>7 DEF r

\* The message at the head of the queue, and the service without it.
LEMMA ReceivesFacts ==
  ASSUME ServiceInv, NEW kind, Receives(kind)
  PROVE  /\ Works(svc, Received) /\ Good(Received) /\ Settled(Received)
         /\ Received.pipelines = svc.pipelines
         /\ Head(svc.queue) \in Letters /\ Head(svc.queue).kind = kind
         /\ Head(svc.queue).pipe \in Pipelines
<1>1. Good(svc) /\ Settled(svc) /\ svc.queue # <<>> /\ Head(svc.queue).kind = kind
  BY DEF ServiceInv, Settled, Receives
<1>2. Received = [svc EXCEPT !.queue = Tail(svc.queue)]
  BY DEF Received
<1>3. /\ Works(svc, Received) /\ Head(svc.queue) \in Letters
      /\ Received.pipelines = svc.pipelines
  BY <1>1, <1>2, ReceivedWorks
<1>4. Settled(Received) /\ Good(Received)
  BY <1>1, <1>3, WorksHandles DEF Handles, Works
<1>5. QED
  BY <1>1, <1>3, <1>4 DEF Letters

LEMMA OnFormatInv ==
  ASSUME ServiceInv, NEW outcome, OnFormat(outcome)
  PROVE  ServiceInv'
<1> DEFINE m == Head(svc.queue)
           p == m.pipe
           output == [svc.pipelines[p].output EXCEPT !.serving = TRUE]
           serving == [Received EXCEPT !.pipelines[p].output.serving = TRUE]
           t == [Received EXCEPT !.pipelines[p].output = output]
           n == Message("streamReady", p)
           r == IF ~IsCurrent(svc, m) THEN Received
                ELSE IF outcome = "ok" THEN Post(serving, n)
                ELSE FailStream(Received, p, outcome)
<1>1. /\ Receives("format") /\ Become(r, intent) /\ UNCHANGED <<lan, news, destroyed>>
  BY DEF OnFormat
<1> HIDE DEF r
<1>2. /\ Works(svc, Received) /\ Good(Received) /\ Received.pipelines = svc.pipelines
      /\ m \in Letters /\ m.kind = "format" /\ p \in Pipelines
  BY <1>1, ReceivesFacts
<1>3. Good(svc) /\ svc.queue # <<>>
  BY <1>1 DEF ServiceInv, Settled, Receives
<1>4. Works(Received, FailStream(Received, p, outcome))
  BY <1>2, FailStreamWorks
<1>5. ASSUME IsCurrent(svc, m) PROVE Works(svc, Post(serving, n))
  <2>1. svc.pipelines[p].output # None /\ svc.pipelines[p].output.gen = m.gen
    BY <1>5 DEF IsCurrent
  <2>2. svc.pipelines[p].output \in Outputs /\ Spoken(svc, p)
    BY <1>2, <1>3, <2>1, OutputType, PipeTypes DEF PipeOK
  <2>3. 1 \in DOMAIN svc.queue /\ m = svc.queue[1]
    BY <1>3 DEF Good, Services
  <2>4. svc.pipelines[p].output.announced
    BY <1>2, <2>1, <2>2, <2>3 DEF Spoken
  <2>5. output \in Outputs /\ output.gen = svc.pipelines[p].output.gen /\ output.announced
    BY <2>2, <2>4 DEF Outputs
  <2>6. serving = t
    BY <1>2 DEF Good, Services
  <2> HIDE DEF output, serving
  <2>7. Works(Received, t) /\ Good(t)
    BY <1>2, <2>1, <2>5, FlagsWork DEF Works
  <2> HIDE DEF t
  <2>8. n \in Letters /\ n.kind # "format"
    BY <1>2, LetterTypes DEF MessageKinds
  <2> HIDE DEF n, p, m
  <2>9. Works(t, Post(t, n))
    BY <2>7, <2>8, PostWorks
  <2>10. QED
    BY <1>2, <2>6, <2>7, <2>9, WorksTwice
<1>6. Works(svc, FailStream(Received, p, outcome))
  BY <1>2, <1>4, WorksTwice
<1>7. Works(svc, r)
  BY <1>2, <1>5, <1>6 DEF r
<1>8. QED
  BY <1>1, <1>7, WorksInv

LEMMA OnOutputFailsInv == ServiceInv /\ OnOutputFails => ServiceInv'
<1> SUFFICES ASSUME ServiceInv, OnOutputFails PROVE ServiceInv'
  OBVIOUS
<1> DEFINE m == Head(svc.queue)
           outcome == IF m.retry THEN "retryable" ELSE "fatal"
           r == FailStream(Received, m.pipe, outcome)
<1>1. /\ Receives("outputFails") /\ Become(r, intent) /\ UNCHANGED <<lan, news, destroyed>>
  BY DEF OnOutputFails
<1>2. /\ Works(svc, Received) /\ Good(Received) /\ m.pipe \in Pipelines
  BY <1>1, ReceivesFacts
<1> HIDE DEF outcome
<1>3. Works(Received, r)
  BY <1>2, FailStreamWorks
<1>4. Works(svc, r)
  BY <1>2, <1>3, WorksTwice
<1> HIDE DEF r
<1>5. QED
  BY <1>1, <1>4, WorksInv

LEMMA ForwardInv ==
  ASSUME ServiceInv, NEW kind, NEW next \in MessageKinds \ {"format"}, Forward(kind, next)
  PROVE  ServiceInv'
<1> DEFINE m == Head(svc.queue)
           n == [m EXCEPT !.kind = next]
           r == IF svc.active = m.pipe THEN Post(Received, n) ELSE Received
<1>1. /\ Receives(kind) /\ Become(r, intent) /\ UNCHANGED <<lan, news, destroyed>>
  BY DEF Forward
<1>2. /\ Works(svc, Received) /\ Good(Received) /\ m \in Letters
  BY <1>1, ReceivesFacts
<1>3. n \in Letters /\ n.kind # "format"
  BY <1>2 DEF Letters
<1> HIDE DEF n
<1>4. Works(Received, Post(Received, n))
  BY <1>2, <1>3, PostWorks
<1>5. Works(svc, Post(Received, n))
  BY <1>2, <1>4, WorksTwice
<1>6. Works(svc, r)
  BY <1>2, <1>5
<1> HIDE DEF r
<1>7. QED
  BY <1>1, <1>6, WorksInv

LEMMA OnPreviewErrorInv == ServiceInv /\ OnPreviewError => ServiceInv'
<1> SUFFICES ASSUME ServiceInv, OnPreviewError PROVE ServiceInv'
  OBVIOUS
<1> DEFINE m == Head(svc.queue)
           n == Message("servicePreviewError", m.pipe)
           t == LifecycleStop(Received)
           r == IF svc.active = m.pipe THEN Post(t, n) ELSE Received
<1>1. /\ Receives("previewError") /\ Become(r, intent) /\ UNCHANGED <<lan, news, destroyed>>
  BY DEF OnPreviewError
<1>2. /\ Works(svc, Received) /\ Good(Received) /\ m.pipe \in Pipelines
  BY <1>1, ReceivesFacts
<1>3. n \in Letters /\ n.kind # "format"
  BY <1>2, LetterTypes DEF MessageKinds
<1> HIDE DEF n
<1>4. Works(Received, t) /\ Good(t)
  BY <1>2, LifecycleStopReleases DEF LetGo, Works
<1> HIDE DEF t
<1>5. Works(t, Post(t, n))
  BY <1>3, <1>4, PostWorks
<1>6. Works(svc, Post(t, n))
  BY <1>2, <1>4, <1>5, WorksTwice
<1>7. Works(svc, r)
  BY <1>2, <1>6
<1> HIDE DEF r
<1>8. QED
  BY <1>1, <1>7, WorksInv

LEMMA OnServicePreviewReadyInv ==
  ASSUME ServiceInv, NEW outcome, OnServicePreviewReady(outcome)
  PROVE  ServiceInv'
<1> DEFINE shown == [Received EXCEPT !.preview = "ACTIVE"]
           r == IF svc.active # None /\ svc.preview = "STARTING"
                  THEN ContinueStart(shown, outcome) ELSE Received
<1>1. /\ Receives("servicePreviewReady") /\ Become(r, intent)
      /\ UNCHANGED <<lan, news, destroyed>>
  BY DEF OnServicePreviewReady
<1>2. Works(svc, Received) /\ Good(Received) /\ Settled(svc)
  BY <1>1, ReceivesFacts DEF ServiceInv
<1>3. Works(Received, shown)
  BY <1>2, FieldEdits, EditWorks DEF PreviewStates
<1> HIDE DEF shown
<1>4. Handles(svc, Received) /\ Handles(svc, shown)
  BY <1>2, <1>3, WorksTwice, WorksHandles
<1>5. Handles(shown, ContinueStart(shown, outcome))
  BY <1>4, ContinueHandles DEF Handles
<1>6. Handles(svc, r)
  BY <1>4, <1>5, HandlesTwice
<1> HIDE DEF r
<1>7. QED
  BY <1>1, <1>6, HandlesInv

LEMMA OnServiceStreamReadyInv == ServiceInv /\ OnServiceStreamReady => ServiceInv'
<1> SUFFICES ASSUME ServiceInv, OnServiceStreamReady PROVE ServiceInv'
  OBVIOUS
<1> DEFINE quiet == [Received EXCEPT !.attempts = 0]
           t == [Received EXCEPT !.attempts = 0, !.resume = FALSE]
           live == TransitionTo(t, "STREAMING")
           r == IF svc.active # None /\ svc.state = "STARTING" THEN live ELSE Received
<1>1. /\ Receives("serviceStreamReady") /\ Become(r, intent)
      /\ UNCHANGED <<lan, news, destroyed>>
  BY DEF OnServiceStreamReady
<1>2. /\ Works(svc, Received) /\ Good(Received) /\ Settled(svc) /\ Settled(Received)
      /\ Received \in Services
  BY <1>1, ReceivesFacts DEF ServiceInv, Good
<1>3. Edits(Received, quiet) /\ Works(Received, quiet) /\ Good(quiet)
  BY <1>2, AttemptsEdit, EditWorks DEF Works
<1>4. t = [quiet EXCEPT !.resume = FALSE]
  BY <1>2 DEF Services
<1> HIDE DEF quiet
<1>5. Works(quiet, t)
  BY <1>3, <1>4, FieldEdits, EditWorks
<1> HIDE DEF t
<1>6. Works(svc, t) /\ Good(t)
  BY <1>2, <1>3, <1>5, WorksTwice DEF Works
<1>7. Handles(svc, t) /\ Handles(svc, Received)
  BY <1>2, <1>6, WorksHandles
<1>8. Moved(t, live, "STREAMING") /\ Good(live)
  BY <1>6, MovedGood DEF States
<1>9. ASSUME svc.state = "STARTING" PROVE Handles(svc, live)
  <2>1. t.state = "STARTING" /\ t.requested = svc.requested
    BY <1>6, <1>9 DEF Works, SameControl
  <2>2. t.requested /\ ~t.timer /\ Rests(t)
    BY <1>7, <2>1 DEF Handles, Settled, ControlOK, Underway
  <2>3. ControlOK(live)
    BY <1>8, <2>2, MovedControl
  <2>4. QED
    BY <1>8, <2>1, <2>3 DEF Handles, Settled, Moved
<1>10. Handles(svc, r)
  BY <1>7, <1>9
<1> HIDE DEF r
<1>11. QED
  BY <1>1, <1>10, HandlesInv

LEMMA OnServiceStreamErrorInv == ServiceInv /\ OnServiceStreamError => ServiceInv'
<1> SUFFICES ASSUME ServiceInv, OnServiceStreamError PROVE ServiceInv'
  OBVIOUS
<1> DEFINE failed == TransitionTo(Received, "ERROR")
           r == CASE svc.state \notin {"STARTING", "STREAMING"} -> Received
                  [] svc.state \in {"STARTING", "STREAMING"} /\ Head(svc.queue).retry ->
                       ScheduleRetry(failed)
                  [] svc.state \in {"STARTING", "STREAMING"} /\ ~Head(svc.queue).retry ->
                       CancelRetry(failed)
<1>1. /\ Receives("serviceStreamError") /\ Become(r, intent)
      /\ UNCHANGED <<lan, news, destroyed>>
  BY DEF OnServiceStreamError
<1>2. \/ r = Received
      \/ svc.state \in {"STARTING", "STREAMING"} /\ r \in {ScheduleRetry(failed), CancelRetry(failed)}
  BY Zenon
<1> HIDE DEF r
<1>3. Works(svc, Received) /\ Settled(Received) /\ Settled(svc)
  BY <1>1, ReceivesFacts DEF ServiceInv
<1>4. Handles(svc, Received)
  BY <1>3, WorksHandles
<1>5. Handles(Received, failed) /\ failed.requested = Received.requested
  BY <1>3, FailedHandles
<1> HIDE DEF failed
<1>6. Handles(svc, failed) /\ failed.requested = svc.requested
  BY <1>3, <1>4, <1>5, HandlesTwice DEF Works, SameControl
<1>7. Handles(failed, CancelRetry(failed))
  BY <1>6, FieldEdits, EditWorks, WorksHandles DEF Handles, Settled
<1>8. ASSUME svc.state \in {"STARTING", "STREAMING"} PROVE Handles(failed, ScheduleRetry(failed))
  <2>1. failed.requested
    BY <1>3, <1>6, <1>8 DEF Settled, ControlOK, Underway
  <2>2. QED
    BY <1>6, <2>1, RetryHandles DEF Handles
<1>9. Handles(svc, r)
  BY <1>2, <1>4, <1>6, <1>7, <1>8, HandlesTwice
<1>10. QED
  BY <1>1, <1>9, HandlesInv

LEMMA OnServicePreviewErrorInv == ServiceInv /\ OnServicePreviewError => ServiceInv'
<1> SUFFICES ASSUME ServiceInv, OnServicePreviewError PROVE ServiceInv'
  OBVIOUS
<1> DEFINE failed == [Received EXCEPT !.preview = "ERROR"]
           r == IF svc.state \in {"STARTING", "STREAMING"}
                  THEN TransitionTo(failed, "ERROR") ELSE failed
<1>1. /\ Receives("servicePreviewError") /\ Become(r, intent)
      /\ UNCHANGED <<lan, news, destroyed>>
  BY DEF OnServicePreviewError
<1>2. Works(svc, Received) /\ Good(Received) /\ Settled(svc)
  BY <1>1, ReceivesFacts DEF ServiceInv
<1>3. Works(Received, failed)
  BY <1>2, FieldEdits, EditWorks DEF PreviewStates
<1> HIDE DEF failed
<1>4. Handles(svc, failed)
  BY <1>2, <1>3, WorksTwice, WorksHandles
<1>5. Handles(failed, TransitionTo(failed, "ERROR"))
  BY <1>4, FailedHandles DEF Handles
<1>6. Handles(svc, r)
  BY <1>4, <1>5, HandlesTwice
<1> HIDE DEF r
<1>7. QED
  BY <1>1, <1>6, HandlesInv

-----------------------------------------------------------------------------
(* The theorems.                                                           *)

LEMMA ServiceInitInv == Init => ServiceInv
<1> SUFFICES ASSUME Init PROVE ServiceInv
  OBVIOUS
<1>1. svc = Created /\ ~Created.requested
  BY DEF Init, Created
<1>2. Settled(svc) /\ StopIsObeyed
  BY <1>1, CreatedSettles DEF StopIsObeyed
<1>3. QED
  BY <1>2 DEF Init, ServiceInv, Intents, News

LEMMA ServiceNextInv == ServiceInv /\ [Next]_vars => ServiceInv'
<1> SUFFICES ASSUME ServiceInv, [Next]_vars PROVE ServiceInv'
  OBVIOUS
<1>1. CASE Commands
  BY <1>1, UserStartsInv, UserStartsPreviewInv, UserStopsInv, UserSavesInv, DestroyInv,
     RestartInv, Zenon DEF Commands
<1>2. CASE Resources
  BY <1>2, CameraReadyInv, CameraFailsInv, PreviewDiagnosticInv, PreviewRecoveredInv,
     EncoderAnnouncesInv, OutputFailsInv, ReconfigureInv, Zenon DEF Resources
<1>3. CASE Messages
  <2>1. {"servicePreviewReady", "serviceStreamReady", "serviceStreamError"}
          \subseteq MessageKinds \ {"format"}
    BY DEF MessageKinds
  <2>2. CASE \/ Forward("previewReady", "servicePreviewReady")
             \/ Forward("streamReady", "serviceStreamReady")
             \/ Forward("streamError", "serviceStreamError")
    BY <2>1, <2>2, ForwardInv
  <2>3. QED
    BY <1>3, <2>2, OnFormatInv, OnServicePreviewReadyInv, OnOutputFailsInv,
       OnPreviewErrorInv, OnServiceStreamReadyInv, OnServiceStreamErrorInv,
       OnServicePreviewErrorInv, Zenon DEF Messages
<1>4. CASE Network
  BY <1>4, WifiChangesInv, NetworkChangedInv, Zenon DEF Network
<1>5. CASE Timer
  BY <1>5, RetryFiresInv, Zenon DEF Timer
<1>6. CASE UNCHANGED vars
  BY <1>6 DEF vars, ServiceInv, StopIsObeyed
<1>7. QED
  BY <1>1, <1>2, <1>3, <1>4, <1>5, <1>6 DEF Next

\* Whatever the user, the camera, the encoder and the network do, and in
\* whatever order the main thread hears of it, the service keeps the inductive
\* invariant (CameraStreamingService.kt).
THEOREM ServiceAgrees == Spec => []ServiceInv
<1>1. Init => ServiceInv
  BY ServiceInitInv
<1>2. ServiceInv /\ [Next]_vars => ServiceInv'
  BY ServiceNextInv
<1>3. QED
  BY <1>1, <1>2, PTL DEF Spec

LEMMA ServiceTypes == ServiceInv => TypeOK
<1> SUFFICES ASSUME ServiceInv PROVE TypeOK
  OBVIOUS
<1>1. svc \in Services /\ PipesOK(svc) /\ Rests(svc)
  BY DEF ServiceInv, Settled, Good, ControlOK
<1>2. ASSUME NEW p \in Pipelines
      PROVE  /\ svc.pipelines[p].live \/ svc.pipelines[p] = ClosedPipeline
             /\ svc.pipelines[p].bind \in Networks \cup {None}
             /\ \/ svc.pipelines[p].output = None
                \/ svc.pipelines[p].ready /\ svc.pipelines[p].output \in Outputs
  BY <1>1 DEF Services, Pipes, PipesOK, PipeOK
<1>3. ASSUME NEW i \in DOMAIN svc.queue
      PROVE  svc.queue[i].kind \in MessageKinds /\ svc.queue[i].pipe \in Pipelines
  <2>1. svc.queue \in Seq(Letters)
    BY <1>1 DEF Services
  <2>2. svc.queue[i] \in Letters
    BY <2>1
  <2>3. QED
    BY <2>2 DEF Letters
<1>4. /\ svc.state \in States \ {"STOPPING"} \/ svc.rejected
      /\ svc.preview \in PreviewStates
      /\ svc.wifi \in Networks \cup {None}
      /\ {svc.resume, svc.requested, svc.timer, svc.rejected} \subseteq BOOLEAN
      /\ svc.attempts \in 0 .. MaxRetry
      /\ svc.active \in Pipelines \cup {None}
  BY <1>1 DEF Services, Rests
<1>5. QED
  BY <1>2, <1>3, <1>4 DEF TypeOK, ServiceInv, Intents

\* The service keeps its types and bounds, never rests in STOPPING, and its
\* retries stay within MAX_RETRY_ATTEMPTS (CameraStreamingService.kt).
THEOREM ServiceTyped == Spec => []TypeOK
BY ServiceTypes, ServiceAgrees, PTL

\* Only the active pipeline holds a camera, an encoder or a server
\* (StreamLifecycleController.kt).
THEOREM ServiceHasOnePipeline == Spec => []OnePipeline
<1>1. ServiceInv => OnePipeline
  BY DEF ServiceInv, Settled, Good, PipesOK, PipeOK, OnePipeline
<1>2. QED
  BY <1>1, ServiceAgrees, PTL

\* A stream that is underway, and a retry that will start one, are asked for, and
\* nothing is after a stop by the user (CameraStreamingService.kt).
THEOREM ServiceIsAskedFor == Spec => []StreamIsAskedFor
<1>1. ServiceInv => StreamIsAskedFor
  BY DEF ServiceInv, Settled, ControlOK, StopIsObeyed, StreamIsAskedFor, StreamIsWanted,
         ManualStopHolds
<1>2. QED
  BY <1>1, ServiceAgrees, PTL

\* An RTSP server starts after the encoder of its own output announced its format
\* (StreamingPipeline.kt).
THEOREM ServiceServesItsEncoder == Spec => []ServerFollowsItsEncoder
<1>1. ServiceInv => ServerFollowsItsEncoder
  BY DEF ServiceInv, Settled, Good, PipesOK, PipeOK, ServerFollowsItsEncoder
<1>2. QED
  BY <1>1, ServiceAgrees, PTL

=============================================================================
