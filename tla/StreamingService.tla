-------------------------- MODULE StreamingService --------------------------
(***************************************************************************)
(* The Android streaming service: CameraStreamingService with its state    *)
(* machine, the StreamLifecycleController and the StreamingPipeline it     *)
(* drives, on the main thread's message queue.                             *)
(*                                                                         *)
(* Handlers run to completion on the main thread, so a handler is one      *)
(* action, and the methods it is composed of are operators from a service  *)
(* state to a service state.  The queue holds the callbacks that carry     *)
(* something they learnt when they were posted: the output generation of a *)
(* format, the fact that a failing output was the current one, the hops by *)
(* which readiness and errors travel from the pipeline to the service.     *)
(* Callbacks that look at everything when they run (camera, network,       *)
(* preview surface, user) are actions that may run between any two         *)
(* messages, which is where the queue may put them.                        *)
(***************************************************************************)
EXTENDS Naturals, Sequences, SequencesExt

CONSTANTS
    Networks,      \* the Wi-Fi networks: address and SSID
    Pipelines,     \* identities for pipelines, used again once forgotten
    None,
    MaxRetry,      \* MAX_RETRY_ATTEMPTS
    QueueBound     \* bound: see Calm

ASSUME NoneAssumption == None \notin Networks \cup Pipelines
ASSUME RetryAssumption == MaxRetry \in Nat
ASSUME QueueAssumption == QueueBound \in Nat \ {0}

VARIABLES
    svc,           \* the fields of the service, its controller and pipelines
    lan,           \* the network the phone is on, or None
    news,          \* what the network monitor has queued, see News
    destroyed,     \* onDestroy has run
    intent         \* history: what the user asked for, see Become

vars == <<svc, lan, news, destroyed, intent>>

States == {"STOPPED", "WAITING", "STARTING", "STREAMING", "STOPPING", "ERROR"}
PreviewStates == {"IDLE", "STARTING", "ACTIVE", "ERROR"}
Underway == {"STARTING", "STREAMING", "WAITING"}

\* A look at the network, or nothing; a monitor that could not register its
\* callback has queued "both" a look and a loss, then only the "loss", and is
\* "deaf" afterwards.
News == {"none", "look", "both", "loss", "deaf"}

\* How an operation that may throw ends: it succeeds, or fails with an error
\* that the retry policy may or may not retry.
Outcomes == {"ok", "retryable", "fatal"}

\* How startPreviewInternal ends: the camera is opening, Android refuses the
\* camera or the foreground service, or the camera cannot be created.
PreviewOutcomes == {"opening", "refused", "broken"}

-----------------------------------------------------------------------------
(* StreamStateMachine *)

Allowed == [ STOPPED   |-> {"STARTING"},
             WAITING   |-> {"STARTING", "STOPPED", "STOPPING", "ERROR"},
             STARTING  |-> {"WAITING", "STREAMING", "STOPPING", "ERROR"},
             STREAMING |-> {"STOPPING", "ERROR"},
             STOPPING  |-> {"STOPPED", "WAITING", "ERROR"},
             ERROR     |-> {"STARTING", "STOPPED"} ]

\* A transition that is not allowed throws: the state stays, `rejected` tells.
TransitionTo(s, next) ==
    IF next = s.state \/ next \in Allowed[s.state]
      THEN [s EXCEPT !.state = next]
      ELSE [s EXCEPT !.rejected = TRUE]

-----------------------------------------------------------------------------
(* StreamingPipeline.  A pipeline that is closed looks like one that was   *)
(* never made, until no message names it.                                  *)

ClosedPipeline == [live |-> FALSE, ready |-> FALSE, surfaceLost |-> FALSE,
                   bind |-> None, output |-> None]

NewPipeline == [ClosedPipeline EXCEPT !.live = TRUE]

Message(kind, p) == [kind |-> kind, pipe |-> p, gen |-> 0, retry |-> FALSE]
Failure(kind, p, outcome) ==
    [Message(kind, p) EXCEPT !.retry = (outcome = "retryable")]

Post(s, m) == [s EXCEPT !.queue = Append(@, m)]

\* Generations are compared for equality only, so a number that no message
\* carries serves again.
FreshGeneration(s) ==
    CHOOSE g \in 1 .. Len(s.queue) + 1 : \A m \in ToSet(s.queue) : m.gen # g

NewOutput(s, address) ==
    [gen |-> FreshGeneration(s), bind |-> address,
     announced |-> FALSE, serving |-> FALSE]

StopOutput(s, p) ==
    [s EXCEPT !.pipelines[p].output = None, !.pipelines[p].bind = None]

FailStream(s, p, outcome) ==
    IF s.pipelines[p].live
      THEN Post(StopOutput(s, p), Failure("streamError", p, outcome))
      ELSE s

FailPreview(s, p) ==
    IF s.pipelines[p].live
      THEN Post([s EXCEPT !.pipelines[p] = ClosedPipeline],
                Message("previewError", p))
      ELSE s

StartOutputIfReady(s, p, address, outcome) ==
    IF ~s.pipelines[p].ready \/ s.pipelines[p].output # None THEN s
    ELSE IF outcome = "ok"
      THEN [s EXCEPT !.pipelines[p].output = NewOutput(s, address)]
      ELSE FailStream(s, p, outcome)

\* pipeline.startStreaming: an invalid configuration fails before the camera is
\* ready, but not while an output of the same settings exists.
PipelineStartStreaming(s, p, address, outcome) ==
    LET bound == [s EXCEPT !.pipelines[p].bind = address] IN
    CASE ~s.pipelines[p].live -> s
      [] s.pipelines[p].live /\ s.pipelines[p].output # None -> bound
      [] s.pipelines[p].live /\ s.pipelines[p].output = None ->
           IF outcome = "ok" THEN StartOutputIfReady(bound, p, address, "ok")
                             ELSE FailStream(s, p, outcome)

-----------------------------------------------------------------------------
(* StreamLifecycleController.  Its token changes whenever the active       *)
(* pipeline does, so that "the token is current" is "the pipeline is the   *)
(* active one".                                                            *)

Unused(s) == { p \in Pipelines : /\ p # s.active
                                 /\ ~s.pipelines[p].live
                                 /\ \A m \in ToSet(s.queue) : m.pipe # p }

LifecycleStart(s, how) ==
    LET p == CHOOSE q \in Unused(s) : TRUE
        opened == [s EXCEPT !.active = p, !.pipelines[p] = NewPipeline]
    IN  IF s.active # None THEN s
        ELSE IF how = "broken" THEN FailPreview(opened, p) ELSE opened

LifecycleStopStreaming(s) ==
    IF s.active # None /\ s.pipelines[s.active].live
      THEN StopOutput(s, s.active) ELSE s

BugForgetWithoutStopping(s) == [s EXCEPT !.active = None]

LifecycleStop(s) ==
    IF s.active = None THEN s
      ELSE [s EXCEPT !.pipelines[s.active] = ClosedPipeline, !.active = None]

-----------------------------------------------------------------------------
(* CameraStreamingService: the methods handlers are made of *)

BugCancelNothing(s) == s

CancelRetry(s) == [s EXCEPT !.timer = FALSE]

\* What a stop and a change of settings take back before anything else.
Withdraw(s) == [CancelRetry(s) EXCEPT !.resume = FALSE, !.requested = FALSE]

RequestStreamingOutput(s, outcome) ==
    IF s.wifi = None THEN TransitionTo(s, "WAITING")
    ELSE IF s.state = "STARTING" /\ s.active # None
      THEN PipelineStartStreaming(s, s.active, s.wifi, outcome)
      ELSE s

StartPreview(s, how) ==
    IF \/ s.preview \in {"ACTIVE", "STARTING"}
       \/ (s.preview = "ERROR" /\ s.active # None)
      THEN s
    ELSE IF how = "refused" THEN [s EXCEPT !.preview = "ERROR"]
    ELSE LifecycleStart([CancelRetry(s) EXCEPT !.preview = "STARTING"], how)

\* The part of startStreamingInternal for a preview that is running.
StartWithPreview(s, outcome) ==
    LET known == [s EXCEPT !.wifi = IF s.wifi = None THEN lan ELSE s.wifi] IN
    IF known.wifi = None
      THEN TransitionTo([known EXCEPT !.resume = FALSE], "WAITING")
      ELSE RequestStreamingOutput(known, outcome)

StartStreaming(s, how, outcome) ==
    LET asked == [CancelRetry(s) EXCEPT !.attempts = 0, !.requested = TRUE]
        begun == IF s.state \in {"STOPPED", "ERROR"}
                   THEN TransitionTo(asked, "STARTING") ELSE asked
        shown == StartPreview(begun, how)
    IN  IF s.preview = "ACTIVE" THEN StartWithPreview(begun, outcome)
        ELSE IF shown.preview = "ERROR" /\ shown.state = "STARTING" /\ shown.active = None
          THEN TransitionTo(shown, "ERROR")
          ELSE shown

\* stopStreamOutputFor; `clean` is the success of the cleanup.
StopStreamOutputFor(s, next, clean) ==
    IF s.state \in Underway
      THEN TransitionTo(LifecycleStopStreaming(TransitionTo(s, "STOPPING")),
                        IF clean THEN next ELSE "ERROR")
    ELSE IF s.state = "ERROR" /\ next = "WAITING" THEN s
    ELSE TransitionTo(s, next)

\* There is something whose cleanup may fail.
OutputToStop(s) ==
    /\ s.state \in Underway
    /\ s.active # None
    /\ s.pipelines[s.active].output # None

PipelineToStop(s) == s.active # None /\ s.pipelines[s.active].live

StopPreviewPipeline(s, clean) ==
    LET stopping == IF s.state \in Underway THEN TransitionTo(s, "STOPPING") ELSE s
        stopped == LifecycleStop(stopping)
    IN  CASE s.active = None ->
               LET idle == [s EXCEPT !.preview = "IDLE"] IN
               IF s.state = "ERROR" THEN idle ELSE TransitionTo(idle, "STOPPED")
          [] s.active # None /\ clean ->
               LET idle == [stopped EXCEPT !.preview = "IDLE"] IN
               IF stopped.state = "STOPPING" THEN TransitionTo(idle, "STOPPED") ELSE idle
          [] s.active # None /\ ~clean ->
               TransitionTo(stopped, "ERROR")

BugRetryForEver(s) ==
    IF s.state = "ERROR" /\ s.preview = "ACTIVE" /\ s.wifi # None /\ s.active # None
      THEN [s EXCEPT !.timer = TRUE, !.attempts = @ + 1]
      ELSE s

ScheduleRetry(s) ==
    IF /\ s.state = "ERROR" /\ s.preview = "ACTIVE"
       /\ s.wifi # None /\ ~s.timer /\ s.active # None
       /\ s.attempts < MaxRetry
      THEN [s EXCEPT !.timer = TRUE, !.attempts = @ + 1]
      ELSE s

\* What onPreviewReady and onPreviewRecovered do next for a start that waited.
ContinueStart(s, outcome) ==
    IF s.requested /\ s.state = "STARTING"
      THEN RequestStreamingOutput(s, outcome) ELSE s

-----------------------------------------------------------------------------
(* A service that has been created, and the end of every handler *)

Created ==
    [ state |-> "STOPPED", preview |-> "IDLE", wifi |-> None,
      resume |-> FALSE,          \* networkResumeReason # null
      requested |-> FALSE,       \* streamStartRequested
      attempts |-> 0,            \* retryAttempt
      timer |-> FALSE,           \* retryRunnable is posted
      rejected |-> FALSE,        \* the state machine threw: the process is dead
      active |-> None,
      pipelines |-> [p \in Pipelines |-> ClosedPipeline],
      queue |-> <<>> ]

Init ==
    /\ svc = Created
    /\ lan \in Networks \cup {None}
    /\ news \in {"look", "both"}
    /\ destroyed = FALSE
    /\ intent = "off"

\* `intent` is "on" from a start by the user to a stop or the end, and
\* "recovering" while a stream that was live is being brought back after its
\* network was lost.
Become(s, wish) ==
    /\ svc' = s
    /\ intent' = IF wish = "recovering" /\ s.state \in {"STREAMING", "ERROR"}
                   THEN "on" ELSE wish

Running == ~svc.rejected

\* Bound: users and resources do not act upon a longer backlog.
Calm == Running /\ Len(svc.queue) < QueueBound

Usable == Calm /\ ~destroyed

-----------------------------------------------------------------------------
(* Commands: binder calls and intents *)

UserStarts(how, outcome) ==
    /\ Usable
    /\ svc.active = None => Unused(svc) # {}
    /\ Become(StartStreaming(svc, how, outcome), "on")
    /\ UNCHANGED <<lan, news, destroyed>>

UserStartsPreview(how) ==
    /\ Usable
    /\ svc.active = None => Unused(svc) # {}
    /\ Become(StartPreview(svc, how), intent)
    /\ UNCHANGED <<lan, news, destroyed>>

UserStops(clean) ==
    /\ Usable
    /\ clean \/ OutputToStop(svc)
    /\ LET stopped == IF svc.state # "STOPPED" \/ svc.active # None
                        THEN StopStreamOutputFor(Withdraw(svc), "STOPPED", clean)
                        ELSE Withdraw(svc)
       IN  Become(IF clean THEN [stopped EXCEPT !.attempts = 0] ELSE stopped, "off")
    /\ UNCHANGED <<lan, news, destroyed>>

SaveFailed(s) ==
    IF s.state = "STOPPED" THEN s ELSE TransitionTo(s, "ERROR")

\* An exception inside saveSettingsInternal, a rejected transition too, is
\* caught there and becomes the service's error.
UserSavesSettings(saved, clean, how) ==
    /\ Usable
    /\ Unused(svc) # {}
    /\ clean \/ PipelineToStop(svc)
    /\ LET wasStreaming == svc.requested \/ svc.state \in Underway
           shouldRestart == \/ svc.state \in Underway
                            \/ svc.active # None \/ svc.timer \/ svc.resume
           quiet == [Withdraw(svc) EXCEPT !.attempts = 0]
           closed == StopPreviewPipeline(quiet, clean)
           again == IF wasStreaming
                      THEN TransitionTo([closed EXCEPT !.requested = TRUE], "STARTING")
                      ELSE closed
       IN  Become(CASE ~saved -> SaveFailed(svc)
                    [] saved /\ ~shouldRestart -> svc
                    [] saved /\ shouldRestart /\ closed.rejected ->
                         SaveFailed([closed EXCEPT !.rejected = FALSE])
                    [] saved /\ shouldRestart /\ ~closed.rejected /\ ~clean -> closed
                    [] saved /\ shouldRestart /\ ~closed.rejected /\ clean ->
                         StartPreview(again, how),
                  intent)
    /\ UNCHANGED <<lan, news, destroyed>>

Destroy(clean) ==
    /\ Usable
    /\ clean \/ PipelineToStop(svc)
    /\ LET quiet == [CancelRetry(svc) EXCEPT !.resume = FALSE]
           stopping == IF svc.state \in Underway THEN TransitionTo(quiet, "STOPPING")
                                                 ELSE quiet
           stopped == LifecycleStop(stopping)
           ended == IF stopped.state # "STOPPING" THEN stopped
                    ELSE TransitionTo(stopped, IF clean THEN "STOPPED" ELSE "ERROR")
       IN  Become(IF svc.active = None THEN quiet
                  ELSE IF clean THEN [ended EXCEPT !.preview = "IDLE"] ELSE ended,
                  "off")
    /\ destroyed' = TRUE
    /\ UNCHANGED <<lan, news>>

\* START_STICKY: Android creates the service again after its process died, or
\* after it was destroyed and its last callbacks ran.
Restart ==
    /\ svc.rejected \/ (destroyed /\ svc.queue = <<>> /\ news \in {"none", "deaf"})
    /\ svc' = Created
    /\ news' \in {"look", "both"}
    /\ destroyed' = FALSE
    /\ intent' = "off"
    /\ UNCHANGED lan

-----------------------------------------------------------------------------
(* The network *)

WifiChanges ==
    /\ Running
    /\ lan' \in (Networks \cup {None}) \ {lan}
    /\ news' = IF news = "none" /\ ~destroyed THEN "look" ELSE news
    /\ UNCHANGED <<svc, destroyed, intent>>

\* onNetworkChanged without a network, while somebody is interested.
NetworkLost(s, clean) ==
    IF s.state = "ERROR" THEN s
    ELSE StopStreamOutputFor(
           [CancelRetry(s) EXCEPT !.resume = \/ s.state = "STREAMING"
                                             \/ (s.state = "WAITING" /\ s.resume)],
           "WAITING", clean)

\* onNetworkChanged with a network that is not the one before.
NetworkReplaced(s, clean, outcome) ==
    LET stopped == StopStreamOutputFor([s EXCEPT !.resume = (s.state = "STREAMING")],
                                       "STOPPED", clean)
    IN  IF clean /\ s.state = "STREAMING"
          THEN RequestStreamingOutput(
                 TransitionTo([stopped EXCEPT !.resume = FALSE], "STARTING"), outcome)
          ELSE stopped

BugNetworkBackForgetsOthers(s, outcome) ==
    IF s.state = "WAITING" /\ s.resume
      THEN RequestStreamingOutput(
             TransitionTo([s EXCEPT !.resume = FALSE], "STARTING"), outcome)
      ELSE s

\* onNetworkChanged with a network after a while without.
NetworkBack(s, outcome) ==
    IF s.state # "WAITING" THEN s
    ELSE IF s.resume
      THEN RequestStreamingOutput(
             TransitionTo([s EXCEPT !.resume = FALSE], "STARTING"), outcome)
      ELSE TransitionTo([s EXCEPT !.requested = FALSE], "STOPPED")

\* onNetworkChanged with the network the phone is on, or with none when the
\* monitor could not register its callback.
OnNetworkChanged(clean, outcome) ==
    /\ Running /\ news \notin {"none", "deaf"}
    /\ clean \/ OutputToStop(svc)
    /\ LET network == IF news = "loss" THEN None ELSE lan
           s == [svc EXCEPT !.wifi = network]
           interested == svc.requested \/ svc.resume \/ svc.state \in Underway
           replaced == /\ svc.wifi \notin {None, network}
                       /\ svc.state \in {"STARTING", "STREAMING"} \/ svc.active # None
       IN  Become(CASE ~interested -> s
                    [] interested /\ network = None -> NetworkLost(s, clean)
                    [] interested /\ network # None /\ replaced ->
                         NetworkReplaced(s, clean, outcome)
                    [] interested /\ network # None /\ ~replaced -> NetworkBack(s, outcome),
                  IF svc.state = "STREAMING" /\ network = None THEN "recovering" ELSE intent)
    /\ news' = CASE news = "look" -> "none" [] news = "both" -> "loss" [] news = "loss" -> "deaf"
    /\ UNCHANGED <<lan, destroyed>>

-----------------------------------------------------------------------------
(* Camera, preview surface, encoder and RTSP server *)

\* onPreviewCaptureReady, after the camera opened and its capture started.
CameraReady(p, outcome) ==
    /\ Calm
    /\ svc.pipelines[p].live /\ ~svc.pipelines[p].ready
    /\ LET shown == Post([svc EXCEPT !.pipelines[p].ready = TRUE],
                         Message("previewReady", p))
       IN  Become(IF svc.pipelines[p].bind = None THEN shown
                  ELSE StartOutputIfReady(shown, p, svc.pipelines[p].bind, outcome),
                  intent)
    /\ UNCHANGED <<lan, news, destroyed>>

CameraFails(p) ==
    /\ Calm
    /\ svc.pipelines[p].live
    /\ Become(FailPreview(svc, p), intent)
    /\ UNCHANGED <<lan, news, destroyed>>

\* onPreviewDiagnostic and onPreviewRecovered, by way of the controller.
PreviewDiagnostic(p) ==
    /\ Calm
    /\ svc.pipelines[p].live /\ ~svc.pipelines[p].surfaceLost
    /\ LET lost == [svc EXCEPT !.pipelines[p].surfaceLost = TRUE] IN
       Become(IF svc.active = p /\ svc.preview # "IDLE"
                THEN [lost EXCEPT !.preview = "ERROR"] ELSE lost, intent)
    /\ UNCHANGED <<lan, news, destroyed>>

PreviewRecovered(p, outcome) ==
    /\ Calm
    /\ svc.pipelines[p].live /\ svc.pipelines[p].surfaceLost
    /\ LET back == [svc EXCEPT !.pipelines[p].surfaceLost = FALSE] IN
       Become(IF svc.active = p /\ svc.preview # "IDLE"
                THEN ContinueStart([back EXCEPT !.preview = "ACTIVE"], outcome)
                ELSE back, intent)
    /\ UNCHANGED <<lan, news, destroyed>>

EncoderAnnounces(p) ==
    /\ Calm
    /\ svc.pipelines[p].output # None
    /\ ~svc.pipelines[p].output.announced
    /\ Become(Post([svc EXCEPT !.pipelines[p].output.announced = TRUE],
                   [Message("format", p) EXCEPT !.gen = svc.pipelines[p].output.gen]),
              intent)
    /\ UNCHANGED <<lan, news, destroyed>>

\* reportStreamError, called by an encoder or a server that is current now.
OutputFails(p, outcome) ==
    /\ Calm
    /\ svc.pipelines[p].output # None
    /\ Become(Post(svc, Failure("outputFails", p, outcome)), intent)
    /\ UNCHANGED <<lan, news, destroyed>>

\* reconfigureOutput, on its own thread: the output is replaced by one of the
\* other shape, or replacing it fails.
Reconfigure(p, outcome) ==
    /\ Calm
    /\ svc.pipelines[p].output # None
    /\ Become(IF outcome = "ok"
                THEN [svc EXCEPT !.pipelines[p].output =
                        NewOutput(svc, svc.pipelines[p].output.bind)]
                ELSE FailStream(svc, p, outcome), intent)
    /\ UNCHANGED <<lan, news, destroyed>>

-----------------------------------------------------------------------------
(* Messages *)

Receives(kind) == Running /\ svc.queue # <<>> /\ Head(svc.queue).kind = kind

Received == [svc EXCEPT !.queue = Tail(@)]

BugAnyGeneration(s, m) == s.pipelines[m.pipe].output # None

IsCurrent(s, m) ==
    /\ s.pipelines[m.pipe].output # None
    /\ s.pipelines[m.pipe].output.gen = m.gen

\* onEncoderOutputFormat: only now does the RTSP server start.
OnFormat(outcome) ==
    /\ Receives("format")
    /\ LET m == Head(svc.queue) IN
       Become(IF ~IsCurrent(svc, m) THEN Received
              ELSE IF outcome = "ok"
                THEN Post([Received EXCEPT !.pipelines[m.pipe].output.serving = TRUE],
                          Message("streamReady", m.pipe))
                ELSE FailStream(Received, m.pipe, outcome), intent)
    /\ UNCHANGED <<lan, news, destroyed>>

OnOutputFails ==
    /\ Receives("outputFails")
    /\ LET m == Head(svc.queue) IN
       Become(FailStream(Received, m.pipe, IF m.retry THEN "retryable" ELSE "fatal"), intent)
    /\ UNCHANGED <<lan, news, destroyed>>

\* handleReady and the stream half of handleError: the controller drops what a
\* pipeline it no longer owns says, and posts the rest to the service.
Forward(kind, next) ==
    /\ Receives(kind)
    /\ LET m == Head(svc.queue) IN
       Become(IF svc.active = m.pipe THEN Post(Received, [m EXCEPT !.kind = next])
                                     ELSE Received, intent)
    /\ UNCHANGED <<lan, news, destroyed>>

BugPreviewErrorKeepsPipeline ==
    /\ Receives("previewError")
    /\ LET m == Head(svc.queue) IN
       Become(IF svc.active = m.pipe
                THEN Post(Received, Message("servicePreviewError", m.pipe))
                ELSE Received, intent)
    /\ UNCHANGED <<lan, news, destroyed>>

\* The preview half of handleError gives the pipeline up.
OnPreviewError ==
    /\ Receives("previewError")
    /\ LET m == Head(svc.queue) IN
       Become(IF svc.active = m.pipe
                THEN Post(LifecycleStop(Received),
                          Message("servicePreviewError", m.pipe))
                ELSE Received, intent)
    /\ UNCHANGED <<lan, news, destroyed>>

OnServicePreviewReady(outcome) ==
    /\ Receives("servicePreviewReady")
    /\ Become(IF svc.active # None /\ svc.preview = "STARTING"
                THEN ContinueStart([Received EXCEPT !.preview = "ACTIVE"], outcome)
                ELSE Received, intent)
    /\ UNCHANGED <<lan, news, destroyed>>

OnServiceStreamReady ==
    /\ Receives("serviceStreamReady")
    /\ Become(IF svc.active # None /\ svc.state = "STARTING"
                THEN TransitionTo([Received EXCEPT !.attempts = 0, !.resume = FALSE],
                                  "STREAMING")
                ELSE Received, intent)
    /\ UNCHANGED <<lan, news, destroyed>>

OnServiceStreamError ==
    /\ Receives("serviceStreamError")
    /\ LET failed == TransitionTo(Received, "ERROR") IN
       Become(CASE svc.state \notin {"STARTING", "STREAMING"} -> Received
                [] svc.state \in {"STARTING", "STREAMING"} /\ Head(svc.queue).retry ->
                     ScheduleRetry(failed)
                [] svc.state \in {"STARTING", "STREAMING"} /\ ~Head(svc.queue).retry ->
                     CancelRetry(failed), intent)
    /\ UNCHANGED <<lan, news, destroyed>>

OnServicePreviewError ==
    /\ Receives("servicePreviewError")
    /\ LET failed == [Received EXCEPT !.preview = "ERROR"] IN
       Become(IF svc.state \in {"STARTING", "STREAMING"}
                THEN TransitionTo(failed, "ERROR") ELSE failed, intent)
    /\ UNCHANGED <<lan, news, destroyed>>

\* The runnable of scheduleRetry.
RetryFires(outcome) ==
    /\ Running /\ svc.timer
    /\ LET fired == CancelRetry(svc) IN
       Become(IF /\ svc.state = "ERROR" /\ svc.preview = "ACTIVE"
                 /\ svc.active # None /\ svc.wifi # None
                THEN RequestStreamingOutput(
                       TransitionTo([fired EXCEPT !.requested = TRUE], "STARTING"), outcome)
                ELSE fired, intent)
    /\ UNCHANGED <<lan, news, destroyed>>

-----------------------------------------------------------------------------
Commands ==
    \/ \E how \in PreviewOutcomes, outcome \in Outcomes : UserStarts(how, outcome)
    \/ \E how \in PreviewOutcomes : UserStartsPreview(how)
    \/ \E clean \in BOOLEAN : UserStops(clean) \/ Destroy(clean)
    \/ \E saved, clean \in BOOLEAN, how \in PreviewOutcomes :
         UserSavesSettings(saved, clean, how)
    \/ Restart

Resources ==
    \E p \in Pipelines :
      \/ CameraFails(p) \/ PreviewDiagnostic(p) \/ EncoderAnnounces(p)
      \/ \E outcome \in Outcomes :
           \/ CameraReady(p, outcome)
           \/ PreviewRecovered(p, outcome)
           \/ Reconfigure(p, outcome)
      \/ \E outcome \in {"retryable", "fatal"} : OutputFails(p, outcome)

Messages ==
    \/ \E outcome \in Outcomes : OnFormat(outcome) \/ OnServicePreviewReady(outcome)
    \/ OnOutputFails
    \/ Forward("previewReady", "servicePreviewReady")
    \/ Forward("streamReady", "serviceStreamReady")
    \/ Forward("streamError", "serviceStreamError")
    \/ OnPreviewError
    \/ OnServiceStreamReady \/ OnServiceStreamError \/ OnServicePreviewError

Network ==
    \/ WifiChanges
    \/ \E clean \in BOOLEAN, outcome \in Outcomes : OnNetworkChanged(clean, outcome)

Timer == \E outcome \in Outcomes : RetryFires(outcome)

Next == Commands \/ Resources \/ Messages \/ Network \/ Timer

\* The looper runs what is queued, and what was posted with a delay.  Nothing is
\* assumed of the user, the camera, the encoder or the network.
Fairness ==
    /\ WF_vars(Messages)
    /\ WF_vars(\E clean \in BOOLEAN, outcome \in Outcomes : OnNetworkChanged(clean, outcome))
    /\ WF_vars(Timer)

Spec == Init /\ [][Next]_vars /\ Fairness

-----------------------------------------------------------------------------
(* Properties *)

Outputs ==
    [gen : Nat \ {0}, bind : Networks, announced : BOOLEAN, serving : BOOLEAN]

MessageKinds ==
    {"format", "outputFails", "previewReady", "servicePreviewReady",
     "streamReady", "serviceStreamReady", "streamError", "serviceStreamError",
     "previewError", "servicePreviewError"}

\* The service rests in a state other than STOPPING, an output belongs to a
\* pipeline whose camera is ready, and retryAttempt never exceeds its maximum.
TypeOK ==
    /\ svc.state \in States \ {"STOPPING"} \/ svc.rejected
    /\ svc.preview \in PreviewStates
    /\ svc.wifi \in Networks \cup {None}
    /\ {svc.resume, svc.requested, svc.timer, svc.rejected} \subseteq BOOLEAN
    /\ svc.attempts \in 0 .. MaxRetry
    /\ svc.active \in Pipelines \cup {None}
    /\ \A p \in Pipelines :
         LET pipe == svc.pipelines[p] IN
         /\ pipe.live \/ pipe = ClosedPipeline
         /\ pipe.bind \in Networks \cup {None}
         /\ pipe.output = None \/ (pipe.ready /\ pipe.output \in Outputs)
    /\ \A i \in DOMAIN svc.queue :
         /\ svc.queue[i].kind \in MessageKinds
         /\ svc.queue[i].pipe \in Pipelines
    /\ lan \in Networks \cup {None}
    /\ news \in News /\ destroyed \in BOOLEAN
    /\ intent \in {"off", "on", "recovering"}

\* Whatever fails and whoever restarts, only the active pipeline holds a camera,
\* an encoder or a server: one that was replaced or gave an error has stopped.
OnePipeline == \A p \in Pipelines : svc.pipelines[p].live => p = svc.active

\* After a stop by the user no late callback, timer, network change or change of
\* settings brings the stream back.
ManualStopHolds == intent = "off" /\ ~destroyed => svc.state \notin Underway

\* A stream that is underway, and a retry that will start one, are covered by
\* streamStartRequested: what withdraws the request ends them too.
StreamIsWanted == svc.timer \/ svc.state \in Underway => svc.requested

\* Only what is asked for is underway, and nothing after a stop by the user.
StreamIsAskedFor == StreamIsWanted /\ ManualStopHolds

\* The RTSP server of an output starts after this output's own encoder announced
\* its format, never because of one it replaced.
ServerFollowsItsEncoder ==
    \A p \in Pipelines :
        LET output == svc.pipelines[p].output IN
        output # None /\ output.serving => output.announced

\* Nobody waits for a network that is there, unless the network monitor could
\* not register its callback: then nobody is told that it is there.
WaitingEnds ==
    svc.state = "WAITING" ~> \/ svc.state # "WAITING" \/ lan = None
                             \/ destroyed \/ ~Running \/ news = "deaf"

\* A pipeline that failed, at whatever moment, is given up, so that the next
\* start makes a new one.
FailedPipelineIsGivenUp ==
    \A p \in Pipelines :
        svc.active = p /\ ~svc.pipelines[p].live ~> svc.active # p \/ ~Running

\* The service, as long as it lives, asks its state machine for transitions that
\* exist only: a `require` that fails in a handler ends the process.
OnlyKnownTransitions == svc.rejected => destroyed

\* Bringing back a stream that was live ends with the stream, with an error or
\* with the user's stop, and not in STOPPED of its own accord.
RecoveryIsNotDropped == intent = "recovering" => svc.state # "STOPPED"

\* A service that shows STOPPED serves no stream.
StoppedServesNothing ==
    svc.state = "STOPPED" =>
        \A p \in Pipelines :
            svc.pipelines[p].output # None => ~svc.pipelines[p].output.serving
=============================================================================
