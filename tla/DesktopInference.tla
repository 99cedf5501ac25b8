-------------------------- MODULE DesktopInference --------------------------
(***************************************************************************)
(* The two inference controllers of the desktop application                *)
(* (app_windows/inference): PersonDetectionController detects and tracks   *)
(* people on the focused camera, FaceRecognitionController looks at the    *)
(* tracked people's faces.  Each has a thread of its own; the main thread  *)
(* changes the camera and the settings and carries the person snapshots,   *)
(* which Qt queues, to the face controller.                                *)
(*                                                                         *)
(* A section of code under a controller's lock is one step, and so is      *)
(* everything a thread does between two looks at shared state.  A tracking *)
(* pipeline is [camera, latest, confirmer]: whether it has tracks to offer *)
(* and the face runtime that attached its confirmer; CameraTracking has    *)
(* what happens inside it.  A snapshot is [camera, model, pipeline], what  *)
(* it is about; refused says that a face snapshot reports missing models.  *)
(***************************************************************************)
EXTENDS Integers, Sequences, FiniteSets

CONSTANTS
    FocusCameras,  \* camera ids
    Nothing,       \* Python's None
    Models,        \* person detectors that settings can ask for
    MaxChanges,    \* bound: focus and settings changes by the user
    MaxQueued      \* bound: person snapshots waiting in the event loop

ASSUME InferenceAssumption == /\ Nothing \notin FocusCameras \cup Models \cup Nat /\ "off" \notin Models
                              /\ Models /= {}
                              /\ MaxChanges \in Nat /\ MaxQueued \in Nat \ {0}

VARIABLES
    gui,       \* the main thread: "run", "stop_person", "stop_face", "gone"
    changes,   \* changes made
    queue,     \* person snapshots emitted and not delivered
    pipes,     \* every tracking pipeline made
    person,    \* PersonDetectionController
    pt,        \* its thread and that thread's locals
    face,      \* FaceRecognitionController
    ft,        \* its thread and that thread's locals
    open       \* [detectors, runtimes] that hold a loaded model

infVars == <<gui, changes, queue, pipes, person, pt, face, ft, open>>

NoSnapshot == [camera |-> Nothing, model |-> Nothing, pipeline |-> Nothing]

NewPersonController == [settings |-> CHOOSE m \in Models : TRUE, camera |-> Nothing, gen |-> 0,
                        pipeline |-> Nothing, shown |-> NoSnapshot, stop |-> FALSE]

NewFaceController == [settings |-> TRUE, camera |-> Nothing, gen |-> 0, tracking |-> Nothing,
                      snapshot |-> FALSE, runtime |-> Nothing, pipeline |-> Nothing,
                      shown |-> NoSnapshot, stop |-> FALSE, late |-> FALSE]

InferenceInit ==
    /\ gui = "run" /\ changes = 0 /\ queue = <<>> /\ pipes = <<>>
    /\ person = NewPersonController
    /\ face = NewFaceController
    /\ pt = [pc |-> "loop", settings |-> "off", camera |-> Nothing, gen |-> 0,
             detector |-> Nothing, loaded |-> Nothing, bound |-> Nothing]
    /\ ft = [pc |-> "loop", settings |-> FALSE, camera |-> Nothing, gen |-> 0, tracking |-> Nothing,
             snapshot |-> FALSE, loaded |-> <<>>, runtime |-> Nothing, builds |-> 0, refused |-> FALSE]
    /\ open = [detectors |-> {}, runtimes |-> {}]

-----------------------------------------------------------------------------
(* PersonDetectionController.                                              *)

\* snapshot_changed, queued for the event loop, which delivers nothing once
\* it stops.
CanEmitSnapshot == gui /= "run" \/ Len(queue) < MaxQueued
Emitted(snapshot) == IF gui = "run" THEN Append(queue, snapshot) ELSE <<>>

BugPublishAnyway(snapshot) ==
    /\ person' = [person EXCEPT !.shown = snapshot]
    /\ queue' = Emitted(snapshot)

\* _publish_if_current: not a result of another generation or camera.
Publish(snapshot) ==
    IF person.gen = pt.gen /\ person.camera = pt.camera
      THEN /\ person' = [person EXCEPT !.shown = snapshot]
           /\ queue' = Emitted(snapshot)
      ELSE UNCHANGED <<person, queue>>

\* _base_snapshot: the pipeline is read from the controller.
BaseSnapshot(pipeline) == [camera |-> pt.camera, model |-> pt.settings, pipeline |-> pipeline]

\* _tracking_for: the camera's pipeline, made if the current one is not its.
BugHasNoPipeline(c) == FALSE

HasPipeline(c) == person.pipeline /= Nothing /\ pipes[person.pipeline].camera = c
TrackingFor(c) == IF HasPipeline(c) THEN person.pipeline ELSE Len(pipes) + 1
PipesFor(c) == IF HasPipeline(c) THEN pipes
               ELSE Append(pipes, [camera |-> c, latest |-> FALSE, confirmer |-> Nothing])

\* The thread starts over, and reads the state anew.
PersonAgain == [pt EXCEPT !.pc = "loop", !.settings = "off", !.camera = Nothing, !.gen = 0]

BugDropDetector == open' = open

CloseDetector == open' = [open EXCEPT !.detectors = @ \ {pt.detector}]

\* The top of the loop: the state is read, and another model signature
\* closes the detector.
PersonLoop ==
    /\ pt.pc = "loop"
    /\ IF person.stop THEN /\ pt' = [pt EXCEPT !.pc = "final"]
                           /\ UNCHANGED open
       ELSE LET now == [pt EXCEPT !.settings = person.settings, !.camera = person.camera, !.gen = person.gen]
            IN IF person.settings = pt.loaded THEN /\ pt' = [now EXCEPT !.pc = "bind"]
                                                   /\ UNCHANGED open
               ELSE /\ pt' = [now EXCEPT !.pc = "reset", !.loaded = person.settings, !.bound = Nothing,
                                         !.detector = Nothing]
                    /\ CloseDetector
    /\ UNCHANGED <<gui, changes, queue, pipes, person, face, ft>>

\* Another model: the camera's pipeline starts over.
PersonReset ==
    /\ pt.pc = "reset"
    /\ pt' = [pt EXCEPT !.pc = "load"]
    /\ IF pt.camera = Nothing THEN UNCHANGED <<pipes, person>>
       ELSE LET p == TrackingFor(pt.camera)
            IN /\ pipes' = [PipesFor(pt.camera) EXCEPT ![p].latest = FALSE]
               /\ person' = [person EXCEPT !.pipeline = p]
    /\ UNCHANGED <<gui, changes, queue, face, ft, open>>

\* _load_detector: disabled, failed or missing leaves no detector; then its
\* snapshot is published.
PersonLoad ==
    /\ pt.pc = "load" /\ CanEmitSnapshot
    /\ pt' \in IF pt.settings = "off" THEN {[pt EXCEPT !.pc = "check"]}
               ELSE {[pt EXCEPT !.pc = "check", !.detector = d] : d \in {Nothing, pt.settings}}
    /\ open' = [open EXCEPT !.detectors = @ \cup ({pt'.detector} \ {Nothing})]
    /\ Publish(BaseSnapshot(person.pipeline))
    /\ UNCHANGED <<gui, changes, pipes, face, ft>>

\* A change while the model loaded discards it.
PersonCheck ==
    /\ pt.pc = "check"
    /\ IF <<person.settings, person.camera, person.gen>> /= <<pt.settings, pt.camera, pt.gen>>
         THEN /\ pt' = [PersonAgain EXCEPT !.detector = Nothing, !.loaded = Nothing]
              /\ CloseDetector
         ELSE /\ pt' = IF person.stop THEN [pt EXCEPT !.pc = "final"]
                        ELSE IF pt.detector = Nothing THEN PersonAgain ELSE [pt EXCEPT !.pc = "bind"]
              /\ UNCHANGED open
    /\ UNCHANGED <<gui, changes, queue, pipes, person, face, ft>>

\* Another camera gets its pipeline and its first snapshot; without a
\* detector or a camera the thread waits and starts over.
PersonBind ==
    /\ pt.pc = "bind"
    /\ pt' = IF pt.detector = Nothing \/ pt.camera = Nothing
               THEN [PersonAgain EXCEPT !.bound = pt.camera]
               ELSE [pt EXCEPT !.pc = "frame", !.bound = pt.camera]
    /\ IF pt.camera = pt.bound THEN UNCHANGED <<pipes, person, queue>>
       ELSE /\ CanEmitSnapshot
            /\ pipes' = IF pt.camera = Nothing THEN pipes ELSE PipesFor(pt.camera)
            /\ LET p == IF pt.camera = Nothing THEN person.pipeline ELSE TrackingFor(pt.camera)
                   current == person.gen = pt.gen /\ person.camera = pt.camera
               IN /\ person' = [person EXCEPT !.pipeline = p,
                                  !.shown = IF current THEN BaseSnapshot(p) ELSE @]
                  /\ queue' = IF current THEN Emitted(BaseSnapshot(p)) ELSE queue
    /\ UNCHANGED <<gui, changes, face, ft, open>>

\* latest_frame and detect: no new frame, an exception, or detections, which
\* count only if nothing changed meanwhile.
PersonDetect ==
    /\ pt.pc = "frame"
    /\ \/ /\ pt' = PersonAgain
          /\ UNCHANGED <<person, queue>>
       \/ /\ CanEmitSnapshot
          /\ pt' = PersonAgain
          /\ Publish(BaseSnapshot(person.pipeline))
       \/ /\ pt' = IF person.gen = pt.gen /\ person.camera = pt.camera
                      THEN [pt EXCEPT !.pc = "update"] ELSE PersonAgain
          /\ UNCHANGED <<person, queue>>
    /\ UNCHANGED <<gui, changes, pipes, face, ft, open>>

\* The tracks of the pipeline are updated,
PersonUpdate ==
    /\ pt.pc = "update"
    /\ LET p == TrackingFor(pt.camera)
       IN /\ pipes' = [PipesFor(pt.camera) EXCEPT ![p].latest = TRUE]
          /\ person' = [person EXCEPT !.pipeline = p]
    /\ pt' = [pt EXCEPT !.pc = "publish"]
    /\ UNCHANGED <<gui, changes, queue, face, ft, open>>

\* and the result is shown.
PersonPublish ==
    /\ pt.pc = "publish" /\ CanEmitSnapshot
    /\ Publish(BaseSnapshot(person.pipeline))
    /\ pt' = PersonAgain
    /\ UNCHANGED <<gui, changes, pipes, face, ft, open>>

\* The finally clause.
PersonFinal ==
    /\ pt.pc = "final"
    /\ CloseDetector
    /\ pt' = [pt EXCEPT !.pc = "dead", !.detector = Nothing]
    /\ UNCHANGED <<gui, changes, queue, pipes, person, face, ft>>

PersonThread == PersonLoop \/ PersonReset \/ PersonLoad \/ PersonCheck \/ PersonBind
                \/ PersonDetect \/ PersonUpdate \/ PersonPublish \/ PersonFinal

-----------------------------------------------------------------------------
(* FaceRecognitionController.                                              *)

\* _publish.
FacePublish ==
    IF face.gen = ft.gen
      THEN [face EXCEPT !.shown = [camera |-> ft.camera, model |-> ft.settings, pipeline |-> ft.tracking]]
      ELSE face

\* _close_runtime, by the thread or by stop(): the confirmer leaves the
\* pipeline and the models are closed.
CloseRuntime ==
    /\ pipes' = IF face.pipeline = Nothing THEN pipes
                ELSE [pipes EXCEPT ![face.pipeline].confirmer = Nothing]
    /\ open' = [open EXCEPT !.runtimes = @ \ {face.runtime}]

FaceAgain == [ft EXCEPT !.pc = "loop", !.settings = FALSE, !.camera = Nothing, !.gen = 0,
                        !.tracking = Nothing, !.snapshot = FALSE, !.runtime = Nothing]

BugSignature == <<face.settings, face.camera>>

\* What a runtime was built for; id(tracking_pipeline) is in it.
Signature == <<face.settings, face.camera, face.tracking>>

\* The top of the loop: the state is read; another signature closes the
\* runtime.
FaceLoop ==
    /\ ft.pc = "loop"
    /\ IF face.stop THEN /\ ft' = [ft EXCEPT !.pc = "final"]
                         /\ UNCHANGED <<pipes, open, face>>
       ELSE LET now == [ft EXCEPT !.settings = face.settings, !.camera = face.camera, !.gen = face.gen,
                                  !.tracking = face.tracking, !.snapshot = face.snapshot]
            IN IF Signature = ft.loaded THEN /\ ft' = [now EXCEPT !.pc = "look"]
                                             /\ UNCHANGED <<pipes, open, face>>
               ELSE /\ ft' = [now EXCEPT !.pc = "reload", !.loaded = Signature, !.refused = FALSE]
                    /\ CloseRuntime
                    /\ face' = [face EXCEPT !.runtime = Nothing, !.pipeline = Nothing]
    /\ UNCHANGED <<gui, changes, queue, person, pt>>

\* Disabled, or no camera or tracking yet: nothing is built.
FaceReload ==
    /\ ft.pc = "reload"
    /\ IF ft.settings /\ ft.camera /= Nothing /\ ft.tracking /= Nothing
         THEN /\ face' = FacePublish
              /\ ft' = [ft EXCEPT !.pc = "build"]
              /\ UNCHANGED pipes
         ELSE /\ face' = FacePublish
              /\ ft' = [ft EXCEPT !.pc = "look"]
              /\ pipes' = IF ~ft.settings /\ ft.tracking /= Nothing
                            THEN [pipes EXCEPT ![ft.tracking].confirmer = Nothing] ELSE pipes
    /\ UNCHANGED <<gui, changes, queue, person, pt, open>>

\* _build_runtime: the models are loaded and, with a matcher, a confirmer
\* attached.  An embedder whose gallery cannot be read makes no matcher: the
\* factory drops it unclosed, and its model goes when the interpreter frees
\* what nothing refers to;
FaceBuild ==
    /\ ft.pc = "build" /\ pipes[ft.tracking].camera = ft.camera
    /\ ft' = [ft EXCEPT !.pc = "install", !.builds = @ + 1, !.runtime = ft.builds + 1]
    /\ open' = [open EXCEPT !.runtimes = @ \cup {ft.builds + 1}]
    /\ \E confirmer \in {ft.builds + 1, Nothing} :
         pipes' = [pipes EXCEPT ![ft.tracking].confirmer = confirmer]
    /\ UNCHANGED <<gui, changes, queue, person, pt, face>>

\* a missing or unsupported model is shown, and what was loaded before it is
\* dropped in the same way,
FaceRefused ==
    /\ ft.pc = "build"
    /\ ft' = [ft EXCEPT !.pc = "look", !.refused = TRUE]
    /\ face' = FacePublish
    /\ UNCHANGED <<gui, changes, queue, pipes, person, pt, open>>

\* and another exception ends the thread.
FaceRaises ==
    /\ ft.pc = "build"
    /\ ft' = [ft EXCEPT !.pc = "final"]
    /\ UNCHANGED <<gui, changes, queue, pipes, person, pt, face, open>>

FaceInstall ==
    /\ ft.pc = "install"
    /\ face' = [FacePublish EXCEPT !.runtime = ft.runtime, !.pipeline = ft.tracking]
    /\ ft' = [ft EXCEPT !.pc = "look", !.runtime = Nothing]
    /\ UNCHANGED <<gui, changes, queue, pipes, person, pt, open>>

\* A new frame, and tracks of this camera in the pipeline of the runtime.
FaceLook ==
    /\ ft.pc = "look"
    /\ LET ready == /\ ft.settings /\ ft.camera /= Nothing /\ face.runtime /= Nothing
                    /\ ft.snapshot /\ face.pipeline = ft.tracking
                    /\ pipes[ft.tracking].latest /\ pipes[ft.tracking].camera = ft.camera
       IN ft' \in {FaceAgain}
                  \cup IF ready THEN {[ft EXCEPT !.pc = "process", !.runtime = face.runtime]} ELSE {}
    /\ UNCHANGED <<gui, changes, queue, pipes, person, pt, face, open>>

\* orchestrator.process: its models load again if they were closed under it;
\* without the confirmer, or when a track is gone, it raises.
FaceProcess ==
    /\ ft.pc = "process"
    /\ open' = [open EXCEPT !.runtimes = @ \cup {ft.runtime}]
    /\ face' = FacePublish
    /\ ft' = FaceAgain
    /\ UNCHANGED <<gui, changes, queue, pipes, person, pt>>

FaceFinal ==
    /\ ft.pc = "final"
    /\ CloseRuntime
    /\ face' = [face EXCEPT !.runtime = Nothing, !.pipeline = Nothing]
    /\ ft' = [ft EXCEPT !.pc = "dead"]
    /\ UNCHANGED <<gui, changes, queue, person, pt>>

FaceThread == FaceLoop \/ FaceReload \/ FaceBuild \/ FaceRefused \/ FaceRaises
              \/ FaceInstall \/ FaceLook \/ FaceProcess \/ FaceFinal

-----------------------------------------------------------------------------
(* The main thread.                                                        *)

\* set_active_camera: a pipeline of another camera is dropped.
FocusPerson(c) == [person EXCEPT !.camera = c, !.gen = @ + 1,
                     !.pipeline = IF c /= Nothing /\ HasPipeline(c) THEN @ ELSE Nothing]

FocusFace(c) == [face EXCEPT !.camera = c, !.gen = @ + 1, !.tracking = Nothing, !.snapshot = FALSE]

SetActiveCamera ==
    /\ gui = "run" /\ changes < MaxChanges
    /\ \E c \in FocusCameras \cup {Nothing} : person' = FocusPerson(c) /\ face' = FocusFace(c)
    /\ changes' = changes + 1
    /\ UNCHANGED <<gui, queue, pipes, pt, ft, open>>

\* The settings of a panel or a command, once the file has them.
UpdatePersonSettings ==
    /\ gui = "run" /\ changes < MaxChanges
    /\ \E m \in Models \cup {"off"} : person' = [person EXCEPT !.settings = m, !.gen = @ + 1]
    /\ changes' = changes + 1
    /\ UNCHANGED <<gui, queue, pipes, pt, face, ft, open>>

UpdateFaceSettings ==
    /\ gui = "run" /\ changes < MaxChanges
    /\ face' = [face EXCEPT !.settings = ~@, !.gen = @ + 1]
    /\ changes' = changes + 1
    /\ UNCHANGED <<gui, queue, pipes, person, pt, ft, open>>

\* set_person_snapshot, when Qt delivers one: only of the face camera.
SetPersonSnapshot ==
    /\ gui = "run" /\ queue /= <<>>
    /\ queue' = Tail(queue)
    /\ face' = IF Head(queue).camera = face.camera
                 THEN [face EXCEPT !.snapshot = TRUE, !.tracking = Head(queue).pipeline] ELSE face
    /\ UNCHANGED <<gui, changes, pipes, person, pt, ft, open>>

\* stop() of the person controller, then of the face controller: each waits
\* for its thread, and no longer than its timeout.
StopPerson ==
    /\ gui = "run"
    /\ gui' = "stop_person"
    /\ person' = [person EXCEPT !.stop = TRUE]
    /\ queue' = <<>>
    /\ UNCHANGED <<changes, pipes, pt, face, ft, open>>

StopFace ==
    /\ gui = "stop_person"
    /\ gui' = "stop_face"
    /\ face' = [face EXCEPT !.stop = TRUE]
    /\ UNCHANGED <<changes, queue, pipes, person, pt, ft, open>>

\* The second join over, the main thread closes the runtime itself; late
\* says that the thread was still alive then.
StopClosesRuntime ==
    /\ gui = "stop_face"
    /\ gui' = "gone"
    /\ CloseRuntime
    /\ face' = [face EXCEPT !.runtime = Nothing, !.pipeline = Nothing, !.late = ft.pc /= "dead"]
    /\ UNCHANGED <<changes, queue, person, pt, ft>>

InferenceNext == \/ PersonThread \/ FaceThread
                 \/ SetActiveCamera \/ UpdatePersonSettings \/ UpdateFaceSettings \/ SetPersonSnapshot
                 \/ StopPerson \/ StopFace \/ StopClosesRuntime

\* The threads run.
InferenceFairness == WF_infVars(PersonThread) /\ WF_infVars(FaceThread)

InferenceSpec == InferenceInit /\ [][InferenceNext]_infVars /\ InferenceFairness

-----------------------------------------------------------------------------
(* Properties.                                                             *)

\* The controllers name pipelines that exist, and two at most are made for a
\* change of focus: the thread may still ask for the old camera's.
InferenceTypeOK ==
    /\ gui \in {"run", "stop_person", "stop_face", "gone"}
    /\ Len(queue) <= MaxQueued /\ Len(pipes) <= 2 * changes
    /\ \A p \in DOMAIN pipes : pipes[p].camera \in FocusCameras /\ pipes[p].latest \in BOOLEAN
    /\ {person.pipeline, face.pipeline, face.tracking, ft.tracking} \subseteq DOMAIN pipes \cup {Nothing}
    /\ person.settings \in Models \cup {"off"} /\ face.settings \in BOOLEAN

\* What a controller starts to show belongs to the camera it looks at and
\* the model its settings ask for, although a load or a detection may end
\* long after the user moved on (_publish_if_current, _publish, _run).
ResultsAreCurrent ==
    [][ /\ person'.shown /= person.shown =>
             /\ person'.shown.camera = person'.camera /\ person'.shown.model = person'.settings
             /\ person'.shown.pipeline = Nothing \/ person'.camera = Nothing
                  \/ pipes'[person'.shown.pipeline].camera = person'.camera
        /\ face'.shown /= face.shown =>
             face'.shown.camera = face'.camera /\ face'.shown.model = face'.settings ]_infVars

\* A loaded model has an owner: the detector is the one its thread uses, and
\* the face runtime is the controller's or about to be; a thread that ended
\* left none, unless stop() gave up waiting for it, closed the runtime under
\* it and the runtime loaded its models again (_close_detector,
\* _close_runtime).  open counts what somebody may still close: models that
\* a failed build dropped are not in it.
ModelsAreClosed ==
    /\ open.detectors \subseteq {pt.detector}
    /\ face.late \/ open.runtimes \subseteq {face.runtime, ft.runtime}
    /\ ft.pc = "dead" => face.late \/ open.runtimes = {}

\* The face stage never stays behind the tracking pipeline it was given, also
\* when only the pipeline is new; its models may be missing.
FaceJoinsTracking ==
    []<>( \/ face.tracking \in {face.pipeline, Nothing} \/ face.camera = Nothing \/ ~face.settings
          \/ ft.refused \/ ft.pc = "dead" \/ face.stop )

=============================================================================
