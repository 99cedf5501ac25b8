# Verification of the local security camera system

TLA+ models of the concurrent core of this repository, the TLC runs that check
them on small instances, and proofs of their main invariants for every
instance.

## 1. The system and its parts

Three programs share one job, watching RTSP cameras on a local network:

* **the Python core** (`src/app`): acquisition, tracking, recognition, events;
* **the Windows monitor** (`src/app_windows`, `src/app_windows_wpf`): a Python
  backend that shows up to a few cameras, and a WPF shell that talks to it over
  a pipe;
* **the Android camera** (`src/app_android`): a phone that encodes its camera
  and serves it over RTSP.

| Component | State it keeps | Operations | What makes it correct |
|---|---|---|---|
| OpenCV video source | session generation, installed capture, pending open attempt, frame queue, reader thread | open, read, close, close_for_reconnect, reconnect; construction and reader threads | no overlapping constructions, every capture released exactly once, nothing crosses a reconnect, a lost session is noticed |
| Camera worker and latest-frame buffer | worker state, thread, stop event, counters, newest frames | start, stop, get_latest; the `_run` loop | one thread, states that tell the truth, retry budget, all frames accounted for, everything released |
| Frame sampler, motion gate, camera runtime | three threads, gate, reconnects noticed | start, stop, accept, `_run` | a reconnect is noticed before its frames are used; a stopped runtime ends |
| person tracking and camera state machine | tracks, camera state, selected track | update, observe_recognition, reset, failures | tracker, machine, confirmer and orchestrator agree about who is there |
| recognition confirmation and orchestration | streaks and final results per track | observe, process, reset | a name needs consecutive agreement on one track |
| events and snapshot writer | last event per key, bounded queue, writer thread | emit, flush, close | metadata names only images that will exist, one event per cooldown, close ends |
| person detectors | model, device, precision, converted models on disk | create, load, convert, predict, fall back, close | what is reported was computed as configured |
| face models | resolved ids, probes, loaded models | resolve, probe, load, analyse | no model its probe refused, no name without landmarks and a threshold |
| face gallery and enrolment | two files per person, matcher snapshot, shown list | enrol, import, remove, refresh, build | who is recognised is who was saved |
| monitor controller, Qt window, WPF bridge | slots, providers, reconfiguration threads, drafts, focus, pipe | start, stop, poll, edit, focus, completion, shutdown | one provider per slot, the newest edit wins, the backend ends with its front end |
| inference controllers | settings, focused camera, generation, threads, pipelines | set_active_camera, update_settings, stop, `_run` | nothing shown for an old selection, no model left open |
| Windows configuration and credentials | document and sidecar | save, seed, migrate, roll back | no section or password lost, through failures and crashes |
| Android streaming service, lifecycle and pipeline | stream state, preview state, retry timer, network, active pipeline, outputs | main-thread messages | no rejected transition, retries bounded, one pipeline, stale callbacks dropped |
| Android RTSP server and sessions | sessions, sinks, request and writer threads, access-unit queue | start, accept, requests, publish, closeSink, stop | queue bounds, no unit without its key frame, nothing left of a client |
| RTP packetizer and H.264 helpers | 16-bit sequence, parameter sets | split, packetize | a receiver joins what the encoder wrote |

Not modelled, with the reason in `PROJECT.json`: the inference gate,
configuration parsing, metrics, logging, recording and benchmarks, scripts, the
connection test, widgets and views, and the camera, encoder, renderer, settings
and screens of the Android application.

Interaction: the worker owns its source and calls it from one thread, except
for `close`, which any thread inside `CameraWorker.stop` calls; frames go
through the worker's buffer to the sampler, the runtime and from there to
tracking, recognition and events. On Windows a frame provider wraps the worker,
the monitor controller owns providers, and the inference controllers take
frames from the provider of the selected camera. On Android everything but the
encoder, the renderer and the RTSP threads runs on the main thread's message
queue.

The hard behaviours are timeouts that abandon a thread which goes on (an open,
a join), results that arrive after what they belong to has been replaced, and
locks released between two halves of an operation. `PROJECT.json` lists them
line by line under `hazards`.

## 2. What is modelled

### `CaptureSource`: `app/video/opencv_source.py`

One action per block under `_state_lock` and per call made outside it.

* The *Owner* is the worker's thread. Its calls are `CallOpen` (both `open` and
  `reconnect`), `ReadBegin`, `CallCloseForReconnect` and `CallFinalClose` (the
  `finally` clause of `CameraWorker._run`). *Closers* are threads inside
  `CameraWorker.stop`; they call `close` whenever they like.
* `_close` is `CloseLocked` (generation, stop event, capture, the claim of a
  completed attempt), then outside the lock `CloseRelease`, `CloseDrain` and
  `CloseClear`. The join of the reader is bounded, so nothing waits for it: the
  reader may or may not be done when it returns.
* `open` is its close, then `OpenArm`, `OpenStart` (reuse the pending attempt or
  start one), `OpenTimeout` or `OpenClaim`, `OpenInspect` (configuration may
  reject the capture) and `OpenInstall` or `OpenDiscard`.
* `ConstructionEnds` and `ConstructionDiscards` are the construction thread,
  `Reader...` the reader loop; the construction, the capture and the reader of
  one attempt share its identity.
* `ReadBegin`, `ReadFrame` and `ReadEmpty` are `read`, whose snapshot of the
  connection is taken before the wait.

Left out: metadata and metrics, log records, the process-wide FFmpeg option, and
the second harmless `release` of an already released capture. The branch that
finds a completed attempt cancelled but unclaimed (`opencv_source.py:356`) is in
`OpenClaim` although no reachable state takes it.

### `CameraWorker`: `app/video/worker.py`, `app/video/buffer.py`

Controllers are threads that call `start` (`StartRefused`, `StartLocked`,
`StartLaunch`) and `stop` (`StopLocked`, `StopClosesSource`, `StopJoin`,
`StopFinish`). `StopJoin` returns whether or not the thread has ended, because
the join is bounded. Each `start` that takes effect takes a thread object from
`Runs`; a dead thread that the worker no longer refers to is used again, so the
number of restarts is not bounded. `_run` is one action per step between two
accesses of shared state, from `Loop` to `Exit`; a frame takes three, the look at
the stop event (`Frame`), the count under the worker's lock (`CountFrame`) and the
buffer under its own (`PutFrame`). An exception that no inner `try` catches may
come at every other step (`LoopRaises`); the guard around the loop looks at the
stop event and then fails the worker, in two steps (`GuardFails`). `Backoff` compares with the
table of delays in units of 50 ms, with the clamps of
`reconnect_delay_for_attempt`.

The source appears as one Boolean, an open session. That reads stop yielding
frames once it is closed, that an open may succeed although a `close` came
meanwhile, and that its calls return, is what `CaptureSource` shows.

`StartAllowed` states the discipline of the callers: `start` is not called
while another thread is inside `stop` of the same worker (`CameraRuntime` and
the frame provider serialise them). The hazard outside that discipline is
listed without a property.

### `StreamingService`: `app_android/.../service/`, `diagnostics/StreamStateMachine.kt`

`CameraStreamingService` with its state machine, the `StreamLifecycleController`
and the `StreamingPipeline` it drives. They live on Android's main thread, whose
handlers run to completion: one handler is one action. The methods a handler is
composed of are operators from a service record (`svc`) to a service record, in
the order of the source (`StartStreaming`, `StopStreamOutputFor`,
`LifecycleStop`, `PipelineStartStreaming`, ...). An outcome says whether what an
operation calls succeeds, fails retryably, or fails for good.

* `svc.queue` holds the callbacks that captured something when they were posted:
  the output generation of an encoder's format, the fact that a failing output
  was the current one, the two hops by which readiness and errors travel from
  the pipeline to the service. Callbacks that read everything when they run
  (camera, network, preview surface, user) are actions that may run between any
  two messages, which is where the queue may put them. `news` is what the network
  monitor has queued, one look at a time; a monitor that cannot register its
  callback (`NetworkMonitor.kt:49`) queues one look and one loss, and is "deaf"
  from then on.
* `UserStarts`, `UserStartsPreview`, `UserStops`, `UserSavesSettings` and
  `Destroy` are the commands; `OnNetworkChanged` with `NetworkLost`,
  `NetworkReplaced` and `NetworkBack` is the network callback; `RetryFires` the
  runnable of `scheduleRetry`.
* A rejected transition throws. In a posted callback nobody catches it and the
  process dies (`rejected`); `Restart` is START_STICKY, after that or after
  `onDestroy`. The settings handler catches it and shows an error.
* A pipeline that is closed looks like one that was never made; its identity
  serves again once no message names it. The controller's token changes exactly
  when the active pipeline does, so "the token is current" is "the pipeline is
  the active one". Generations are only compared for equality, so a number no
  message carries serves again.

Left out: bindings of preview surfaces, the orientation stabiliser and the
coalescing of its requests, subsystem diagnostics, notifications, a dispatch
that the handler rejects, and surface callbacks of a pipeline that failed and is
not yet given up.

### `CameraRuntime` and `CameraTracking`: `app/camera`, `app/video/sampler.py`, `app/video/motion.py`, `app/tracking`, `app/face/confirmation.py`, `app/face/orchestrator.py`

`CameraTracking` has no variables. The tracker, the state machine, the confirmer
and the orchestrator are passive objects, and each of their methods is an
operator from a record to a record: `PipelineUpdate`, `PipelineReset`,
`ObserveRecognition`, `ProcessTrack` and what they call. Which detection belongs
to which track is a choice (intersection over union is arithmetic). A method
that raises sets `raised`.

`CameraRuntime` runs threads over them. `node` is the processing thread, one
action from a look at shared state to the next (`NodeGet`, `NodeCheck`,
`NodeMotion`, `NodeDetect`, `NodeFace`, `NodeDone`, `NodeError`). The sampler is
its latest packet (`SamplerAccept`), the worker what the others see of it
(`WorkerReconnect`, `WorkerEnds`). `StartRuntime` and `StopRuntime` are the
controller, whose joins may time out, so that a restart may find old threads
alive. A packet is the session it was received in. `recent` and `tried` are
history: the recognitions of a track that count, the sessions the detector saw.

### `Events`: `app/events`

`EmitMetadata`, `EmitSnapshot`, `EmitRewrite` and `EmitRecord` are the steps of
`emit`, between which the writer thread (`WriterGet`, `WriterWrite`) and any
number of closers (`CloseManager` to `CloseJoin`) run. `disk` is what was
written: the metadata of each event, and whether its image is there.

### `PersonDetectors` and `FaceModels`: `app/inference`, `app/face`

One thread constructs, uses and drops a model; the difficulty is the number of
ways: every backend, device, precision and size, converted models that a former
process left half-written (`cache`, with `torn` for a directory whose conversion
was cut short), files that hold another model than their name says, failing
loads, predictions that fall back to another device and then to another
precision. A detection (`answer`) is what it was computed with, a face (`seen`)
what its models said of it; pixels, boxes and vectors are left out.

The probes of face models are the exception: `_PROBE_CACHE` is shared by all
threads, and `_probe_spec` lets go of its lock while a probe runs. `LookUp` (and
`RefreshCapabilities`, for a capability view or another camera, of which one at a
time is enough to be late) and `ProbeEnds` are the two halves, so that two threads
may both miss and both record. `running` is the probe of each thread, `passes`
history: the probes that ran and passed. Only models in `Flaky` take these steps;
the verdict on another does not depend on the time. A file has a `name` beside
the `model` it holds, since `_detector_id` goes by the name and every runtime by
the contents.

### `FaceGallery`: `app/face/storage.py`, `enrollment.py`, `matcher.py`, `app_windows/inference/face_gallery.py`

A person is a directory with two files. Enrolment, import, removal and refresh
by the main thread and the build and refresh by the face thread take the steps
of the file system one by one; each can fail, and `Restart` is the end of the
process between any two. `people` is history: what was completely saved.

### `Desktop` and `DesktopInference`: `app_windows`

`Desktop` is the main thread, whose handlers are single steps, and the
reconfiguration threads (`ReconStop`, `ReconStart`, then the queued `Completed`
and the timer's `Cleanup`). A slot is `[edit, on]`, and may be off at the start.
`frontend` chooses between the Qt window (`PanelEdit`, `ShowFocus`, `ShowGrid`,
`CloseWindow`) and the bridge with its shell (`CommandEdit`, `CommandFocus`,
`ShellLeaves`, `ShutdownBridge`, `BrokenEmit`). The worker of a provider "runs"
until it is told to stop, is "leaving" until its thread ends (`WorkerEnds`; no
join waits longer than its time-out), then "gone". At the start a factory may
raise, which leaves the camera without a provider, and so may a start, which
leaves one that is "unstarted"; a stop of that one raises, and fails the
reconfiguration that asked for it. A save may fail, also that of a flush
(`FlushPending`). `Quit` ends the process and every thread with it. Left out:
commands that wait in the bridge's queue when its shell dies, and that the first
`poll` follows `StartMonitor` at once (it is a `PollCamera`).

`DesktopInference` is the two inference threads, cut at their controllers'
locks, against focus, settings, the queue of person snapshots and stop. A
tracking pipeline is `[camera, latest, confirmer]`. `open` are the models that a
controller may still close: what the factory of face models drops of a build that
failed, or an embedder whose gallery cannot be read (`factory.py:294-308`), is
nobody's to close and freed with its last reference.

### `CameraStore` and `StorePromise`: `app_windows/config`

`StorePromise` is the abstract specification: one document, one password per
camera (the stored one, else that of its address), a save that puts the password
first, replaces one section and may be taken back or given up. The password put
is the one the camera has, and the address goes only when it is in the store,
unless the save `changes` it. `CameraStore` is the repository with its two files,
each written to a temporary one that replaces it, seeding from the example, the
roll back of the password, failures (`Fail`) and interruptions (`Interrupted`)
anywhere. A draft comes with the password its editor knows (`EditorPassword`):
the Qt panel's card remembers the one it was made with (`cards`,
`SetInitialDraft`), the bridge reads the sidecar for every draft. A save
remembers whether the user gave or cleared a password (`given`) and whether the
editor knew the camera's (`knows`). `Promise` is the refinement mapping: the
document is the local file, or the example as long as there is none; the save
underway is the one whose password is stored, or which changes it, and whose
section is not; it changes the password if it was given or not known
(`Changes`).

### `RtspServer`: `app_android/.../streaming/RtspServer.kt`, `RtspSession.kt`, `StreamBroadcaster.kt`

* `MainThread` is start and stop, with the monitor that stop holds from
  `StopServer` to `StopExecutor`; `AcceptThread` needs it in `Accepted`.
* `RequestThread` and `ClientActs` are `RtspSession.run`. A request is what its
  handler changes: an answer, SETUP, PLAY, the end of the connection. An answer
  is written under `outputLock`, which the writer holds while it sends
  (`AnswerBegins`, `SendBegins`), and `Peer` says whether the client reads.
* `WriterThread` is the writer. `StartWriter` and `NameWriter` are apart because
  the thread runs before the field that `closeSink` interrupts is assigned, and
  `TakeUnit` and `CountUnit` because `take` counts a unit off under a lock it
  has not yet when the unit is out of the queue.
* `LatestAccessUnitBuffer` is cut at every poll of its queue. Its lock keeps
  `offer` (`EnqueueOffers` to `OfferEnds`), `resetForPlayback` (`PlayLocks` to
  `PlayJoins`) and `clear` (`CloseLocks`, `CloseClears`) apart; `inside` says what
  its holder is at. `TakeUnit` needs no lock and may come between any two of these
  steps, as `queue.take()` may.
* `closeSink` is `BeginClose`, the compare-and-set of whichever thread comes
  first, and `CloseSink`, the clear, `CloseWriter` and `CloseSocket`.
* `Publish` and `EnqueueChecks` are the encoder thread before it offers.
* `whole` and `missed` are history, see the comment at `Fresh`.

### `RtpPackets`: `RtpPacketizer.kt`, `H264NalParser.kt`, `encoder/H264OutputProcessor.kt`, `StreamBroadcaster.kt`

Byte by byte, because the hazards are there: start codes that overlap payload,
lengths, fragment headers. `Framed` is what MediaCodec writes (external), `Split`
to `Packetize` the code, `Joined` what a receiver of RFC 6184 makes of it. What an
encoder may write is `IsNal`: bytes, a header of a type that H.264 has, no start
code inside, no zero at the end, fewer than 2^24 of them (`EncoderAssumption`).

### Modules that only check

`MCCameraNode`, `MCDesktop` and `MCAndroid` put modules that share no state into
one run: `part` says which of them a behaviour is about, and the others keep one
initial state. Fairness is stated so that a part that is not run owes nothing.

## 3. Runs

| Run | Shows | Bounds |
|---|---|---|
| `capture` | custody of captures, single construction, connection state, freshness and order of what `read` returns; after the final close everything is released, and a lost session is reported | 2 attempts, 1 closing thread, 2 frames, generations below 3, queue of 1 |
| `worker` | the worker's states and counters are true, FAILED is final, everything is released in the end | 1 starting and 1 stopping controller, 2 thread objects, limits 0 and 2, 2 frames, 2 reconnects per outage, buffer of 1 |
| `worker_restart` | expected violation: `start` during STOPPING is silently ignored | 1 controller, 2 thread objects, limit 0, 1 frame, 1 reconnect |
| `camera_node` | what happens to a frame after the worker: tracking, names, reconnects, events, detectors, face models, gallery; the processing thread ends | *runtime* 1 person, 2 tracks, 1 detection, 2 confirmations, 1 missed sample, warm-up of 1; *events* 2 keys, 2 closers, queue of 1, 3 events; *detectors* 2 image sizes, 3 detectors in a row; *faces* 2 machines, devices auto, gpu and cuda, 1 model with unreliable probes, 2 threads that probe, 1 face; *gallery* 2 persons, 2 embeddings, 2 operations, 1 build, 1 restart |
| `desktop` | providers, pictures, inference results and models through edits, focus and stop; the configuration files refine `StorePromise` through failures and crashes; the backend ends | *main* 2 cameras, 1 of them edited, 2 edits; *inference* 2 cameras, 1 model, 2 changes, 1 queued snapshot; *store* 1 camera, 2 passwords, 3 saves |
| `desktop_edits` | expected violation: a saved edit waits although nothing is being applied | as `desktop`, 1 camera |
| `service_safety` | one pipeline holds the resources, only what is asked for is underway, a server follows its own encoder; the access-unit queue keeps its promise; access units arrive whole | *service* 2 networks (symmetric), 2 pipelines, 1 retry, backlog of 2; *server* 1 client, queue of 2 units or 3 bytes; *packets* 4 bytes behind a header, 4 sequence numbers, payloads of up to 5 bytes |
| `service_liveness` | nobody waits for a network that is there; a failed pipeline is given up; clients are released | as `service_safety`, backlog of 1, queue of 1, key frames only, no symmetry |
| `rtsp_key_frames` | expected violation: a unit whose key frame was dropped is sent | the server as in `service_safety` |
| `service_crash` | expected violation: a rejected transition ends the process | the service as in `service_safety` |
| `service_recovery` | expected violation: recovery after a loss of the network is dropped | as `service_crash` |
| `service_stopped` | expected violation: a stream is served in STOPPED | as `service_crash` |

Why the bounds are enough. *Capture*: of two attempts one can be abandoned in
the backend, complete too late and be discarded, or be a session that is lost,
while the other is installed after it; once both are used an open fails as on a
refused connection (`OpenStartExhausted`). The generation above the first open
lets a close or a reopen overtake a reader or an opener. All six safety properties
of the run are proved for any number of attempts, frames and generations.
*Worker*: two thread objects are an old thread that has not ended and
its successor. Limit 0 is the unlimited policy, 2 lets the budget run out after
one useless session. *Service*: two networks are an old one and its
replacement, two pipelines one that was given up with messages still queued and
its successor; one retry reaches the maximum. `Calm` is the bound on the queue:
users and resources do not act upon a backlog longer than `QueueBound`, while
messages may make it longer. *Node*: two tracks are one that is lost and one
that comes or stays, two confirmations a streak that can be broken; a queue of
one is full at once; three detectors are one that leaves a converted model, one
that finds it, and one after a failure between the two. The two configurations of
the runtime exercise motion with reconnects and faces without; the machines are
one with every accelerator and one with none. *Desktop*: two edits of one camera
are one being applied and one behind it, the other camera shows what must not
change; two changes of focus or settings let a result come back after a newer
selection. *Store*: three saves are one that is interrupted, one over its remains
and one after; with two passwords a new one differs from an old one, and beside the
one camera the detectors' and the gallery's sections show what must not change.
*Server*: sessions share nothing but the sets of sessions and sinks and the
encoder's tour of them, so one client, who may come again when nothing of the last
connection is left, meets every race with stop, the encoder and its own threads. A
queue of two units or three bytes is at either limit, and a key frame that is
dropped from it leaves a unit that depends on it. *Packets*: with four bytes
behind the header a unit of up to six bytes is sent whole or in up to three
fragments; the payloads are all strings over 0, 1 and 3 that emulation prevention
allows; four sequence numbers wrap within a unit.

**Fairness.** A thread that is running keeps running (weak fairness of the steps
of every call in progress), constructions and blocked reads return (the FFmpeg
open and read timeouts that `_configure_capture` sets), time passes
(`GraceExpires`). No fairness is assumed of the camera, of the callers' choice
to call anything, or of consumers; only for `read` do we use that the worker's
loop calls it again while it keeps the session. In `StreamingService` the looper
runs what is queued and what was posted with a delay: weak fairness of
`Messages`, `OnNetworkChanged` and `Timer`, nothing else. In `CameraRuntime` the
processing thread is scheduled (`Node`); its wait for a packet is bounded by the
code. In `Desktop` the event loop takes up a request to end (`Leaves`), and in
`DesktopInference` the two threads run: `_run` waits with a time-out. In
`RtspServer` threads run, time passes (`TimePasses`), and what waits on a closed
socket fails; nothing is assumed of the client, who may stop reading for ever.
PLAY gets the buffer's lock in the end (strong fairness of `PlayLocks`): the
encoder lets go of it between two units, which are a frame's time apart.

**Deadlock** is checked in every run but those of `MCCameraNode` and `MCDesktop`.
They stop for good when their counters (events, detectors, operations, edits) are
used up, or the application has ended, and the liveness properties of `camera_node`
and `desktop` say which threads must have ended by then. In `CaptureSource`,
`Terminated` names the states in which everything has stopped, in `RtspServer`
`RtspEnded`.

Every property has a mutant: the `Bug...` operators are plausible mistakes in
the definition that follows them, and swapping one in makes TLC find the
property violated.

## 4. Proofs

Eight modules hold the theorems; each `EXTENDS` the module it is about.
`CameraNodeProofs` is about `MCCameraNode`, the composition, and holds the proofs
of all its parts but the runtime; `DesktopProofs` is about `MCDesktop` and holds
those of its parts, the configuration store included; `AndroidProofs` is about
`MCAndroid` and holds those of `RtpPackets`. They hold for all values of the constants
that the named `ASSUME`s of those modules allow: any number of attempts, closers,
callers, emitting threads, clients, cameras, networks, any bound, capacity, limit
and retry budget, any access units. None assumes fairness. The assumptions say that the bounds are
numbers (positive where the code's defaults are), that `None`, `Nobody`, `Nothing`,
`Absent`, `Missing`, `NoModel` and `NoFile` are none of the values they stand beside, that a
person's name is not "unknown", that cameras and faces are finitely many, that there
is at least one person model, that a model whose probe may fail is a registered
one, that a packet has room for more than a fragment's header, and that an access
unit is made of NAL units.

| Module | Property of a run | Theorem |
|---|---|---|
| `CaptureSourceProofs` | `TypeOK`, `SingleConstruction`, `OneKeeper`, `ConnectedHasReader`, `FreshDelivery`, `FramesInOrder` | `TypeCorrect`, `OneConstruction`, `CapturesAccountedFor`, `ConnectedIsRead`, `DeliveriesAreFresh`, `FramesComeInOrder` |
| `CameraWorkerProofs` | `TypeOK`, `OneThread`, `StateIsTrue`, `CountersAreTrue`, `FailedIsFinal` | `WorkerTyped`, `WorkerOneThread`, `WorkerStateIsTrue`, `WorkerCounts`, `WorkerFailedIsFinal` |
| `CameraRuntimeProofs` | `TrackingAgrees`, `IdentityIsConfirmed`, `ReconnectNoticedFirst` | `TrackingAlwaysAgrees`, `NamesAreConfirmed`, `ReconnectsAreNoticed` |
| `CameraNodeProofs` | `RepeatsAreSpaced`, `SnapshotPromiseKept`, `GalleryFollowsStore`, `ModelsAreAsConfigured`, `NodeTypeOK` | `RepeatsSpaced`, `SnapshotsKept`, `GalleryAlwaysFollows`, `ModelsFollowConfigurations`, `NodeTyped` |
| `StreamingServiceProofs` | `OnePipeline`, `StreamIsAskedFor`, `ServerFollowsItsEncoder` | `ServiceHasOnePipeline`, `ServiceIsAskedFor`, `ServiceServesItsEncoder` |
| `RtspServerProofs` | `QueueKeepsItsPromise` | `QueuesKeepPromise` |
| `AndroidProofs` | `UnitsArriveWhole`, `AndroidTypeOK` | `UnitsAlwaysArriveWhole`, `AndroidTyped` |
| `DesktopProofs` | `SlotsKeepTheirProviders`, `InferenceFollowsProvider`, `ModelsAreClosed`, `ResultsAreCurrent`, `AppTypeOK`, `StoreKeepsPromise` (refinement) | `SlotsAlwaysKeepProviders`, `InferenceAlwaysFollows`, `ModelsAlwaysClosed`, `ResultsAlwaysCurrent`, `AppTyped`, `StoreImplementsPromise` |

Hardly one of these properties is inductive. Each proof names an inductive invariant,
which TLC checked on a small instance first, shows that the initial state has
it and that every action keeps it (one lemma for each action, or for each method
that several actions call), and derives the property. What follows says for each
component what the invariant adds to the property, and why.

**Captures (`Custody`) and sessions (`Sessions`) of a source.**
`SingleConstruction` and `OneKeeper` say how many attempts run and how many keepers
a capture has, not why. `Custody` says it by the phase of the attempt. An attempt
that runs or waits to be claimed is the pending one, hence unique (`Unclaimed`).
Once claimed, its capture is in the session (`SessionCustody`), with the opener
(`OpenCustody`) or with one closing thread (`CloseCustody`), and if it is live then
it is in one of them (`NoLeak`). `Waiting` keeps the opener's local reference a real
attempt, and `SessionEmpty` says that no capture is installed between a close and
the installation that follows it, so that installing overwrites nothing.
`CustodyFrame` covers the steps that move no capture. `Sessions` is about the
installed capture: its reader was started in the generation of now, which is also
the one the Owner works in, and nobody has asked it to stop (`Current`); what waits
in the queue and among the terminal events is of the Owner's generation and younger
than what was delivered (`Waits`), because the queues are empty between the close
that clears them and the next installation (`Drained`).

**The worker (`WorkerInv`).** The lock covers single steps only, so the invariant
says what each thread may still believe between two of them: the run that is alive
is the current one and the callers in `start` and `stop` refer to it
(`ThreadsAgree`), the local variables of the loop agree with the source it holds
(`LocalsAgree`), its attempts with the limit (`AttemptsAgree`), the published state
with both (`StateAgrees`), and every frame counted is taken, dropped, buffered or
in the hand of the live thread, between its count and the buffer (`FramesAgree`).

**The runtime (`RuntimeInv`).** Between two methods the pipeline is `Sound`: the
machine's tracks are the tracker's, it scans exactly when there are none, and it
does not rest in a passing state. Track ids are given out once, so that what the
orchestrator still has of a track that went is never taken for another
(`OrchInv`). A name is safe because the evidence of a track is no more than the
last recognitions of that track, one after the other with one result
(`StreakInv`); and a packet never is of a session later than the count of
reconnects that was noticed, while every track is of exactly that one
(`SessionInv`).

**Events (`EventsInv`).** Every event but the one in `emit` is known to the
cooldown table, with a time that is not earlier (`LastIsNewest`); an event whose
metadata names an image has it, or has it in the queue or with the writer
(`PromisePending`); and once a closing thread has flushed, or an end marker is in
the queue, nothing can be added any more (`ClosingIsQuiet`).

**The person detectors (`DetectorsInv`).** `ModelsAreAsConfigured` speaks of the
answer of one prediction; the invariant carries the configuration from the factory
to it. A detector is on the device asked for unless its configuration leaves a
choice or a fall back was taken, and its precision is the one asked for or, on the
CPU, FP32 (`Configured`). An OpenVINO detector has loaded what is in its directory,
which is of the size asked for and, if it is the directory of that precision, of
the precision that the detector names, unless an interrupted conversion left a torn
one there (`Converts`). That rests on the directories: the marker of one that is
not torn is the one of its model, and the model in the directory of a precision is
of that precision (`Whole`).

**The face models (`FacesInv`).** A verdict may be replaced by that of another thread
at any time, so the invariant does not rest on the cache but on what has run: a
recorded pass is one of a probe that passed (`Recorded`), and so is every row that
the creator has collected for the model it is validating (`Validating`), from the
cache or from its own probe, which is of that model and file (`Running`). A model
that is loaded is therefore of its own runtime, on a device the machine has, and
has passed if it may fail (`Usable`). What is being validated fits the stage that
`create_face_orchestrator` is in (`Suits`), a recognizer exists only with landmarks
to align by (`Recognizes`), and what was seen of a face went through the stages in
order (`Sees`).

**The gallery (`GalleryInv`).** Two threads read the directories one by one while
one of them may also write. A reader that was not disturbed has read exactly what
the store holds of the directories it is through with (`Accurate`, `UserReads`,
`BuilderReads`), and an undisturbed reader is alone, which is what makes the
matcher it fills current (`Current`). On disk the metadata is always that of the
last complete save, whatever was written over the embeddings since (`Kept`), and a
removal takes the metadata first (`Writes`); so a save cut short shows the stored
name, or does not load.

**The node (`NodeInv`).** The parts share no variable, so that the conjunction of
their invariants is inductive: a step of one part leaves the others alone.

**The Android service (`ServiceInv`).** Each method of the service, of the
lifecycle controller and of a pipeline has a lemma that says what it does to a
service record (`Works`, `Asked`, `Moved`, `Stopped`, `Closed`). At the end of a
handler the service is `Settled`: a pipeline that is not the active one is closed
and keeps nothing (`PipeOK`), and what is underway, or will be retried, is
requested (`ControlOK`). That a server starts after its own encoder spoke needs the
messages: no message in the queue announces the format of an output before the
output does (`Spoken`), which holds because a new output takes a generation that no
message carries; one exists since the queue is finite and the generations are more.

**The RTSP server (`RtspInv`).** The byte count of a queue is not the bytes in it:
a unit that the writer took is counted until the writer has the lock, and if the
queue is cleared in between the unit is taken off twice. `Account` bounds the
difference on both sides by one unit, because only one unit is ever in the hand and
every clear resets the count; that is why a queue may hold, and count, up to twice
its limit. `Decodable` follows the key frames: unless a thread is clearing the
queue, every unit has its own before it in the queue, or sent before it, and so
would a unit that is appended now, unless one is awaited. The writer polls at any
time, so that both are shown of every single poll (`TailBounded`, `TailDecodable`).
A thread that clears has the lock until the queue is empty, and `OfferingInv` says
that the one that appends is the encoder, with a unit that fits. `Bytes` is stated as the cardinality of a set of places, so that
`BytesSplit`, `BytesAppend` and `BytesTail` follow from bijections; a recursive sum
could not be reasoned about.

**The desktop (`DesktopInv`, `InferenceInv`).** While a camera is reconfigured
nobody but its thread has its provider, and that thread works for the
configuration the controller has (`HandOver`); so the provider that was not yet told
to stop is known from the phase of the reconfiguration alone (`Holder`, `OneRuns`;
of the others nothing is said, they are leaving or gone), and
pictures that wait or are shown are of the present configuration (`Pictures`).
`Follows` is what the window adds by binding again after each reconfiguration. An
inference thread works on what it read; `InferenceInv` says that this is current
as long as the generation it read is, that the pipeline it uses is of the camera it
was bound to, and that a loaded detector or runtime is in the thread's hands or
installed (`DetectorIsOwned`, `RuntimeIsOwned`).

**The configuration store (`StoreInv`).** `StoreImplementsPromise` is a refinement:
for any cameras, passwords and number of saves, and through every failure and
interruption, `CameraStore` implements `StorePromise`. It needs to know that the
document a save is about to write is the stored one but for its own section, whose
content holds no password and had none that is neither put away nor meant to change
(`DocAgrees`), that a password which is put without being changed is the camera's
own (`KeepsPassword`), and that before the password is replaced the save remembers
the one in the sidecar (`SaveAgrees`). Each action then maps to a step of the
promise or to a stutter.

**The desktop as a whole (`AppInv`).** Providers and pipelines are numbered, and the
type invariant bounds the numbers by what the user may still ask for. Neither bound
is inductive alone. An edit pays for two providers, the one its own reconfiguration
makes and the one that a dirty card makes later; `FewProviders` counts what is
`Owed`, by the phase of each reconfiguration and by the cards that are `Dirty`.
`PipesBounded` does the same for the pipelines: `Needed` counts those that the face
thread has yet to make for the changes it has not seen, of which a change by the
user makes at most two.

**The packetizer (`RtpInv`).** The invariant is nearly the property itself: one
step takes a unit all the way. What is hard is inside the step, in the functions
that walk over bytes: `SplitAnnexB`, `SplitLengthPrefixed`, `FlattenSeq` and
`Joined` are recursive. That such a function exists is one lemma about functions
computed from values of less rank (`Recursion`), and what it computes is an
induction over the places of a sequence (`Upward`, `Downward`). The data is related
to its units by the place where each of them ends (`Layout`, `Cuts`). `FramedSplits`
then says that the parser undoes the encoder's framing: with start codes because
none begins inside a unit or across its end (`NoCodeInside`), with lengths because
four bytes give the length back (`LengthBytes`) and no start code is found first.
`FragmentsAre` says what the fragments of a unit are: of the right number, within
the room, each with the bytes after those of the one before, and the header's bits
where a receiver finds them (`HeaderBits`). `JoinsBack` says that a receiver which
steps through the payloads of any units has those units.

Only model-checked: all liveness, which is outside the prover's reach, as is
ENABLED, and the refutations (section 5).

## 5. Disagreements between the code and its text

* `worker_restart`: `worker.py:163` raises "CameraWorker is still stopping", but
  line 160 returns first whenever the old thread is alive, which is the very
  case in which a worker is still stopping after a `stop` that timed out. The
  caller of `start` believes the worker runs; it stays STOPPED.
* `service_crash`: a network is replaced while the stream is STARTING, or in
  ERROR. The service goes to STOPPED and keeps `streamStartRequested`
  (`CameraStreamingService.kt:527`), so that the next loss of the network asks
  for STOPPED -> WAITING_NETWORK, which `StreamStateMachine` rejects.
* `service_recovery`: the Android README promises that a stream which lost its
  network resumes unless the user stops it. `networkResumeReason` is cleared
  when the network is back (line 547), before the stream is; a second loss
  before that ends in STOPPED.
* `service_stopped`: saving settings fails while a stream is starting, which
  shows ERROR over a living output (lines 474-476). A stop in ERROR only changes
  the state, and the output serves although the snapshot says STOPPED.
* `rtsp_key_frames`: `RtspSession.kt:390` says that a lost key frame discards the
  frames that depend on it. `offer` polls the key frame (426) and then clears the
  queue (431) under a lock that `take` does not hold while it takes (448): the
  writer that comes between the two sends a unit whose key frame was dropped.
  What holds is that it can do so only while the queue is being cleared
  (`QueueKeepsItsPromise`).
* `desktop_edits`: an edit made while its camera is being reconfigured is saved,
  and asked for again when `camera_reconfigured` comes. The controller emits that
  signal before a timer removes the thread from `_reconfigure_threads`
  (`monitor_controller.py:337`, 368) and refuses the retry. In the window the card
  stays dirty and a flush tries again, once the user goes to another camera or
  closes it; the bridge has none, and waits for the next edit.
  `app_windows/README.md:116` says that valid changes are applied 500 ms after the
  last one.

Met while modelling, stated in a comment or a definition but without a run. Where a
definition is named, TLC refutes it on the constants of the passing run it belongs to:

* `openvino.py:52` says that the marker prevents the silent use of a stale
  conversion. The marker of the last conversion stays while the next one replaces
  the files beside it (443-468); one that is cut short there leaves a model of
  another size under a marker that is valid (`StaleCacheIsNotReused`;
  `ModelsAreAsConfigured` excuses it).
* `_fallback_to_fp32` sets `_precision_used` before the conversion
  (`openvino.py:673`), which may raise: the detector then reports fp32, uses the
  FP16 model, and never falls back again, while `app_windows/README.md:157` says
  that the telemetry always shows the precision (`PrecisionIsTheModels`;
  `ModelsAreAsConfigured` excuses it, and checks the precision otherwise).
* `app_windows/README.md:303` says that there is one worker for each camera. The
  join of the old provider's stop is bounded, and the reconfiguration goes on
  (`monitor_controller.py:230`): the old worker, still in an open or a read, is
  alive beside the new one (`OneWorkerPerCamera`; `SlotsKeepTheirProviders` says
  that it was told to stop).
* `app_windows/README.md:132` says that an empty field keeps the existing password.
  The bridge takes for that what the sidecar has (`wpf_bridge.py:589`), and not the
  password of a hand-written address, which `draft_from_slot` takes as well: the
  save drops it. A card of the Qt panel that was not set anew since the password
  changed brings the old one back (`EmptyFieldKeepsPassword`; `StoreKeepsPromise`
  excuses an editor that does not know the password).
* `motion.py:28-32` promises the first frame after a reconnect to the detector.
  The count of reconnects is read after the frame (`camera/runtime.py:326`), so
  that a late reset swallows first frames of the new session
  (`FirstFrameReachesDetector`).
* `_PROBE_CACHE` keeps a failure of the moment for the life of the process
  (`capabilities.py:207`, 251): a model whose first probe failed, or whose late
  second one did, is refused from then on.
* `app/face/storage.py:1` speaks of atomic persistence; a record is two files
  written one after the other, and one torn record makes every refresh fail.
* When the network callback cannot be registered, `NetworkMonitor.kt:49-55` posts
  one look and one loss ("fail closed") and nothing more, so that a stream which
  waits for the network waits until the user acts (`WaitingEnds` excuses it).
* The bridge does not bind the inference controllers again after a
  reconfiguration (`wpf_bridge.py:643-648`), and neither does the shell
  (`MainWindow.xaml.cs:282-287`); the Qt window does (`main_window.py:240-250`).
  Detection then reads a provider that was stopped, against
  `app_windows/README.md:153`.
* `_emit` on a broken pipe calls `_shutdown` with `_write_lock` held, which emits
  and waits for the same lock (`wpf_bridge.py:842-860`): the backend stays,
  against `BackendBridge.cs:112`. `BackendEnds` excuses this case.
* A second focus on the same camera while the face runtime is built makes
  `_publish` refuse the snapshot that reports missing models, and nothing is
  published again (`app_windows/README.md:182`).
* `H264Encoder.kt:310-311` makes the parameter sets available to the broadcaster
  "before opening the new RTSP generation"; `RtspServer.start` resets the
  broadcaster (line 48) and drops them (`SetsOutliveTheStart`).
* The writer thread runs before `writerThread` is assigned
  (`RtspSession.kt:224-260`): a close in between interrupts nobody, and the writer
  waits in `take` for ever (`NoWriterIsLeft`; `ClientsAreReleased` excuses it).
* `lastWriteNs` is the end of the last write, so that a write begun after a pause
  of ten seconds looks stalled at once (`RtspSession.kt:266`); and a request that
  is answered during a real stall waits for `outputLock`, so that nobody looks.
* `RtspSession.kt:386-391` says that a lost key frame discards the frames that
  depend on it. One that is refused for its size (line 417) does not set
  `awaitingKeyFrame`.
* Length-prefixed data whose length reads as a start code (as that of a unit of one
  byte, or of 256 to 511) is cut as Annex B data (`H264NalParser.kt:9-15`). `AccessUnit`
  leaves these lengths out.
* A ready callback of the service carries no token, so that a save between its two
  hops lets the callback of the old pipeline make the stream of the new one
  STREAMING before it has an output.

## 6. What is left

Proofs: every safety property of a passing run is a theorem; the liveness
properties stay with TLC.

Models: the stale ready callback of `StreamingService` as a property, and two
sources with the process-wide FFmpeg option.

Not modelled and not planned: numeric code (embeddings, similarity, image geometry,
motion arithmetic), parsing of configuration files, metrics and logs, user
interfaces, OpenGL and MediaCodec internals, scripts and benchmarks. They are
sequential or belong to libraries. Of modelled parts, what is left out is named
with each module above and in `PROJECT.json`.
