---------------------------- MODULE CameraRuntime -----------------------------
(***************************************************************************)
(* CameraRuntime (app/camera/runtime.py): one camera of the command line   *)
(* node.  A controller starts and stops three threads, the worker (module  *)
(* CameraWorker, here only what the others see of it), the FrameSampler    *)
(* (app/video/sampler.py) and the processing thread, which resets its      *)
(* tracking on a reconnect, asks the MotionDetector (app/video/motion.py)  *)
(* whether to run the person detector, and hands detections to the         *)
(* operators of CameraTracking.                                            *)
(*                                                                         *)
(* A packet is the session it was received in: the number of reconnects of *)
(* the worker at that time.                                                *)
(***************************************************************************)
EXTENDS CameraTracking, Sequences

CONSTANTS
    Configurations, \* records: has the runtime a motion detector, a face orchestrator,
                    \* and, a bound, how often its source reconnects
    MaxTracks,      \* bound: track ids
    MaxDetections,  \* bound: persons in a frame
    WarmUp          \* warmup_frames

ASSUME ConfigurationAssumption ==
    Configurations \subseteq [motion: BOOLEAN, faces: BOOLEAN, reconnects: Nat]
ASSUME RuntimeAssumption == /\ MaxTracks \in Nat
                            /\ MaxDetections \in Nat /\ WarmUp \in Nat \ {0}

VARIABLES
    config,   \* the configuration, fixed
    worker,   \* CameraWorker: [state, alive, count]
    sampler,  \* FrameSampler: [alive, out]
    node,     \* the runtime and its thread: [stop, pc, packet, count, todo]
    motion,   \* MotionDetector: [prev, warm]
    pipe,     \* CameraTrackingPipeline
    orch,     \* FaceRecognitionOrchestrator
    tried,    \* history: sessions of which a frame reached the person detector
    recent    \* history: the last recognitions of each track, newest first

runtimeVars == <<config, worker, sampler, node, motion, pipe, orch, tried, recent>>

IdleNode == [stop |-> FALSE, pc |-> "dead", packet |-> None, count |-> 0, todo |-> {}]

RuntimeInit ==
    /\ worker = [state |-> "stopped", alive |-> FALSE, count |-> 0]
    /\ sampler = [alive |-> FALSE, out |-> None]
    /\ config \in Configurations
    /\ node = IdleNode
    /\ motion = [prev |-> None, warm |-> WarmUp]
    /\ pipe = SetConfirmer(NewPipeline, config.faces)
    /\ orch = NewOrchestrator
    /\ tried = {}
    /\ recent = EmptyFcn

-----------------------------------------------------------------------------
(* The worker: it loses its stream, and it ends because it gave up, for    *)
(* ever, or because it was stopped.                                        *)

WorkerReconnect ==
    /\ worker.state \in {"running", "reconnecting"} /\ worker.count < config.reconnects
    /\ worker' = [worker EXCEPT !.state = "reconnecting", !.count = @ + 1]
    /\ UNCHANGED <<config, sampler, node, motion, pipe, orch, tried, recent>>

WorkerEnds ==
    /\ worker.alive
    /\ \/ worker.state = "reconnecting" /\ worker' = [worker EXCEPT !.state = "failed", !.alive = FALSE]
       \/ worker.state = "stopping" /\ worker' = [worker EXCEPT !.state = "stopped", !.alive = FALSE]
    /\ UNCHANGED <<config, sampler, node, motion, pipe, orch, tried, recent>>

-----------------------------------------------------------------------------
(* The sampler, its start() and stop() among those of the runtime.         *)

\* A frame the worker received passes the rate gate of accept() and replaces
\* the one in the output; a frame the gate skips leaves no trace.
SamplerAccept ==
    /\ sampler.alive /\ worker.state \in {"running", "reconnecting"}
    /\ worker' = [worker EXCEPT !.state = "running"]
    /\ sampler' = [sampler EXCEPT !.out = worker.count]
    /\ UNCHANGED <<config, node, motion, pipe, orch, tried, recent>>

-----------------------------------------------------------------------------
(* start() and stop(), called by one controller.                           *)

MotionReset == [prev |-> None, warm |-> WarmUp]

ResetTracking ==
    /\ motion' = IF config.motion THEN MotionReset ELSE motion
    /\ pipe' = PipelineReset(pipe)
    /\ orch' = IF config.faces THEN NewOrchestrator ELSE orch
    /\ recent' = EmptyFcn

\* A start() while the thread lives is a no-op; otherwise everything the
\* last run left behind is reset, and the worker started, which raises for
\* ever once it has failed and ignores the call while its old thread lives.
StartRuntime ==
    /\ node.pc = "dead"
    /\ ResetTracking
    /\ tried' = {}
    /\ UNCHANGED config
    /\ IF worker.state = "failed"
         THEN node' = [node EXCEPT !.stop = FALSE, !.count = 0] /\ UNCHANGED <<worker, sampler>>
         ELSE /\ worker' = IF worker.alive THEN worker
                           ELSE [state |-> "running", alive |-> TRUE, count |-> 0]
              /\ sampler' = [alive |-> TRUE, out |-> None]
              /\ node' = [node EXCEPT !.stop = FALSE, !.count = 0, !.pc = "get"]

\* stop() ends the sampler, whose thread looks at its event every 0.1 s, far
\* below the bound of the join; the worker's thread and the processing
\* thread may outlive theirs.
StopRuntime ==
    /\ ~node.stop
    /\ node' = [node EXCEPT !.stop = TRUE]
    /\ sampler' = [sampler EXCEPT !.alive = FALSE]
    /\ worker' = IF worker.alive THEN [worker EXCEPT !.state = "stopping"] ELSE worker
    /\ UNCHANGED <<config, motion, pipe, orch, tried, recent>>

-----------------------------------------------------------------------------
(* _run.                                                                   *)

NodeGoto(label) == node' = [node EXCEPT !.pc = label]

BugGetWaitsForEver ==
    /\ node.pc = "get"
    /\ \/ /\ node.stop
          /\ NodeGoto("dead") /\ UNCHANGED sampler
       \/ /\ ~node.stop /\ sampler.out /= None
          /\ node' = [node EXCEPT !.pc = "check", !.packet = sampler.out]
          /\ sampler' = [sampler EXCEPT !.out = None]
    /\ UNCHANGED <<config, worker, motion, pipe, orch, tried, recent>>

\* The newest sampled packet; without one the thread ends if the worker has
\* failed, and looks again otherwise.
NodeGet ==
    /\ node.pc = "get"
    /\ \/ /\ node.stop
          /\ NodeGoto("dead") /\ UNCHANGED sampler
       \/ /\ ~node.stop /\ sampler.out /= None
          /\ node' = [node EXCEPT !.pc = "check", !.packet = sampler.out]
          /\ sampler' = [sampler EXCEPT !.out = None]
       \/ /\ ~node.stop /\ sampler.out = None /\ worker.state = "failed"
          /\ NodeGoto("dead") /\ UNCHANGED sampler
    /\ UNCHANGED <<config, worker, motion, pipe, orch, tried, recent>>

BugCheckKeepsTracks ==
    /\ node.pc = "check"
    /\ node' = [node EXCEPT !.pc = IF config.motion THEN "motion" ELSE "detect",
                            !.count = worker.count]
    /\ motion' = IF worker.count /= node.count /\ config.motion THEN MotionReset ELSE motion
    /\ UNCHANGED <<config, worker, sampler, pipe, orch, recent, tried>>

\* The worker's reconnect count is read after the packet was taken.
NodeCheck ==
    /\ node.pc = "check"
    /\ IF worker.count /= node.count THEN ResetTracking
                                     ELSE UNCHANGED <<motion, pipe, orch, recent>>
    /\ node' = [node EXCEPT !.pc = IF config.motion THEN "motion" ELSE "detect",
                            !.count = worker.count]
    /\ UNCHANGED <<config, worker, sampler, tried>>

\* MotionDetector.detect: frames of a warm-up are motion; a failure never
\* suppresses the detector.
NodeMotion ==
    /\ node.pc = "motion"
    /\ \/ /\ motion' = [prev |-> node.packet, warm |-> IF motion.warm > 0 THEN motion.warm - 1 ELSE 0]
          /\ NodeGoto("detect")
       \/ /\ motion.prev /= None /\ motion.warm = 0
          /\ motion' = [motion EXCEPT !.prev = node.packet]
          /\ node' = [node EXCEPT !.pc = "get", !.packet = None]
       \/ NodeGoto("detect") /\ UNCHANGED motion
    /\ UNCHANGED <<config, worker, sampler, pipe, orch, tried, recent>>

\* The person detector raises, or its detections go to pipeline.update(),
\* whatever tracks the frame matches.  The orchestrator returns at once when no
\* track is left, and keeps what it knows of the tracks that are gone.
NodeDetect ==
    /\ node.pc = "detect"
    /\ tried' = IF config.motion THEN tried \cup {node.packet} ELSE tried
    /\ \/ /\ node' = [node EXCEPT !.pc = "get", !.packet = None]
          /\ UNCHANGED <<pipe, orch, recent>>
       \/ \E n \in 0 .. MaxDetections : \E matched \in SUBSET DOMAIN pipe.tracks :
            /\ Cardinality(matched) <= n
            /\ pipe.next + n - Cardinality(matched) <= MaxTracks + 1
            /\ pipe' = PipelineUpdate(pipe, matched, n, node.count)
            /\ orch' = IF config.faces /\ pipe'.active /= {} THEN ForgetTracks(orch, pipe'.active) ELSE orch
            /\ recent' = Restrict(recent, DOMAIN recent \cap DOMAIN pipe'.tracks)
            /\ node' = [node EXCEPT !.pc = IF pipe'.raised THEN "error" ELSE "faces",
                                    !.todo = IF config.faces THEN pipe'.active ELSE {}]
    /\ UNCHANGED <<config, worker, sampler, motion>>

\* The recognitions of the current streak's window, newest first.
Remember(t, key, expired) ==
    LET old == IF t \in DOMAIN recent /\ ~expired THEN recent[t] ELSE <<>>
        all == <<key>> \o old
    IN Put(recent, t, SubSeq(all, 1, IF Len(all) < MinConfirmations THEN Len(all) ELSE MinConfirmations))

\* orchestrator.process(), one active track after the other.
NodeFace ==
    /\ node.pc = "faces" /\ node.todo /= {}
    /\ LET t == CHOOSE u \in node.todo : \A v \in node.todo : u <= v
       IN \E c \in FaceChoices :
            LET done == ProcessTrack(pipe, orch, t, c)
            IN /\ pipe' = done.pipe
               /\ orch' = done.orch
               /\ recent' = IF done.seen = None THEN recent
                             ELSE Remember(t, done.seen, c.expired)
               /\ node' = [node EXCEPT !.todo = @ \ {t},
                                       !.pc = IF done.pipe.raised THEN "error" ELSE @]
    /\ UNCHANGED <<config, worker, sampler, motion, tried>>

\* Without an orchestrator a hook may select a track for an analysis that
\* somebody else completes; the packet is done.
NodeDone ==
    /\ node.pc = "faces" /\ node.todo = {}
    /\ \/ UNCHANGED pipe
       \/ /\ ~config.faces /\ pipe.state \in {"TRACKING", "KNOWN", "UNKNOWN"}
          /\ \E t \in pipe.active : pipe' = BeginFaceAnalysis(pipe, t)
    /\ node' = [node EXCEPT !.pc = "get", !.packet = None]
    /\ UNCHANGED <<config, worker, sampler, motion, orch, tried, recent>>

\* _record_error: the sample is given up, the thread goes on.
NodeError ==
    /\ node.pc = "error"
    /\ pipe' = [pipe EXCEPT !.raised = FALSE]
    /\ node' = [node EXCEPT !.pc = "get", !.packet = None, !.todo = {}]
    /\ UNCHANGED <<config, worker, sampler, motion, orch, tried, recent>>

Node == NodeGet \/ NodeCheck \/ NodeMotion \/ NodeDetect \/ NodeFace \/ NodeDone \/ NodeError
Others == WorkerReconnect \/ WorkerEnds \/ SamplerAccept \/ StartRuntime \/ StopRuntime

RuntimeNext == Others \/ Node

\* The processing thread is scheduled; nothing else is needed for it to end.
RuntimeFairness == WF_runtimeVars(Node)

RuntimeSpec == RuntimeInit /\ [][RuntimeNext]_runtimeVars /\ RuntimeFairness

-----------------------------------------------------------------------------
(* Properties.                                                             *)

RuntimeTypeOK ==
    /\ worker \in [state: {"stopped", "running", "reconnecting", "stopping", "failed"},
                   alive: BOOLEAN, count: Nat]
    /\ sampler \in [alive: BOOLEAN, out: Nat \cup {None}]
    /\ node.pc \in {"dead", "get", "check", "motion", "detect", "faces", "error"}
    /\ motion.prev \in Nat \cup {None} /\ motion.warm \in 0 .. WarmUp
    /\ pipe.state \in DOMAIN AllowedTransitions

\* The tracker, the state machine, the confirmer and the orchestrator agree
\* about who is there, whatever samples, resets and failures came: the
\* machine knows the tracker's tracks, scans exactly when there are none,
\* looks at the face of a track that is there, and nobody keeps evidence of
\* a track that is gone.
TrackingAgrees ==
    /\ pipe.active = DOMAIN pipe.tracks
    /\ pipe.state = "PERSON_SCAN" <=> pipe.active = {}
    /\ pipe.state \in Settled => pipe.analysis \in pipe.active
    /\ DOMAIN pipe.evidence \subseteq pipe.active
    /\ node.pc = "faces" /\ pipe.active /= {} => DOMAIN orch.final \subseteq pipe.active
    /\ pipe.raised => node.pc = "error"

\* A name leaves the temporal gate only after MinConfirmations consecutive
\* recognitions of that person on that track, none older than the session.
IdentityIsConfirmed ==
    /\ \A t \in DOMAIN orch.final \cap pipe.active : orch.final[t] \in People =>
         /\ t \in DOMAIN recent
         /\ recent[t] = [i \in 1 .. MinConfirmations |-> orch.final[t]]
    /\ pipe.state = "KNOWN" => \E who \in People :
         recent[pipe.analysis] = [i \in 1 .. MinConfirmations |-> who]

\* No frame is looked at before the reconnect that preceded it was noticed,
\* although the frame and the count of reconnects come from two threads at
\* two moments, and no track outlives the reset that follows.
ReconnectNoticedFirst ==
    node.pc \in {"motion", "detect", "faces"} =>
        /\ node.packet <= node.count
        /\ \A t \in DOMAIN pipe.tracks : pipe.tracks[t].session = node.count

\* "a newly opened or reconnected stream cannot suppress its first
\* person-detection opportunity" (motion.py:31-32): a frame is withheld from
\* the detector only after another frame of its session reached it.
FirstFrameReachesDetector ==
    [][(node.pc = "motion" /\ node'.pc = "get") => node.packet \in tried]_runtimeVars

\* A stopped runtime's thread ends, and so does that of a camera whose
\* worker has given up.
ProcessingEnds ==
    (node.pc /= "dead" /\ (node.stop \/ worker.state = "failed")) ~> node.pc = "dead"

=============================================================================
