---------------------------- MODULE CameraTracking ----------------------------
(***************************************************************************)
(* What one camera knows about the people it sees: the person tracker, the *)
(* camera state machine, the recognition confirmer (app/tracking,          *)
(* app/face/confirmation.py) and the face orchestrator that feeds it       *)
(* (app/face/orchestrator.py, app/face/service.py).                        *)
(*                                                                         *)
(* All four are passive objects; this module has no variables.  Every      *)
(* method is an operator from the objects' old value to the new one, and   *)
(* the module that runs threads over them (CameraRuntime) calls it in one  *)
(* step, as the lock of CameraTrackingPipeline makes it.                   *)
(*                                                                         *)
(*   pipe = [tracks, next, active, state, analysis, confirmer, evidence,   *)
(*           latest, raised]    the pipeline, its tracker, its machine     *)
(*   orch = [base, final]               the orchestrator's caches          *)
(*                                                                         *)
(* raised says that the last method left through an exception.             *)
(***************************************************************************)
EXTENDS Integers, FiniteSets, Functions

CONSTANTS
    People,            \* person ids of the gallery
    None,              \* Python's None
    MaxMissed,         \* max_missed_samples
    MinConfirmations   \* min_confirmations

ASSUME PeopleAssumption == None \notin People \cup Nat /\ "unknown" \notin People
ASSUME PolicyAssumption == MaxMissed \in Nat /\ MinConfirmations \in Nat \ {0}

Keys == People \cup {"unknown"}       \* TrackRecognitionConfirmer._key

EmptyFcn == [x \in {} |-> None]
Without(f, S) == Restrict(f, DOMAIN f \ S)
Put(f, k, v) == [x \in DOMAIN f \cup {k} |-> IF x = k THEN v ELSE f[x]]

-----------------------------------------------------------------------------
(* IoUGreedyTracker.                                                       *)

\* update() with n detections of a frame of session s, matched being the
\* tracks that _associate pairs with one of them, by overlap and then by
\* distance: any of them, at most n.  A track without a detection lives on for
\* MaxMissed samples.
TrackerUpdate(tracks, next, matched, n, s) ==
    LET lost == {t \in DOMAIN tracks \ matched : tracks[t].missed >= MaxMissed}
        new  == next .. (next + n - Cardinality(matched) - 1)
    IN [ tracks |-> [t \in (DOMAIN tracks \ lost) \cup new |->
                       IF t \in new THEN [missed |-> 0, session |-> s]
                       ELSE [tracks[t] EXCEPT !.missed = IF t \in matched THEN 0 ELSE @ + 1]],
         next   |-> next + n - Cardinality(matched),
         new    |-> new,
         lost   |-> lost ]

-----------------------------------------------------------------------------
(* CameraStateMachine.                                                     *)

Settled == {"FACE_ANALYSIS", "KNOWN", "UNKNOWN", "COOLDOWN"}

AllowedTransitions ==
    [ PERSON_SCAN     |-> {"PERSON_DETECTED"},
      PERSON_DETECTED |-> {"TRACKING"},
      TRACKING        |-> {"PERSON_SCAN", "PERSON_DETECTED", "FACE_ANALYSIS"},
      FACE_ANALYSIS   |-> {"KNOWN", "UNKNOWN", "TRACKING", "PERSON_SCAN"},
      KNOWN           |-> {"COOLDOWN", "TRACKING", "PERSON_SCAN", "FACE_ANALYSIS"},
      UNKNOWN         |-> {"COOLDOWN", "TRACKING", "PERSON_SCAN", "FACE_ANALYSIS"},
      COOLDOWN        |-> {"TRACKING", "PERSON_SCAN"} ]

\* _transition; after an exception the rest of the method does not run.
Move(p, target) ==
    IF p.raised \/ target = p.state THEN p
    ELSE IF target \in AllowedTransitions[p.state] THEN [p EXCEPT !.state = target]
    ELSE [p EXCEPT !.raised = TRUE]

\* _set_observed_state, when the analysed track is gone.
AnalysisClosed(p) ==
    IF p.analysis \in p.active THEN p
    ELSE Move([p EXCEPT !.analysis = None], IF p.active = {} THEN "PERSON_SCAN" ELSE "TRACKING")

\* observe(): a camera that looks at a face leaves that only when the track
\* is gone; otherwise the state follows the tracks.
Observe(p, update) ==
    LET q == [p EXCEPT !.active   = DOMAIN update.tracks,
                       !.analysis = IF @ \in update.lost THEN None ELSE @]
    IN CASE q.state \in Settled -> AnalysisClosed(q)
         [] q.state \notin Settled /\ q.active = {} -> Move(q, "PERSON_SCAN")
         [] q.state \notin Settled /\ q.active /= {} ->
              Move(IF update.new /= {} THEN Move(q, "PERSON_DETECTED") ELSE q, "TRACKING")

\* begin_face_analysis.
BeginFaceAnalysis(p, t) ==
    IF t \in p.active /\ p.state \in {"TRACKING", "FACE_ANALYSIS", "KNOWN", "UNKNOWN"}
      THEN Move([p EXCEPT !.analysis = t], "FACE_ANALYSIS")
      ELSE [p EXCEPT !.raised = TRUE]

\* complete_face_analysis.
CompleteFaceAnalysis(p, t, key) ==
    IF p.state = "FACE_ANALYSIS" /\ p.analysis = t /\ t \in p.active
      THEN Move(p, IF key = "unknown" THEN "UNKNOWN" ELSE "KNOWN")
      ELSE [p EXCEPT !.raised = TRUE]

-----------------------------------------------------------------------------
(* TrackRecognitionConfirmer: evidence[t] = [key, count].  Its result for  *)
(* an observation is confirmed when the count reaches MinConfirmations; it *)
(* is counted no further here.                                             *)

BugConfirmKeepsStreak(e, t, key, expired) ==
    LET count == IF t \in DOMAIN e THEN e[t].count + 1 ELSE 1
    IN Put(e, t, [key |-> key, count |-> IF count > MinConfirmations THEN MinConfirmations ELSE count])

\* observe(): another key, or a gap longer than the confirmation window,
\* starts a new streak.
Confirm(e, t, key, expired) ==
    LET count == IF t \in DOMAIN e /\ e[t].key = key /\ ~expired THEN e[t].count + 1 ELSE 1
    IN Put(e, t, [key |-> key, count |-> IF count > MinConfirmations THEN MinConfirmations ELSE count])

IsConfirmed(p, t) == t \in DOMAIN p.evidence /\ p.evidence[t].count >= MinConfirmations

-----------------------------------------------------------------------------
(* CameraTrackingPipeline.                                                 *)

NewPipeline == [tracks |-> EmptyFcn, next |-> 1, active |-> {}, state |-> "PERSON_SCAN",
                analysis |-> None, confirmer |-> FALSE, evidence |-> EmptyFcn,
                latest |-> None, raised |-> FALSE]

SetConfirmer(p, present) == [p EXCEPT !.confirmer = present, !.evidence = EmptyFcn]

\* reset(): the tracker forgets its tracks but not its next id, so that an
\* id is never used for two people.
PipelineReset(p) ==
    [p EXCEPT !.evidence = Without(@, p.active), !.tracks = EmptyFcn, !.latest = None,
              !.active = {}, !.analysis = None, !.state = "PERSON_SCAN"]

BugUpdateKeepsEvidence(p, matched, n, s) ==
    LET update == TrackerUpdate(p.tracks, p.next, matched, n, s)
        q == Observe([p EXCEPT !.tracks = update.tracks, !.next = update.next], update)
    IN IF q.raised THEN q ELSE [q EXCEPT !.latest = DOMAIN update.tracks]

\* update().
PipelineUpdate(p, matched, n, s) ==
    LET update == TrackerUpdate(p.tracks, p.next, matched, n, s)
        q == Observe([p EXCEPT !.tracks = update.tracks, !.next = update.next,
                               !.evidence = Without(@, update.lost)], update)
    IN IF q.raised THEN q ELSE [q EXCEPT !.latest = DOMAIN update.tracks]

\* observe_recognition(): only for an active track, and the camera's state
\* follows a confirmed result only when that track is the analysed one.
ObserveRecognition(p, t, key, expired) ==
    IF ~p.confirmer \/ t \notin p.active THEN [p EXCEPT !.raised = TRUE]
    ELSE LET q == [p EXCEPT !.evidence = Confirm(@, t, key, expired)]
         IN IF IsConfirmed(q, t) /\ q.state = "FACE_ANALYSIS" /\ q.analysis = t
              THEN CompleteFaceAnalysis(q, t, key) ELSE q

-----------------------------------------------------------------------------
(* FaceRecognitionOrchestrator and FaceAnalysisService.                    *)
(* base[t] = [faces, key]: whether the last detection found a usable face  *)
(* and the best recognition stored with it (None: not recognised).         *)

NewOrchestrator == [base |-> EmptyFcn, final |-> EmptyFcn]

\* process(), first part: the caches of the tracks that are gone.
ForgetTracks(o, active) ==
    LET gone == DOMAIN o.base \ active
    IN [base |-> Without(o.base, gone), final |-> Without(o.final, gone)]

\* What the outside decides for one track: whether the two rate gates open,
\* whether the detector raises, what it finds, whether the track's box still
\* gives a crop, who is recognised in it, and whether that comes too late
\* for the confirmation window.
FaceChoices ==
    {c \in [detect: BOOLEAN, fails: BOOLEAN, faces: BOOLEAN, recognize: BOOLEAN,
            crop: BOOLEAN, key: Keys \cup {None}, expired: BOOLEAN] :
        /\ c.fails => c.detect /\ ~c.faces /\ ~c.recognize
        /\ c.faces => c.detect
        /\ c.crop => c.recognize
        /\ c.key /= None => c.crop
        /\ c.expired => c.recognize}

\* recognize_track(): the cached faces are matched again in the new frame;
\* without a crop the old result, with its old recognition, comes back.
RecognizeTrack(base, c) ==
    IF ~base.faces \/ ~c.crop THEN base ELSE [base EXCEPT !.key = c.key]

\* One turn of the loop of process() over the active tracks; seen is the
\* recognition that observe_recognition() took.
ProcessTrack(p, o, t, c) ==
    LET detected == IF c.detect
                      THEN [o EXCEPT !.base = Put(@, t, [faces |-> c.faces, key |-> None])] ELSE o
        Result(q, r, key) == [pipe |-> q, orch |-> r, seen |-> key]
    IN IF c.detect /\ c.fails THEN Result([p EXCEPT !.raised = TRUE], o, None)
       ELSE IF t \notin DOMAIN detected.base \/ ~c.recognize THEN Result(p, detected, None)
       ELSE LET base  == RecognizeTrack(detected.base[t], c)
                after == [detected EXCEPT !.base[t] = base]
            IN IF base.key = None
                 THEN Result(p, [after EXCEPT !.final = Without(@, {t})], None)
               ELSE IF ~p.confirmer
                 THEN Result(p, [after EXCEPT !.final = Put(@, t, "unknown")], None)
               ELSE LET begun    == BeginFaceAnalysis(p, t)
                        observed == IF begun.raised THEN begun
                                    ELSE ObserveRecognition(begun, t, base.key, c.expired)
                        final    == IF IsConfirmed(observed, t)
                                      THEN base.key ELSE "unknown"
                    IN IF observed.raised THEN Result(observed, after, None)
                       ELSE Result(observed, [after EXCEPT !.final = Put(@, t, final)], base.key)

=============================================================================
