----------------------------- MODULE FaceModels -----------------------------
(***************************************************************************)
(* The face models of one camera (app/face): create_face_orchestrator      *)
(* (factory.py) resolves the configured detector, landmarker and           *)
(* recognizer against the registry (model_resolution.py), probes each on   *)
(* this machine (capabilities.py) and loads it (detectors.py,              *)
(* embedding.py, openvino.py); FaceAnalysisService (service.py) runs them  *)
(* on a face.                                                              *)
(*                                                                         *)
(* A file is [format, name, model, there]: what its name ends with, the    *)
(* model it is called after, the registered model that it holds, and       *)
(* whether it can be found.  A loaded model is [id, backend, device,       *)
(* actual, model, asked]: the device as asked and as it turned out, the    *)
(* model that its file holds, and the configured id, where it is binding.  *)
(*                                                                         *)
(* Two threads probe models: the one that creates this camera's, and       *)
(* another, that of a capability view or of another camera's models.       *)
(***************************************************************************)
EXTENDS Integers, FiniteSets

CONSTANTS
    Machines,   \* of each runtime the devices it offers, one function for each machine
    Asked,      \* devices that a configuration may ask for
    Flaky,      \* models whose probe may fail
    NoModel,    \* Python's None
    MaxFaces    \* bound: faces analysed

VARIABLES
    machine,     \* the machine
    stage,       \* what create_face_orchestrator does next; "ready"; "closed"
    faceDetector, landmarker, recognizer,   \* the models, NoModel if there is none
    opened,      \* which of the three hold a session
    creating,    \* the model that is being validated, NoModel between two of them
    running,     \* for each thread, the key of the probe that it runs, or NoModel
    probes,      \* _PROBE_CACHE, of the flaky models: [key, passed]
    passes,      \* history: the keys whose probe has run and passed
    named,       \* whether a recognition threshold is configured
    seen,        \* the last face: whether it had landmarks, was accepted, the result
    faces        \* faces analysed

loadedVars == <<faceDetector, landmarker, recognizer, opened>>
probeVars  == <<creating, running, probes, passes>>
faceVars   == <<machine, stage, loadedVars, probeVars, named, seen, faces>>

Runtimes    == {"onnxruntime", "openvino", "opencv_dnn"}
FaceDevices == {"auto", "cpu", "gpu", "cuda", "npu"}

ASSUME FaceAssumption == /\ Machines \subseteq [Runtimes -> SUBSET (FaceDevices \ {"auto"})]
                         /\ Asked \subseteq FaceDevices /\ MaxFaces \in Nat

OnnxDevices     == {"auto", "cpu", "cuda"}
OpenVINODevices == {"auto", "cpu", "gpu", "npu"}
YuNetDevices    == {"auto", "cpu"}

\* The registry: contract is what a file of the model is recognised by, the
\* size of its input and the number of its outputs.
ModelSpec(id, backend, devices, landmarks, contract) ==
    [id |-> id, backend |-> backend, devices |-> devices, landmarks |-> landmarks, contract |-> contract]

AnyContract == <<0, 0>>

DetectorSpecs == {ModelSpec("scrfd", "onnxruntime", OnnxDevices, TRUE, AnyContract),
                  ModelSpec("0205", "openvino", OpenVINODevices, FALSE, AnyContract),
                  ModelSpec("yunet", "opencv_dnn", YuNetDevices, TRUE, AnyContract)}

LandmarkerSpec == ModelSpec("0009", "openvino", OpenVINODevices, TRUE, <<48, 10>>)

RecognizerSpecs == {ModelSpec("0095", "openvino", OpenVINODevices, TRUE, <<128, 256>>),
                    ModelSpec("facenet", "onnxruntime", OnnxDevices, TRUE, <<160, 512>>),
                    ModelSpec("arcface", "onnxruntime", OnnxDevices, TRUE, <<112, 512>>)}

Specs      == DetectorSpecs \cup RecognizerSpecs \cup {LandmarkerSpec}
SpecOf(id) == CHOOSE s \in Specs : s.id = id
Ids(specs) == {s.id : s \in specs}

\* Models that may be loaded; neither they nor their ids are None.
Models == [id : Ids(Specs), backend : Runtimes, device : FaceDevices, actual : FaceDevices,
           model : Ids(Specs) \cup {NoModel}, asked : Ids(Specs) \cup {NoModel}]

FormatOf(backend) == IF backend = "openvino" THEN "xml" ELSE "onnx"
FileOf(s) == [format |-> FormatOf(s.backend), name |-> s.id, model |-> s.id, there |-> TRUE]

\* Files that a user may name: those of the models, two that hold something
\* else and one that is not there.
FilesOf(specs) == {FileOf(s) : s \in specs}
    \cup [format : {"onnx", "xml"}, name : {NoModel}, model : {NoModel}, there : {TRUE}]
    \cup [format : {"xml"}, name : {NoModel}, model : {NoModel}, there : {FALSE}]

\* And three detectors that are called something else.
DetectorFiles == FilesOf(DetectorSpecs)
    \cup {[FileOf(SpecOf("yunet")) EXCEPT !.name = "scrfd"], [FileOf(SpecOf("scrfd")) EXCEPT !.name = NoModel],
          [FileOf(SpecOf("0205")) EXCEPT !.name = "yunet"]}

\* Every file there may be.
ModelFiles == [format : {"onnx", "xml"}, name : Ids(Specs) \cup {NoModel}, model : Ids(Specs) \cup {NoModel},
          there : BOOLEAN]

Selections(specs, files) == [id : Ids(specs) \cup {NoModel}, backend : Runtimes \cup {"auto"},
                             file : files, device : Asked]
DetectorSelections   == Selections(DetectorSpecs, DetectorFiles)
RecognizerSelections == Selections(RecognizerSpecs, FilesOf(RecognizerSpecs))

\* _PROBE_CACHE is keyed by model, file and device.
ProbeKeys == [id : Flaky, file : ModelFiles, device : FaceDevices]
Threads == {"creator", "other"}

\* A model on its way: todo are the devices that are still to be probed, and
\* rows those whose probe has passed.
Candidates == [id : Ids(Specs), backend : Runtimes, device : FaceDevices, file : ModelFiles,
               asked : Ids(Specs) \cup {NoModel}, todo : SUBSET FaceDevices, rows : SUBSET FaceDevices]

ASSUME ModelsAssumption ==
    Flaky \subseteq Ids(Specs) /\ NoModel \notin Models \cup Candidates \cup ProbeKeys \cup Ids(Specs)

Unseen == [landmarks |-> FALSE, accepted |-> FALSE, result |-> "none"]

FacesInit ==
    /\ machine \in Machines
    /\ stage = "detector"
    /\ faceDetector = NoModel /\ landmarker = NoModel /\ recognizer = NoModel
    /\ creating = NoModel /\ running = [t \in Threads |-> NoModel] /\ probes = {} /\ passes = {}
    /\ opened = {} /\ faces = 0 /\ named = FALSE
    /\ seen = Unseen

-----------------------------------------------------------------------------
(* Resolution.  Each of these is a set: the choice made, or nothing.       *)

\* normalize_device_for_backend.
Normalized(device, backend) ==
    CASE backend = "openvino" -> {device} \ {"cuda"}
      [] OTHER -> IF device = "gpu" THEN {"cuda"} ELSE {device} \ {"npu"}

\* validate_backend_format.
Fits(file, backend) == file.format = FormatOf(backend)

\* _detector_id: the configured id, else what the file is called, by the
\* first of the rules that applies; what it holds is not looked at.
DetectorId(sel) == IF sel.id /= NoModel THEN sel.id
                   ELSE IF sel.file.name /= "yunet" /\ sel.file.format = "xml" THEN "0205"
                   ELSE sel.file.name

\* resolve_detector: without an id, YuNet for an ONNX file, or the only
\* detector of the backend.
ResolvedDetector(sel) ==
    LET id      == IF DetectorId(sel) /= NoModel THEN {DetectorId(sel)}
                   ELSE IF sel.backend = "auto" THEN {"yunet"}
                   ELSE Ids({s \in DetectorSpecs : s.backend = sel.backend})
        backend == IF sel.backend = "auto" THEN SpecOf(CHOOSE i \in id : TRUE).backend ELSE sel.backend
    IN {[id |-> i, backend |-> backend] : i \in {j \in id : Fits(sel.file, backend)}}

\* _onnx_contract.
Contract(file) == IF file.model = NoModel THEN AnyContract ELSE SpecOf(file.model).contract

\* _matching_recognizers.
Matching(file) == {s \in RecognizerSpecs : s.backend = "onnxruntime" /\ s.contract = Contract(file)}

BugResolvedOnnx(sel) ==
    IF sel.id \in Ids({s \in RecognizerSpecs : s.backend = "onnxruntime"}) THEN {sel.id}
    ELSE Ids(Matching(sel.file))

\* resolve_recognizer, ONNX: the file must be one of a single registered
\* model; a configured id that is another one is refused, or only a hint
\* when the backend is "auto".
ResolvedOnnx(sel) ==
    IF sel.id /= NoModel /\ sel.backend /= "auto" THEN Ids(Matching(sel.file)) \cap {sel.id}
    ELSE Ids(Matching(sel.file))

\* resolve_recognizer.
ResolvedRecognizer(sel) ==
    LET backend == IF sel.backend /= "auto" THEN sel.backend
                   ELSE IF sel.file.format = "xml" THEN "openvino" ELSE "onnxruntime"
        ids     == IF sel.file.format = "xml" THEN {sel.id} \cap Ids(RecognizerSpecs) ELSE ResolvedOnnx(sel)
    IN {[id |-> i, backend |-> backend] :
           i \in {j \in ids : /\ Fits(sel.file, backend) /\ Normalized(sel.device, backend) /= {}
                              /\ SpecOf(j).backend = backend}}

-----------------------------------------------------------------------------
(* Probes.                                                                 *)

\* _runtime_devices, and "auto" where there is one.
Offers(backend, device) == IF device = "auto" THEN machine[backend] /= {} ELSE device \in machine[backend]

\* A model of a known contract must have as many outputs as it says.
OutputFits(id, file) == SpecOf(id).contract[2] \in {0, Contract(file)[2]}

\* Whatever the runtime raises counts as a failure; it need not be the same
\* the next time.
Failure(id) == IF id \in Flaky THEN {FALSE} ELSE {}

ProbeOnnx(id, file, device) ==
    LET provider == IF device /= "auto" THEN device
                    ELSE IF "cuda" \in machine["onnxruntime"] THEN "cuda" ELSE "cpu"
    IN {(provider \in machine["onnxruntime"]) /\ OutputFits(id, file)} \cup Failure(id)

\* OpenCV's detector reads the outputs of YuNet by their names.
ProbeOpenCV(id, file) == {file.model = "yunet"} \cup Failure(id)

ProbeOpenVINO(id, file) == {file.format = "xml" /\ OutputFits(id, file)} \cup Failure(id)

\* What a probe that runs may say.
Verdicts(id, file, device) ==
    CASE SpecOf(id).backend = "onnxruntime" -> ProbeOnnx(id, file, device)
      [] SpecOf(id).backend = "openvino"    -> ProbeOpenVINO(id, file)
      [] OTHER                              -> ProbeOpenCV(id, file)

\* _capability_for_spec: the model is probed on every device that it is
\* registered for and the machine offers, whichever was asked for.
OfferedDevices(id, file) == {d \in SpecOf(id).devices : file.there /\ Offers(SpecOf(id).backend, d)}

Key(id, file, device) == [id |-> id, file |-> file, device |-> device]
Cached(key) == {p.passed : p \in {q \in probes : q.key = key}}

\* A model that is resolved is to be validated.  The probes of a model that is
\* not flaky always end alike: they are taken as done.
Validates(resolved, sel, asked) ==
    /\ \E res \in resolved : \E device \in Normalized(sel.device, res.backend) :
          LET offered == OfferedDevices(res.id, sel.file) IN
          creating' = [id |-> res.id, backend |-> res.backend, device |-> device, file |-> sel.file,
                       asked |-> asked,
                       todo |-> IF res.id \in Flaky THEN offered ELSE {},
                       rows |-> IF res.id \in Flaky THEN {}
                                ELSE {d \in offered : TRUE \in Verdicts(res.id, sel.file, d)}]
    /\ UNCHANGED <<machine, stage, loadedVars, running, probes, passes, named, seen, faces>>

\* The creator has its row for device d.
Probed(d, passed) == [creating EXCEPT !.todo = @ \ {d}, !.rows = IF passed THEN @ \cup {d} ELSE @]

\* _probe_spec, by the creator: the cache is asked under its lock, and what it
\* does not know is probed without.
LookUp(d) ==
    /\ creating /= NoModel /\ running["creator"] = NoModel /\ d \in creating.todo
    /\ LET key == Key(creating.id, creating.file, d) IN
       IF Cached(key) = {}
         THEN running' = [running EXCEPT !["creator"] = key] /\ UNCHANGED creating
         ELSE creating' \in {Probed(d, v) : v \in Cached(key)} /\ UNCHANGED running
    /\ UNCHANGED <<machine, stage, loadedVars, probes, passes, named, seen, faces>>

\* face_capability_matrix, which probes every model, one after the other.
RefreshCapabilities(key) ==
    /\ running["other"] = NoModel /\ Cached(key) = {}
    /\ running' = [running EXCEPT !["other"] = key]
    /\ UNCHANGED <<machine, stage, loadedVars, creating, probes, passes, named, seen, faces>>

\* Its keys: the models' own files, on what the machine offers.
Refreshed == {key \in {Key(i, FileOf(SpecOf(i)), d) : i \in Flaky, d \in FaceDevices} :
                 key.device \in OfferedDevices(key.id, key.file)}

\* The verdict of a probe that has run replaces whatever is there by now.
Record(key, passed) == {p \in probes : p.key /= key} \cup {[key |-> key, passed |-> passed]}

\* _probe_spec: the verdict is recorded, by whichever thread ran the probe.
ProbeEnds(t, passed) ==
    /\ running[t] /= NoModel
    /\ passed \in Verdicts(running[t].id, running[t].file, running[t].device)
    /\ running' = [running EXCEPT ![t] = NoModel]
    /\ probes' = Record(running[t], passed)
    /\ passes' = IF passed THEN passes \cup {running[t]} ELSE passes
    /\ creating' = IF t = "creator" THEN Probed(running[t].device, passed) ELSE creating
    /\ UNCHANGED <<machine, stage, loadedVars, named, seen, faces>>

\* Every row is there.
Judged == creating /= NoModel /\ running["creator"] = NoModel /\ creating.todo = {}

\* validate_capability: of all the rows, that of the device asked for.
Valid == SpecOf(creating.id).backend = creating.backend /\ creating.device \in creating.rows

-----------------------------------------------------------------------------
(* Loading.  Each of these is the set of devices that the session may run  *)
(* on, empty if it cannot be made.                                         *)

\* _select_provider.
Provider(device) ==
    IF device = "auto" /\ "cuda" \in machine["onnxruntime"] THEN {"cuda"}
    ELSE (IF device = "auto" THEN {"cpu"} ELSE {device}) \cap machine["onnxruntime"]

\* _actual_provider: a session asked for CUDA may be one of the CPU.
ActualProvider(provider) == {provider, "cpu"}

\* compile_model: AUTO chooses among the devices; execution_device tells
\* which it was.
CompileModel(device) == IF device = "auto" THEN machine["openvino"] ELSE {device} \cap OpenVINODevices

LoadScrfd(device) == UNION {ActualProvider(p) : p \in {q \in Provider(device) : device \in OnnxDevices}}

Load0205(device) == CompileModel(device)

LoadYuNet(device) == {"cpu" : d \in {device} \cap YuNetDevices}

LoadRegressor(device) == CompileModel(device)

LoadOnnxEmbedder(device) == UNION {ActualProvider(p) : p \in {q \in Provider(device) : device \in OnnxDevices}}

LoadOpenVINOEmbedder(device) == CompileModel(device)

Load(id, device) ==
    CASE id = "scrfd" -> LoadScrfd(device)      [] id = "0205" -> Load0205(device)
      [] id = "yunet" -> LoadYuNet(device)      [] id = "0009" -> LoadRegressor(device)
      [] id = "0095"  -> LoadOpenVINOEmbedder(device)
      [] OTHER        -> LoadOnnxEmbedder(device)

\* What becomes of a model that is valid: it is loaded, or fails to.
Created == (IF ~Valid THEN {}
            ELSE {[id |-> creating.id, backend |-> creating.backend, device |-> creating.device, actual |-> a,
                   model |-> creating.file.model, asked |-> creating.asked] : a \in Load(creating.id, creating.device)})
           \cup {NoModel}

-----------------------------------------------------------------------------
(* create_face_orchestrator: for each of the three models, the choice and  *)
(* the call that validates it, and what the call comes to.                 *)

CreateDetector ==
    /\ stage = "detector" /\ creating = NoModel
    /\ \E sel \in DetectorSelections :
          sel.file.there /\ Validates(ResolvedDetector(sel), sel, DetectorId(sel))

\* create_face_detector: without a detector there is no pipeline at all.
DetectorEnds ==
    /\ stage = "detector" /\ Judged
    /\ creating' = NoModel
    /\ \E m \in Created :
         IF m = NoModel THEN UNCHANGED <<faceDetector, opened, stage>>
                       ELSE faceDetector' = m /\ opened' = {"detector"} /\ stage' = "landmarker"
    /\ UNCHANGED <<machine, landmarker, recognizer, running, probes, passes, named, seen, faces>>

CreateLandmarker ==
    /\ stage = "landmarker" /\ creating = NoModel
    /\ \E device \in Asked : Validates({[id |-> "0009", backend |-> "openvino"]},
                                     [file |-> FileOf(LandmarkerSpec), device |-> device], "0009")

\* create_face_landmarker: one that cannot be had is done without.
LandmarkerEnds ==
    /\ stage = "landmarker" /\ Judged
    /\ stage' = "recognizer" /\ creating' = NoModel
    /\ landmarker' \in Created
    /\ opened' = IF landmarker' = NoModel THEN opened ELSE opened \cup {"landmarker"}
    /\ UNCHANGED <<machine, faceDetector, recognizer, running, probes, passes, named, seen, faces>>

\* Disabled, not there, or for a device that OpenVINO does not have.
NoLandmarker ==
    /\ stage = "landmarker" /\ creating = NoModel
    /\ stage' = "recognizer"
    /\ UNCHANGED <<machine, loadedVars, probeVars, named, seen, faces>>

\* Recognition needs landmarks: those of the landmarker, or of a detector
\* that is known by its configuration to have its own.
HasLandmarks == \/ landmarker /= NoModel
                \/ faceDetector.asked /= NoModel /\ SpecOf(faceDetector.asked).landmarks

CreateRecognizer ==
    /\ stage = "recognizer" /\ creating = NoModel /\ HasLandmarks
    /\ \E sel \in RecognizerSelections :
          sel.file.there /\ Validates(ResolvedRecognizer(sel), sel, IF sel.backend = "auto" THEN NoModel ELSE sel.id)

\* create_face_embedder: a recognizer that cannot be had leaves the
\* detection alone.
RecognizerEnds ==
    /\ stage = "recognizer" /\ Judged
    /\ stage' = "ready" /\ creating' = NoModel
    /\ recognizer' \in Created
    /\ IF recognizer' = NoModel THEN UNCHANGED <<opened, named>>
                              ELSE opened' = opened \cup {"recognizer"} /\ named' \in BOOLEAN
    /\ UNCHANGED <<machine, faceDetector, landmarker, running, probes, passes, seen, faces>>

\* Disabled, without landmarks, not resolved, or with a gallery that cannot
\* be read.
NoRecognizer ==
    /\ stage = "recognizer" /\ creating = NoModel
    /\ stage' = "ready"
    /\ UNCHANGED <<machine, loadedVars, probeVars, named, seen, faces>>

\* _close_runtime.
CloseModels ==
    /\ stage = "ready"
    /\ stage' = "closed" /\ opened' = {}
    /\ UNCHANGED <<machine, faceDetector, landmarker, recognizer, probeVars, named, seen, faces>>

\* Another configuration.
Rebuild ==
    /\ stage = "closed"
    /\ stage' = "detector"
    /\ faceDetector' = NoModel /\ landmarker' = NoModel /\ recognizer' = NoModel
    /\ opened' = {} /\ named' = FALSE /\ seen' = Unseen
    /\ UNCHANGED <<machine, probeVars, faces>>

-----------------------------------------------------------------------------
(* FaceAnalysisService.  The model's best output row is [high, finite,     *)
(* wide, first, points, face]: its score and its box, whether no better    *)
(* row overlaps it, its five points and its label.                         *)

Rows == [high : BOOLEAN, finite : BOOLEAN, wide : BOOLEAN, first : BOOLEAN,
         points : {"none", "finite", "nan"}, face : BOOLEAN]

\* ScrfdFaceDetector.detect: FaceLandmark5 refuses points that are not
\* finite, before the box is looked at.
DetectScrfd(row) ==
    IF ~(row.high /\ row.finite /\ row.first) THEN "nothing"
    ELSE IF row.points = "nan" THEN "raises"
    ELSE IF ~row.wide THEN "nothing"
    ELSE IF row.points = "finite" THEN "points" ELSE "bare"

\* OpenVINOFaceDetector0205.detect.
Detect0205(row) == IF row.face /\ row.high /\ row.finite /\ row.wide THEN "bare" ELSE "nothing"

\* YuNetFaceDetector.detect.
DetectYuNet(row) ==
    IF ~(row.high /\ row.finite /\ row.first) THEN "nothing"
    ELSE IF row.points = "finite" THEN "points" ELSE "bare"

Reported == [id \in Ids(DetectorSpecs) |->
               {CASE id = "scrfd" -> DetectScrfd(r) [] id = "0205" -> Detect0205(r) [] OTHER -> DetectYuNet(r) : r \in Rows}]

\* On a file that holds another model, detect() may fail altogether.
Reports(m) == Reported[m.id] \cup (IF m.model = m.id THEN {} ELSE {"raises"})

\* detect(), landmark() and the OpenVINO embed() open a closed session
\* again, on whatever device it comes to run; a closed ONNX recognizer
\* raises, which recognize_track catches.
Reopened(part, m) == IF part \in opened THEN {m} ELSE {[m EXCEPT !.actual = a] : a \in Load(m.id, m.device)}

\* landmark(): the detector's points, else what the landmarker finds; it may
\* find none, and an error counts as none.
Regresses(face) == face = "bare" /\ landmarker /= NoModel
Landmarked(face, regressed) == face = "points" \/ (Regresses(face) /\ regressed)

\* evaluate(): small, dark, bright, blurred, partial or uncertain faces are
\* not good; analyze_track: without landmarks a face is not accepted where
\* there is a matcher.
IsAccepted(face, good, landmarks) == face \in {"points", "bare"} /\ good /\ (landmarks \/ recognizer = NoModel)

\* align(): by the landmarks, if a transform fits them.
Aligned(landmarks, regular) == landmarks /\ regular

\* embed(): the embedding's best score against the gallery, or an error, as
\* for one that has no finite direction.
EmbedOnnx(score) == IF "recognizer" \in opened THEN score ELSE "raises"
EmbedOpenVINO(score) == score

\* match(): the best score, if anybody is enrolled, and the threshold.
Match(score) == CASE score = "raises"           -> "none"
                  [] score = "above" /\ named   -> "known"
                  [] OTHER                      -> "unknown"

\* recognize_track compares an accepted face that can be aligned.
Compares(accepted, aligned) == recognizer /= NoModel /\ accepted /\ aligned

Recognized(accepted, aligned, score) ==
    IF Compares(accepted, aligned)
      THEN Match(IF recognizer.backend = "openvino" THEN EmbedOpenVINO(score) ELSE EmbedOnnx(score))
      ELSE "none"

\* analyze_track of one face as the detector reports it: whether the
\* landmarker finds its points, whether its quality is good, whether it can
\* be aligned, and the best score; FALSE or "none" where that is not asked.
AnalyzeFace(face, regressed, good, regular, score) ==
    /\ stage \in {"ready", "closed"} /\ faces < MaxFaces
    /\ face \in Reports(faceDetector)
    /\ faces' = faces + 1
    /\ faceDetector' \in Reopened("detector", faceDetector)
    /\ LET landmarks == Landmarked(face, regressed)
           accepted  == IsAccepted(face, good, landmarks)
           aligned   == Aligned(landmarks, regular)
           lazily    == Compares(accepted, aligned) /\ recognizer.backend = "openvino"
       IN /\ (regressed => Regresses(face)) /\ (good => face \in {"points", "bare"})
          /\ (regular => landmarks /\ accepted) /\ (score /= "none" => Compares(accepted, aligned))
          /\ seen' = [landmarks |-> landmarks, accepted |-> accepted, result |-> Recognized(accepted, aligned, score)]
          /\ landmarker' \in (IF Regresses(face) THEN Reopened("landmarker", landmarker) ELSE {landmarker})
          /\ recognizer' \in (IF lazily THEN Reopened("recognizer", recognizer) ELSE {recognizer})
          /\ opened' = opened \cup {"detector"} \cup (IF Regresses(face) THEN {"landmarker"} ELSE {})
                         \cup (IF lazily THEN {"recognizer"} ELSE {})
    /\ UNCHANGED <<machine, stage, probeVars, named>>

FacesNext ==
    \/ CreateDetector \/ CreateLandmarker \/ CreateRecognizer
    \/ \E d \in FaceDevices : LookUp(d)
    \/ \E key \in Refreshed : RefreshCapabilities(key)
    \/ \E t \in Threads, passed \in BOOLEAN : ProbeEnds(t, passed)
    \/ DetectorEnds \/ LandmarkerEnds \/ RecognizerEnds \/ NoLandmarker \/ NoRecognizer \/ CloseModels \/ Rebuild
    \/ \E face \in {"nothing", "raises", "points", "bare"}, regressed, good, regular \in BOOLEAN,
          score \in {"raises", "none", "below", "above"} : AnalyzeFace(face, regressed, good, regular, score)

-----------------------------------------------------------------------------
FacesTypeOK ==
    /\ machine \in Machines /\ stage \in {"detector", "landmarker", "recognizer", "ready", "closed"}
    /\ \A m \in {faceDetector, landmarker, recognizer} \ {NoModel} : m.id \in Ids(Specs) /\ m.actual \in FaceDevices
    /\ opened \subseteq {"detector", "landmarker", "recognizer"}
    /\ creating /= NoModel => creating.id \in Ids(Specs) /\ creating.todo \cup creating.rows \subseteq FaceDevices
    /\ \A t \in Threads : running[t] /= NoModel => running[t].id \in Flaky /\ running[t].device \in FaceDevices
    /\ \A p \in probes : p.key.id \in Flaky /\ p.key.device \in FaceDevices /\ p.passed \in BOOLEAN
    /\ faces \in 0 .. MaxFaces

\* The device of a loaded model is one the machine has and, unless the CPU
\* stands in for CUDA, the one asked for.
OnItsDevice(m) == /\ m.actual \in machine[m.backend] \cup {"cpu"}
                  /\ m.actual = m.device \/ m.device = "auto" \/ <<m.device, m.actual>> = <<"cuda", "cpu">>

\* A probe of the loaded model m, on the device asked for, has run and passed.
HasPassed(m) == \E key \in passes : <<key.id, key.file.model, key.device>> = <<m.id, m.model, m.device>>

\* The face models are the configured ones: each runs on its own runtime and
\* on the device asked for (on the CPU where CUDA was not to be had), also
\* after it was closed and opened again; a probe of the very model, file and
\* device has run and passed, in this thread or in another, and no cached
\* verdict says so of a probe that did not.  That a cached verdict still says
\* so while the model is used is not claimed: two threads that both found no
\* verdict both record theirs, and the later one may be a failure.  An ONNX
\* recognizer is read with the shapes of the file it is, whatever id is
\* configured, and another id is refused unless the backend is "auto"; a face
\* is compared with the gallery only if it has landmarks to be aligned by, and
\* nobody is named without a threshold.
FacesAreAsConfigured ==
    /\ \A m \in {faceDetector, landmarker, recognizer} \ {NoModel} :
         /\ m.backend = SpecOf(m.id).backend /\ OnItsDevice(m)
         /\ m.asked \in {m.id, NoModel}
         /\ m.id \in Flaky => HasPassed(m)
    /\ \A p \in probes : p.passed => p.key \in passes
    /\ recognizer /= NoModel =>
         /\ HasLandmarks
         /\ recognizer.backend = "onnxruntime" => recognizer.id = recognizer.model
    /\ seen.result /= "none" => seen.landmarks /\ seen.accepted
    /\ seen.result = "known" => named

=============================================================================
