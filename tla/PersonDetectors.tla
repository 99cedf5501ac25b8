--------------------------- MODULE PersonDetectors ----------------------------
(***************************************************************************)
(* The person detectors that create_person_detector chooses between        *)
(* (app/inference): OpenVINOPersonDetector with its directories of         *)
(* converted models on disk, and the YOLOE, YOLOE segmentation and ONNX    *)
(* adapters.  One thread constructs a detector, asks it for detections and *)
(* closes it; the process may end at any point, and the next one finds the *)
(* directories as they are.                                                *)
(*                                                                         *)
(* Pixels and boxes are left out: a detection is what it was computed      *)
(* with.  "gpu" stands for OpenVINO's GPU and for CUDA.                    *)
(***************************************************************************)
EXTENDS Integers, Sequences, FiniteSets

CONSTANTS
    ImageSizes,     \* values of image_size
    Unset,          \* Python's None
    MaxDetectors    \* bound: detectors constructed

ASSUME DetectorsAssumption ==
    ImageSizes # {} /\ Unset \notin ImageSizes /\ MaxDetectors \in Nat

VARIABLES
    cache,     \* for each precision, the directory of the converted model:
               \* [ir, marker, torn], torn a history variable: ir was replaced
               \* and marker is still the one of the ir before it
    detector,  \* the detector: [st, config, available, target, used, precision,
               \* dir, model, verified, tried, resume]
    answer,    \* what the last call of detect() returned, Unset when it raised
    made       \* detectors constructed

detectorVars == <<cache, detector, answer, made>>

Precisions == {"fp16", "fp32"}
Contents == [precision : Precisions, size : ImageSizes]
Devices == {"gpu", "cpu"}

OpenVINOConfigs ==
    [backend : {"openvino"}, device : Devices \cup {"auto"}, fallback : BOOLEAN,
     precision : Precisions, size : ImageSizes, checkpoint : BOOLEAN]

\* The other adapters have one precision, no fallback_device and no directory.
OtherConfigs(backends) ==
    [backend : backends, device : Devices \cup {"auto"}, fallback : {FALSE},
     precision : {"fp16"}, size : ImageSizes, checkpoint : {TRUE}]

\* create_person_detector: the segmentation adapter for masks or more prompts.
DetectorConfigs == OpenVINOConfigs \cup OtherConfigs({"yoloe", "segmentation", "onnx"})

NoDetector == [st |-> "none", config |-> Unset, available |-> {}, target |-> Unset, used |-> Unset,
               precision |-> Unset, dir |-> Unset, model |-> Unset, verified |-> FALSE,
               tried |-> {}, resume |-> "idle"]

DetectorsInit ==
    /\ cache = [p \in Precisions |-> [ir |-> Unset, marker |-> Unset, torn |-> FALSE]]
    /\ detector = NoDetector /\ answer = Unset /\ made = 0

-----------------------------------------------------------------------------
(* Construction.                                                           *)

\* The devices in the order in which they may be chosen.  A GPU asked for by
\* name gives way to the CPU only when the configuration says so.
Preference(c) ==
    CASE c.device = "cpu" -> <<"cpu">>
      [] c.device = "gpu" -> IF c.fallback THEN <<"gpu", "cpu">> ELSE <<"gpu">>
      [] c.device = "auto" -> <<"gpu", "cpu">>

\* PyTorch always has a CPU.
Offered(c, available) == IF c.backend \in {"yoloe", "segmentation"} THEN available \cup {"cpu"} ELSE available

Create(c, available) ==
    LET devices == Preference(c)
        usable  == {n \in DOMAIN devices : devices[n] \in Offered(c, available)} IN
    /\ detector.st = "none" /\ made < MaxDetectors
    /\ \E n \in usable :
         /\ \A m \in usable : n <= m
         /\ detector' = [NoDetector EXCEPT
               !.st = IF c.backend = "openvino" THEN "prepare" ELSE "load",
               !.config = c, !.available = Offered(c, available),
               !.target = devices[n], !.used = devices[n], !.precision = c.precision]
    /\ answer' = Unset
    /\ made' = made + 1
    /\ UNCHANGED cache

\* An exception leaves a constructor without a detector, and a call of detect()
\* with the detector as the steps before it left it, its model dropped.
Raised(d) == IF d.resume = "idle" /\ d.st # "predict" THEN NoDetector
             ELSE [d EXCEPT !.st = "idle", !.model = Unset, !.resume = "idle"]

Loads(used, verified) ==
    detector' = [detector EXCEPT !.st = "idle", !.used = used, !.verified = verified,
                    !.model = [precision |-> "fp32", size |-> detector.config.size]]

\* The model and its prompts; nothing is run.
LoadYoloE ==
    /\ detector.st = "load" /\ detector.config.backend = "yoloe"
    /\ Loads(detector.target, FALSE)
    /\ UNCHANGED <<cache, answer, made>>

\* A trial on the GPU, after which "auto" starts again on the CPU.
LoadSegmentation ==
    /\ detector.st = "load" /\ detector.config.backend = "segmentation"
    /\ \E used \in {detector.target} \cup (IF detector.config.device = "auto" THEN {"cpu"} ELSE {}) :
          Loads(used, TRUE)
    /\ UNCHANGED <<cache, answer, made>>

\* ONNX Runtime may give a session on the CPU to who asked for CUDA.
LoadOnnx ==
    /\ detector.st = "load" /\ detector.config.backend = "onnx"
    /\ \E used \in {detector.target, "cpu"} : Loads(used, TRUE)
    /\ UNCHANGED <<cache, answer, made>>

\* No file, no package, another task, a failed trial: everything is released.
LoadFails ==
    /\ detector.st = "load"
    /\ detector' = NoDetector
    /\ UNCHANGED <<cache, answer, made>>

-----------------------------------------------------------------------------
(* _prepare_ir_cache: on construction, and again on the fall back to FP32. *)
(* A configuration without a checkpoint names the FP16 directory itself.   *)

Wanted == [precision |-> detector.precision, size |-> detector.config.size]

CacheDirectory == IF detector.config.checkpoint THEN detector.precision ELSE "fp16"

\* What is checked is the marker: the model beside it is not looked into.
CacheIsValid(dir, wanted) == cache[dir].ir # Unset /\ cache[dir].marker = wanted

Prepared == [detector EXCEPT !.st = detector.resume, !.dir = CacheDirectory]

ReuseCache ==
    /\ detector.st = "prepare" /\ CacheIsValid(CacheDirectory, Wanted)
    /\ detector' = Prepared
    /\ UNCHANGED <<cache, answer, made>>

RefuseCache ==
    /\ detector.st = "prepare" /\ ~CacheIsValid(CacheDirectory, Wanted)
    /\ ~detector.config.checkpoint
    /\ detector' = Raised(detector)
    /\ UNCHANGED <<cache, answer, made>>

\* The exporter's files arrive in the directory; its marker is the old one.
Export ==
    /\ detector.st = "prepare" /\ ~CacheIsValid(CacheDirectory, Wanted)
    /\ detector.config.checkpoint
    /\ cache' = [cache EXCEPT ![CacheDirectory].ir = Wanted, ![CacheDirectory].torn = TRUE]
    /\ detector' = [detector EXCEPT !.st = "marker"]
    /\ UNCHANGED <<answer, made>>

\* So does a constructor whose checkpoint has to be downloaded and cannot.
ExportFails ==
    /\ detector.st = "prepare" /\ detector.config.checkpoint
    /\ ~CacheIsValid(CacheDirectory, Wanted) \/ detector.resume = "idle"
    /\ detector' = Raised(detector)
    /\ UNCHANGED <<cache, answer, made>>

WriteCacheMarker ==
    /\ detector.st = "marker"
    /\ cache' = [cache EXCEPT ![CacheDirectory].marker = Wanted, ![CacheDirectory].torn = FALSE]
    /\ detector' = Prepared
    /\ UNCHANGED <<answer, made>>

MarkerFails ==
    /\ detector.st = "marker"
    /\ detector' = Raised(detector)
    /\ UNCHANGED <<cache, answer, made>>

PrepareCache == ReuseCache \/ RefuseCache \/ Export \/ ExportFails \/ WriteCacheMarker \/ MarkerFails

-----------------------------------------------------------------------------
(* detect().                                                               *)

\* A frame that is no picture is refused before anything else is done.
RefuseFrame ==
    /\ detector.st = "idle"
    /\ answer' = Unset
    /\ UNCHANGED <<cache, detector, made>>

Detect ==
    /\ detector.st = "idle"
    /\ detector' = [detector EXCEPT !.st = "predict", !.resume = "idle",
                       !.tried = IF detector.config.backend = "openvino" THEN {} ELSE @]
    /\ answer' = Unset
    /\ UNCHANGED <<cache, made>>

\* OpenVINO loads the converted model when it needs it, and again after close().
Loaded == IF detector.model = Unset /\ detector.dir # Unset THEN cache[detector.dir].ir
          ELSE detector.model

ModelDoesNotLoad ==
    /\ detector.st = "predict" /\ detector.model = Unset
    /\ detector' = Raised(detector)
    /\ UNCHANGED <<cache, answer, made>>

\* What the results say; they may be of a shape the adapter cannot read.
Extracted(ran, readable) ==
    IF readable THEN [ran |-> ran, model |-> Loaded, config |-> detector.config] ELSE Unset

\* _verify_execution_devices; the other adapters trust the device they name.
Verified(ran) == detector.target \in ran

PredictOpenVINO(ran, readable) ==
    /\ detector.st = "predict" /\ detector.config.backend = "openvino" /\ Loaded # Unset
    /\ Verified(ran)
    /\ answer' = Extracted(ran, readable)
    /\ detector' = [detector EXCEPT !.st = "idle", !.model = Loaded, !.used = detector.target,
                       !.verified = TRUE]
    /\ UNCHANGED <<cache, made>>

PredictedByName(backend, readable) ==
    /\ detector.st = "predict" /\ detector.config.backend = backend /\ Loaded # Unset
    /\ answer' = Extracted({detector.used}, readable)
    /\ detector' = [detector EXCEPT !.st = "idle", !.verified = TRUE]
    /\ UNCHANGED <<cache, made>>

\* These run on the device that they name, and do not ask.
PredictYoloE(readable) == PredictedByName("yoloe", readable)
PredictSegmentation(readable) == PredictedByName("segmentation", readable)
PredictOnnx(readable) == PredictedByName("onnx", readable)

\* predict() raises, or the devices it ran on are not the one asked for.
MayFallToCpu ==
    detector.config.backend = "openvino" /\ detector.target = "gpu" /\ detector.config.fallback
    /\ "device" \notin detector.tried /\ "cpu" \in detector.available

MayFallToFp32 ==
    detector.config.backend = "openvino" /\ detector.target = "cpu" /\ detector.precision = "fp16"
    /\ "precision" \notin detector.tried /\ detector.config.checkpoint

\* YOLOE tries the CPU once in its life.
MayRetryOnCpu ==
    detector.config.backend = "yoloe" /\ detector.config.device = "auto" /\ detector.used = "gpu"
    /\ "device" \notin detector.tried

FallbackToCpu ==
    /\ detector.st = "predict" /\ Loaded # Unset
    /\ MayFallToCpu \/ MayRetryOnCpu
    /\ detector' = [detector EXCEPT !.tried = @ \cup {"device"}, !.used = "cpu",
                       !.target = IF MayFallToCpu THEN "cpu" ELSE @,
                       !.model = IF MayFallToCpu THEN Unset ELSE @]
    /\ UNCHANGED <<cache, answer, made>>

FallbackToFp32 ==
    /\ detector.st = "predict" /\ Loaded # Unset /\ MayFallToFp32
    /\ detector' = [detector EXCEPT !.tried = @ \cup {"precision"}, !.precision = "fp32",
                       !.model = Unset, !.st = "prepare", !.resume = "predict"]
    /\ UNCHANGED <<cache, answer, made>>

PredictFails ==
    /\ detector.st = "predict" /\ Loaded # Unset
    /\ ~MayFallToCpu /\ ~MayFallToFp32 /\ ~MayRetryOnCpu
    /\ detector' = IF detector.config.backend = "openvino" THEN Raised(detector)
                   ELSE [detector EXCEPT !.st = "idle"]
    /\ UNCHANGED <<cache, answer, made>>

Predict ==
    \/ \E ran \in (SUBSET Devices) \ {{}}, readable \in BOOLEAN : PredictOpenVINO(ran, readable)
    \/ \E readable \in BOOLEAN :
          PredictYoloE(readable) \/ PredictSegmentation(readable) \/ PredictOnnx(readable)
    \/ ModelDoesNotLoad \/ FallbackToCpu \/ FallbackToFp32 \/ PredictFails

-----------------------------------------------------------------------------
(* close(), of a detector that its owner may keep or drop, and the end of  *)
(* the process.                                                            *)

Closes(model, verified) ==
    /\ detector' = [detector EXCEPT !.model = model, !.verified = verified]
    /\ answer' = Unset
    /\ UNCHANGED <<cache, made>>

CloseOpenVINO ==
    /\ detector.st = "idle" /\ detector.config.backend = "openvino"
    /\ Closes(Unset, FALSE)

\* _release_resources.
CloseSegmentation ==
    /\ detector.st = "idle" /\ detector.config.backend = "segmentation"
    /\ Closes(Unset, FALSE)

CloseYoloE ==
    /\ detector.st = "idle" /\ detector.config.backend = "yoloe"
    /\ Closes(Unset, detector.verified)

\* The session is kept.
CloseOnnx ==
    /\ detector.st = "idle" /\ detector.config.backend = "onnx"
    /\ Closes(detector.model, detector.verified)

DropDetector ==
    /\ detector.st # "none"
    /\ detector' = NoDetector /\ answer' = Unset
    /\ UNCHANGED <<cache, made>>

DetectorsNext ==
    \/ \E c \in DetectorConfigs, available \in (SUBSET Devices) \ {{}} : Create(c, available)
    \/ LoadYoloE \/ LoadSegmentation \/ LoadOnnx \/ LoadFails
    \/ PrepareCache
    \/ RefuseFrame \/ Detect \/ Predict
    \/ CloseOpenVINO \/ CloseSegmentation \/ CloseYoloE \/ CloseOnnx
    \/ DropDetector

-----------------------------------------------------------------------------
DetectorsTypeOK ==
    /\ \A p \in Precisions : /\ {cache[p].ir, cache[p].marker} \subseteq Contents \cup {Unset}
                             /\ cache[p].torn \in BOOLEAN
    /\ detector.st \in {"none", "load", "prepare", "marker", "idle", "predict"}
    /\ detector.resume \in {"idle", "predict"}
    /\ detector.tried \subseteq {"device", "precision"}
    /\ {detector.target, detector.used} \subseteq Devices \cup {Unset}
    /\ made \in 0..MaxDetectors

\* A person who is reported was found on the device that the detector names, and
\* that is the device asked for unless the configuration lets the detector
\* choose or fall back; and by a model of the size asked for and of the precision
\* that the detector names, which is the one asked for, or FP32 on the CPU: a
\* converted model in a directory is used again only for the precision and the
\* size it was made for.  There are three exceptions.  ONNX Runtime may put on
\* the CPU a session asked for CUDA, which device_used tells.  The process or the
\* disk may fail between a model's files and its marker (torn).  And a fall back
\* to FP32 whose conversion fails leaves the detector with the directory of the
\* FP16 model, and with the name of the other.
DetectionsAreAsConfigured ==
    answer # Unset =>
        /\ detector.used \in answer.ran
        /\ answer.config.backend # "onnx" /\ answer.config.device # "auto" /\ ~answer.config.fallback =>
              detector.used = answer.config.device
        /\ answer.config.backend = "openvino" =>
              /\ \/ detector.precision = answer.config.precision
                 \/ detector.precision = "fp32" /\ detector.used = "cpu"
              /\ ~cache[detector.dir].torn =>
                    /\ answer.model.size = answer.config.size
                    /\ detector.dir = CacheDirectory => answer.model.precision = detector.precision

\* Not so: the marker "prevents an FP16/FP32 or input-size mismatch from silently
\* reusing a stale cache" (openvino.py:52).  The marker of the last conversion
\* stays while the next one replaces the files beside it: a conversion that is
\* cut short leaves a model of another size under a marker that is valid.
StaleCacheIsNotReused ==
    answer # Unset /\ answer.config.backend = "openvino" => answer.model.size = answer.config.size

\* Not so for the precision either, as the detector names it.  _fallback_to_fp32
\* says fp32 before the conversion is there; when it fails, the FP16 model is in
\* use under that name, and no further fall back is tried.
PrecisionIsTheModels ==
    answer # Unset /\ answer.config.backend = "openvino" => answer.model.precision = detector.precision

=============================================================================
