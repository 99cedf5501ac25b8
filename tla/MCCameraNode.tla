------------------------------ MODULE MCCameraNode ------------------------------
(***************************************************************************)
(* The parts of one camera's analysis around the worker: the runtime with  *)
(* its tracking, the event manager, the person detectors, the face models, *)
(* the gallery.  They share no state, so that one behaviour is about one   *)
(* of them, part.                                                          *)
(***************************************************************************)
EXTENDS CameraRuntime, Events, PersonDetectors, FaceModels, FaceGallery, TLC

CONSTANT Parts   \* the parts that a behaviour may be about

VARIABLE part

AllParts == {"runtime", "events", "detectors", "faces", "gallery"}

ASSUME NodeAssumption == Parts \subseteq AllParts

MCConfigurations == {[motion |-> TRUE, faces |-> FALSE, reconnects |-> 1],
                     [motion |-> FALSE, faces |-> TRUE, reconnects |-> 0]}

\* One machine with two accelerators and one with neither OpenVINO nor CUDA.
MCMachines == {("onnxruntime" :> {"cpu", "cuda"}) @@ ("openvino" :> {"gpu"}) @@ ("opencv_dnn" :> {"cpu"}),
               ("onnxruntime" :> {"cpu"}) @@ ("openvino" :> {}) @@ ("opencv_dnn" :> {"cpu"})}

\* An enrolment accepts no image, all of them, or all but one; an imported
\* tree holds images of one person.
MCAccepted == {{}, Faces} \cup {{f} : f \in Faces \ {CHOOSE f \in Faces : TRUE}}
MCTrees == {[p \in Persons |-> IF p = CHOOSE q \in Persons : TRUE THEN "images" ELSE "empty"]}

nodeVars == <<part, runtimeVars, eventVars, detectorVars, faceVars, galleryVars>>

\* A part that is not the behaviour's keeps one initial state.
NodeInit ==
    /\ part \in Parts
    /\ RuntimeInit /\ EventsInit /\ DetectorsInit /\ FacesInit /\ GalleryInit
    /\ part /= "runtime" => ~config.motion
    /\ part /= "faces" => machine = CHOOSE m \in Machines : TRUE
    /\ part /= "gallery" => people = [p \in Persons |-> NoFile] /\ root = NoRoot

NodeNext ==
    /\ UNCHANGED part
    /\ \/ part = "runtime" /\ RuntimeNext /\ UNCHANGED <<eventVars, detectorVars, faceVars, galleryVars>>
       \/ part = "events" /\ EventsNext /\ UNCHANGED <<runtimeVars, detectorVars, faceVars, galleryVars>>
       \/ part = "detectors" /\ DetectorsNext /\ UNCHANGED <<runtimeVars, eventVars, faceVars, galleryVars>>
       \/ part = "faces" /\ FacesNext /\ UNCHANGED <<runtimeVars, eventVars, detectorVars, galleryVars>>
       \/ part = "gallery" /\ GalleryNext /\ UNCHANGED <<runtimeVars, eventVars, detectorVars, faceVars>>

NodeSpec == NodeInit /\ [][NodeNext]_nodeVars /\ RuntimeFairness

\* The variables of every part keep their types and bounds.
NodeTypeOK == RuntimeTypeOK /\ EventsTypeOK /\ DetectorsTypeOK /\ FacesTypeOK /\ GalleryTypeOK

\* A model that runs is the one that its configuration asks for: the person
\* detector by its device, its precision and the size of its input, within the
\* exceptions that DetectionsAreAsConfigured names; each face model by its
\* runtime, its device, a probe that passed and the contract of its file; and
\* a face has a name only with landmarks and a threshold.
ModelsAreAsConfigured == DetectionsAreAsConfigured /\ FacesAreAsConfigured

=============================================================================
