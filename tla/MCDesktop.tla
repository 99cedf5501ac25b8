------------------------------- MODULE MCDesktop -------------------------------
(***************************************************************************)
(* The desktop application: its main thread, its inference controllers and *)
(* its configuration files.  The three modules share no state, so that one *)
(* behaviour is about one of them, part.                                   *)
(***************************************************************************)
EXTENDS Desktop, DesktopInference, CameraStore

VARIABLE part

appVars == <<part, desktopVars, infVars, storeVars>>

AppInit ==
    /\ part \in {"main", "inference", "store"}
    /\ DesktopInit /\ InferenceInit /\ StoreInit
    /\ part /= "main" => frontend = "qt" /\ \A c \in Cameras : monitor.slots[c].on
    /\ part /= "store" => /\ local = Missing /\ sidecar = [c \in StoreCameras |-> Missing]
                           /\ cards = Missing

AppNext ==
    /\ UNCHANGED part
    /\ \/ part = "main" /\ DesktopNext /\ UNCHANGED <<infVars, storeVars>>
       \/ part = "inference" /\ InferenceNext /\ UNCHANGED <<desktopVars, storeVars>>
       \/ part = "store" /\ StoreNext /\ UNCHANGED <<desktopVars, infVars>>

\* The fairness of the modules that have one, each for its own part.
AppFairness ==
    /\ WF_desktopVars(part = "main" /\ Leaves)
    /\ WF_infVars(part = "inference" /\ PersonThread)
    /\ WF_infVars(part = "inference" /\ FaceThread)

AppSpec == AppInit /\ [][AppNext]_appVars /\ AppFairness

\* The variables of every part keep their types and bounds.
AppTypeOK == DesktopTypeOK /\ InferenceTypeOK /\ StoreTypeOK

=============================================================================
