SPECIFICATION AppSpec
CONSTANTS
    Cameras = {c1, c2}
    Edited = {c1}
    Absent = Absent
    MaxEdits = 2
    FocusCameras = {c1, c2}
    Nothing = Nothing
    Models = {m1}
    MaxChanges = 2
    MaxQueued = 1
    StoreCameras = {a1}
    Detection = detection
    FaceAnalysis = face
    Gallery = gallery
    Passwords = {p1, p2}
    Missing = Missing
    MaxSaves = 3
INVARIANTS AppTypeOK SlotsKeepTheirProviders InferenceFollowsProvider ModelsAreClosed
PROPERTIES BackendEnds ResultsAreCurrent FaceJoinsTracking StoreKeepsPromise
CHECK_DEADLOCK FALSE
