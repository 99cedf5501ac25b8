SPECIFICATION NodeSpec
CONSTANTS
    Parts <- AllParts
    People = {"ann"}
    None = None
    MaxMissed = 1
    MinConfirmations = 2
    Configurations <- MCConfigurations
    MaxTracks = 2
    MaxDetections = 1
    WarmUp = 1
    EventKeys = {k1, k2}
    Closers = {c1, c2}
    Nobody = Nobody
    Cooldown = 1
    QueueSize = 1
    MaxEvents = 3
    MaxTime = 1
    ImageSizes = {320, 640}
    Unset = Unset
    MaxDetectors = 3
    Machines <- MCMachines
    Asked = {"auto", "gpu", "cuda"}
    Flaky = {"0009"}
    NoModel = NoModel
    MaxFaces = 1
    Persons = {q1, q2}
    Faces = {f1, f2}
    Accepted <- MCAccepted
    Trees <- MCTrees
    NoRoot = NoRoot
    NoFile = NoFile
    MaxOperations = 2
    MaxBuilds = 1
    MaxRestarts = 1
INVARIANTS NodeTypeOK TrackingAgrees IdentityIsConfirmed ReconnectNoticedFirst
           SnapshotPromiseKept RepeatsAreSpaced ModelsAreAsConfigured GalleryFollowsStore
PROPERTIES ProcessingEnds
CHECK_DEADLOCK FALSE
