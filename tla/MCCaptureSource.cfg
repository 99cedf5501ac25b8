\* Two captures, one stop() caller, every interleaving: enough for a session,
\* its loss and a reconnect, or a stop and a restart, with a late capture.
\* No symmetry, because liveness is checked as well.
CONSTANTS
    Owner = owner
    Closers = {stopper}
    Attempts = {c1, c2}
    None = None
    MaxBuffer = 1
    MaxGeneration = 3
    MaxFrames = 2
SPECIFICATION Spec
INVARIANTS
    TypeOK
    SingleConstruction
    OneKeeper
    ConnectedHasReader
PROPERTIES
    FreshDelivery
    FramesInOrder
    ClosedSourceGoesQuiet
    LostSessionIsReported
