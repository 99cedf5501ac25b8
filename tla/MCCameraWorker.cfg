\* One controller, a second thread that may stop the worker, one restart.
CONSTANTS
    Starters = {ui}
    Stoppers = {helper}
    Runs = {t1, t2}
    None = None
    Limits <- MCLimits
    BaseDelay = 20
    MaxBuffer = 1
    MaxFrames = 2
    MaxReconnects = 2
SPECIFICATION Spec
INVARIANTS
    TypeOK
    OneThread
    StateIsTrue
    CountersAreTrue
PROPERTIES
    FailedIsFinal
    WorkerReleases
