\* One controller that stops the worker and starts it again.
CONSTANTS
    Starters = {ui}
    Stoppers = {}
    Runs = {t1, t2}
    None = None
    Limits = {0}
    BaseDelay = 20
    MaxBuffer = 1
    MaxFrames = 1
    MaxReconnects = 1
SPECIFICATION Spec
PROPERTIES
    StartWhileStoppingRaises
