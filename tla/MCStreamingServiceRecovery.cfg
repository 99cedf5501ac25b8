\* Expected violation of RecoveryIsNotDropped.
SPECIFICATION Spec
CONSTANTS
    Networks = {n1, n2}
    Pipelines = {p1, p2}
    None = None
    MaxRetry = 1
    QueueBound = 2
SYMMETRY Symmetry
INVARIANT RecoveryIsNotDropped
