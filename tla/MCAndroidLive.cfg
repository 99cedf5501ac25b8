\* Liveness: as the safety run with a backlog of one, a queue of one and key
\* frames alone, without symmetry.
SPECIFICATION AndroidSpec
CONSTANTS
    Parts = {"service", "server"}
    Networks = {n1, n2}
    Pipelines = {p1, p2}
    None = None
    MaxRetry = 1
    QueueBound = 1
    Clients = {k1}
    Nobody = Nobody
    MaxClients = 1
    Capacity = 1
    MaxQueueBytes = 2
    MaxSingleUnitBytes = 4
    Units <- MCKeyFrames
    NoSets = NoSets
    Room = 4
    SequenceNumbers = 4
    AccessUnits = {}
PROPERTIES WaitingEnds FailedPipelineIsGivenUp ClientsAreReleased
