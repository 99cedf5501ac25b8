\* One client, a queue of two units or three bytes, which is a key frame and a unit
\* that depends on it.
SPECIFICATION AndroidSpec
CONSTANTS
    Parts = {"server"}
    Networks = {n1, n2}
    Pipelines = {p1, p2}
    None = None
    MaxRetry = 1
    QueueBound = 2
    Clients = {k1}
    Nobody = Nobody
    MaxClients = 1
    Capacity = 2
    MaxQueueBytes = 3
    MaxSingleUnitBytes = 4
    Units <- MCUnits
    NoSets = NoSets
    Room = 4
    SequenceNumbers = 4
    AccessUnits <- MCAccessUnits
PROPERTY LostKeyDiscardsDependents
