\* Safety.  Service: two networks, two pipelines, one retry, a backlog of two.
\* Server: one client, a queue of two units or three bytes.  Packets: four
\* bytes behind the header, four sequence numbers.
SPECIFICATION AndroidSpec
CONSTANTS
    Parts = {"service", "server", "packets"}
    Networks = {n1, n2}
    Pipelines = {p1, p2}
    None = None
    MaxRetry = 1
    QueueBound = 2
    Clients = {k1}
    Nobody = Nobody
    MaxClients = 1
    Capacity = 2
    MaxQueueBytes = 3
    MaxSingleUnitBytes = 4
    Units <- MCUnits
    NoSets = NoSets
    Room = 4
    SequenceNumbers = 4
    AccessUnits <- MCAccessUnits
SYMMETRY Symmetry
INVARIANTS AndroidTypeOK OnePipeline StreamIsAskedFor ServerFollowsItsEncoder QueueKeepsItsPromise UnitsArriveWhole
