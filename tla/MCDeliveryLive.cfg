SPECIFICATION FairSpec
CONSTANTS
    e1 = e1
    e2 = e2
    e3 = e3
    s1 = s1
    s2 = s2
    p1 = p1
    f1 = f1
    EventIds = {e1, e2}
    Streams = {s1}
    Producers = {p1}
    Fingerprints = {f1}
    Routes = {r1, r2}
    Requests <- MCPair
    MAX_ATTEMPTS = 1
    MAX_DELIVERY_ATTEMPTS = 1
    MaxRevision = 0
    MaxAttemptCount = 0
    MaxPosition = 9
    Services = {d1}
    NoEvent = NoEvent
    StreamKey <- MCDistinctKeys
    UnsafeRoutes = {r2}
    ScanLimit = 1
    MAX_RETRY_ATTEMPTS = 2
    InOrderPending = TRUE
    Repairable = {}
    FaultPoints = {"payload", "topic", "confirm"}
    MaxFaults = 1
    MaxCrashes = 1
INVARIANTS
    GateOpensInOrder
PROPERTIES
    DeliverySettles
