SPECIFICATION Spec
CONSTANTS
    e1 = e1
    e2 = e2
    e3 = e3
    s1 = s1
    s2 = s2
    p1 = p1
    f1 = f1
    EventIds = {e1, e2, e3}
    Streams = {s1}
    Producers = {p1}
    Fingerprints = {f1}
    Routes = {r1}
    Requests <- MCOneStream
    MAX_ATTEMPTS = 1
    MAX_DELIVERY_ATTEMPTS = 1
    MaxRevision = 0
    MaxAttemptCount = 0
    MaxPosition = 3
    Services = {d1}
    NoEvent = NoEvent
    StreamKey <- MCDistinctKeys
    UnsafeRoutes = {}
    ScanLimit = 3
    MAX_RETRY_ATTEMPTS = 2
    InOrderPending = TRUE
    Repairable = {e1}
    FaultPoints = {"payload", "topic", "confirm", "record", "retry", "block"}
    MaxFaults = 1
    MaxCrashes = 1
INVARIANTS
    PublishedAfterConfirmed
    GateOpensInOrder
    ConfirmedAtPosition
    ReportedIsDurable
    RowsAgree
PROPERTIES
    ImplementsStreamDelivery
