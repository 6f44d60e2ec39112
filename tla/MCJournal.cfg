SPECIFICATION JournalSpec
CONSTANTS
    EventIds = {e1, e2}
    Streams = {s1, s2}
    Producers = {p1}
    Fingerprints = {f1, f2}
    Routes = {r1}
    Requests <- MCRequests
    MAX_ATTEMPTS = 1
    MAX_DELIVERY_ATTEMPTS = 1
    MaxRevision = 3
    MaxAttemptCount = 2
    MaxPosition = 2
SYMMETRY MCSymmetry
INVARIANTS
    StreamSequencesDense
    JournalOrderIsStreamOrder
    ProducerOrder
    JournalTypeOK
    ReplicatedIsConfirmed
    AttemptHistoryMatches
PROPERTIES
    RetryIsDuplicate
    AcceptedIsPermanent
    ConfirmationIsFinal
