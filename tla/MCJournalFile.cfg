SPECIFICATION Spec
CONSTANTS
    p1 = p1
    p2 = p2
    e1 = e1
    e2 = e2
    None = None
    Damaged = Damaged
    Procs <- MCProcs
    Events <- MCEvents
    Delivered <- MCDelivered
    META_TABLE = "journal_meta"
    SCHEMA_SQL <- MCSchema
    SCHEMA_V2_SQL <- MCSchemaV2
    SCHEMA_VERSION = 2
    MAX_RETRY_ATTEMPTS = 3
    BASE_BACKOFF_MS = 1
    MAX_BACKOFF_MS = 2
    MaxTime = 1
    MaxDamage = 1
    MaxLifecycle = 2
    MaxAttempts = 2
    MaxStops = 1
SYMMETRY Symmetry
INVARIANTS
    SchemaIsReady
    VerifiedIsWritten
    ServedPayloadIsAccepted
    UnverifiedIsExplained
    RetryWaits
PROPERTIES
    FutureFileUntouched
CHECK_DEADLOCK FALSE
