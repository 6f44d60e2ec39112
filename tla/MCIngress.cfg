SPECIFICATION Spec
CONSTANTS
    t1 = t1
    t2 = t2
    home = home
    away = away
    n1 = n1
    n2 = n2
    none = none
    Empty = none
    Home = home
    Threads = {t1, t2}
    Namespaces = {n1, n2}
    ValidIdentifiers <- MCIdentifiers
    MAX_LIMIT = 2
    MIN_P0_REPLICAS = 5
    MAX_IN_FLIGHT = 5
    Registrations <- MCRegistrations
    Policies <- MCPolicies
    Snapshots <- MCSnapshots
    Requests <- MCRequests
    i1 = i1
    i2 = i2
    PublishIds = {i1, i2}
    FirstPolicy <- MCFirstPolicy
    FirstSnapshot <- MCFirstSnapshot
    Profiles <- MCProfiles
    FirstProfile <- MCFirstProfile
    MaxInFlight = 2
    ReservedP0 = 1
    MaxProducerInFlight = 2
    MaxQueued = 1
    MaxBytes = 3
    MaxNamespaceInFlight = 2
    MaxChanges = 2
INVARIANTS
    IngressTypeOK
    ReservedRoomKept
    AllowedByItsRules
    AdmittedWithinPolicy
    ProfileStaysP0Safe
SYMMETRY MCSymmetry
