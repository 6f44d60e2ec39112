\* Two plugin threads, two events and tracking for one of them.
SPECIFICATION TrackingSpec
CONSTANTS
  t1 = t1
  t2 = t2
  e1 = e1
  e2 = e2
  p1 = p1
  p2 = p2
  Threads = {t1, t2}
  Events = {e1, e2}
  Payloads = {p1, p2}
  MaxPendingPublishes = 1
  AgentCapacity = 1
  InFlightLimit = 2
  MaxHandles = 3
SYMMETRY Symmetry
INVARIANTS
  TrackingTypeOK
  SequenceNotShared
  RetryRepeatsRequest
  TrackedHasOwner
  AcceptedIsStored
