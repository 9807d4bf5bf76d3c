CONSTANTS
  c1 = c1
  c2 = c2
  Caller = {c1, c2}
  MaxRequests = 3
  MaxEvents = 1
SPECIFICATION MCSpec
INVARIANTS TypeOK OwnAnswer PendingIsTimed
PROPERTY BusyEnds
