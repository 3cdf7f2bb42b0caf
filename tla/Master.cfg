SPECIFICATION FairSpec
CONSTANTS
  d1 = d1
  d2 = d2
  n1 = n1
  n2 = n2
  Requests = {r1, r2}
  Inputs <- SomeInputs
  Ids = {d1, d2}
  Names = {n1, n2}
  Reserved = {}
  PoolSize = 2
  MaxRequests = 4
  None = None
INVARIANTS RecordsInv ClashesOverlapped
PROPERTIES EveryRequestEnds
CHECK_DEADLOCK FALSE
