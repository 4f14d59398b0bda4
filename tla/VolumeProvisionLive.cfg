SPECIFICATION FairSpec
CONSTANTS
  a = a
  b = b
  p1 = p1
  p2 = p2
  p3 = p3
  Vol = {a}
  Pool <- ThreePools
  ReplicaCount <- OneCount
  Source <- OneSource
  Near <- NoNear
  PolicyPools <- AnyPool
  MaxPolicy = 1
  SpecPolicy = {0, 1}
  MaxEdits = 3
  Workers = 2
  MaxFaults = 2
  FaultKinds <- AllFaults
INVARIANTS
  HashMeansPatched
PROPERTIES
  PendingIsProvisioned
  DeletedIsCleaned
CHECK_DEADLOCK FALSE
