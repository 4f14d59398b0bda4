SPECIFICATION FairSpec
CONSTANTS
  a = a
  b = b
  p1 = p1
  p2 = p2
  p3 = p3
  Vol <- TwoVolumes
  Pool <- ThreePools
  ReplicaCount <- CloneCount
  Source <- CloneSource
  Near <- CloneNear
  PolicyPools <- AnyPool
  MaxPolicy = 1
  SpecPolicy = {}
  MaxEdits = 0
  Workers = 2
  MaxFaults = 1
  FaultKinds <- EveryFault
INVARIANTS
  NoExtraReplicas
  BoundIsComplete
  CloneBesideSource
CHECK_DEADLOCK FALSE
