SPECIFICATION Spec
CONSTANTS
  c1 = c1
  c2 = c2
  m1 = m1
  m2 = m2
  d1 = d1
  d2 = d2
  d3 = d3
  h1 = h1
  h2 = h2
  h3 = h3
  Cluster <- TwoClusters
  Machine <- TwoMachines
  Disks <- TwoDisksAndOne
  Host = {h1, h2, h3}
  InitialName <- FirstNames
  InitialPools <- BothOnFirst
  Patient = TRUE
  EditKinds = {"add", "remove", "reselect", "delete", "cspi", "volume"}
  FaultKinds = {"call", "restart", "rename"}
  MaxEvents = 2
SYMMETRY Clusters
INVARIANTS
  OnePoolPerDevice
  PoolHoldsItsClaims
  GoneLeavesNothing
CHECK_DEADLOCK FALSE
