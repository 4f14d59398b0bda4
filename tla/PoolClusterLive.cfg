SPECIFICATION FairSpec
CONSTANTS
  c1 = c1
  c2 = c2
  m1 = m1
  m2 = m2
  d1 = d1
  d2 = d2
  d3 = d3
  h1 = h1
  h2 = h2
  h3 = h3
  Cluster <- OneCluster
  Machine <- TwoMachines
  Disks <- OneDiskEach
  Host = {h1, h2, h3}
  InitialName <- FirstNames
  InitialPools <- OnBoth
  Patient = TRUE
  EditKinds = {"add", "remove", "reselect", "tune", "delete", "cspi"}
  FaultKinds = {"call", "restart", "rename"}
  MaxEvents = 2
PROPERTIES
  WantedPoolKept
  PoolsFollowSpec
  DeletedCSPCGoes
CHECK_DEADLOCK FALSE
