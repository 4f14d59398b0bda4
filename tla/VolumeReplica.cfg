SPECIFICATION FairSpec
CONSTANTS
  s1 = s1
  Snap <- OneSnap
  Origins = {"new", "scaleup", "restore", "clone"}
  ImportLag = FALSE
  EditKinds = {"snapshot", "unsnapshot", "delete"}
  FaultKinds = {"call", "zfs", "container", "manager", "pool"}
  MaxEvents = 2
INVARIANTS
  GoneIsDestroyed
PROPERTIES
  RecreatedWithoutQuorum
  CVRFollowsReplica
CHECK_DEADLOCK FALSE
