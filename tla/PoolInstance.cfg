CONSTANTS
  d1 = d1
  d2 = d2
  d3 = d3
  d4 = d4
  NoBD = NoBD
  BD <- FourDevices
  InitialGroups <- OneMirror
  Striped = FALSE
  Migrated = {TRUE, FALSE}
  ScanLag = FALSE
  BlankVdev = FALSE
  EditKinds = {"replace", "expand", "delete", "fill", "compress"}
  FaultKinds = {"call", "zpool", "container", "manager", "pod"}
  MaxEvents = 2
SPECIFICATION FairSpec
INVARIANTS ReplacedDeviceClaimed NamedDeviceStays
PROPERTIES ReportedPoolKept PoolFollowsSpec DeletedIsReleased
CHECK_DEADLOCK FALSE
