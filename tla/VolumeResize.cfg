SPECIFICATION FairSpec
CONSTANTS
  ProvisionedCap = 1
  MaxCap = 3
  MaxFaults = 3
  FaultKinds <- RetriedFaults
  ExpandWhilePending = FALSE
INVARIANTS
  TypeOK
  AnnouncedIsConfigured
PROPERTIES
  OneResizeAtATime
  NoCapacityShrinks
  KeepsPromise
  ResizeCompletes
