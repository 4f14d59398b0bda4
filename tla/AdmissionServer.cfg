SPECIFICATION FairSpec
CONSTANTS
    Pod = {p1, p2}
    Current <- Release
    Earlier <- EarlierReleases
    PolicyEnv = "unset"
    Calm = TRUE
    MaxFaults = 2
    MaxRemovals = 2
INVARIANTS ServersAreTrusted RemovedLeavesNoConfig ClonedSourceKept
PROPERTY ServersSettle
