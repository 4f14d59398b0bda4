SPECIFICATION FairRestoreSpec
CONSTANTS
  p1 = p1  p2 = p2  s1 = s1  s2 = s2
  Pools <- TwoPools
  Snaps <- TwoSnaps
  Full = Full
  Versions <- Uniform
  Careful = TRUE
  Together = FALSE
  ReadyLag = FALSE
  FaultKinds = {"call", "write", "read", "net", "manager"}
  MaxEvents = 5
INVARIANTS DoneIsDone LastSnapHeld
PROPERTIES OutcomesStay RequestsEnd
CHECK_DEADLOCK FALSE
