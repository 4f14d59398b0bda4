SPECIFICATION FairSpec
CONSTANTS
  p1 = p1
  p2 = p2
  p3 = p3
  Pool <- TwoPools
  Placements <- One
  MaxEdits = 2
  MaxFaults = 2
  FaultKinds <- RetriedFaults
  Discipline <- FullDiscipline
PROPERTY RequestedReplicaJoins
CHECK_DEADLOCK FALSE
