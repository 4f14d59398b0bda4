SPECIFICATION Spec
CONSTANTS
  p1 = p1
  p2 = p2
  p3 = p3
  Pool <- ThreePools
  Placements <- OneToThree
  MaxEdits = 3
  MaxFaults = 1
  FaultKinds <- RestartFaults
  Discipline <- FullDiscipline
SYMMETRY Alike
INVARIANTS
  MembersLive
  QuorumsOverlap
  DepartureIsRequested
  RestingVolumeIsGuarded
CHECK_DEADLOCK FALSE
