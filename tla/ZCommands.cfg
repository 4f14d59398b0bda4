SPECIFICATION Spec
CONSTANTS
  Command <- EveryCommand
  MaxList = 2
  AllSettings = FALSE
INVARIANT ReadAsMeant
