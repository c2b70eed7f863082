SPECIFICATION Spec
CONSTANTS
  p1 = p1
  p2 = p2
  Procs <- MCProcs
  ShortNames = {"A", "B"}
  Dots = {FALSE}
  MAX_OPEN = 2
  DIR_SLOTS = 3
  CHAINS = 3
  MaxSize = 1
  MaxWrites = 3
SYMMETRY Symmetry
INVARIANTS
  OpenFilesDoNotChange
  OnlyTheLivingHoldFiles
  ListingMissesNothing
CHECK_DEADLOCK FALSE
