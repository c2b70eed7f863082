SPECIFICATION FairSpec
CONSTANTS
  MAX_PROCESSES = 3
  CAPACITY = 1
INVARIANTS
  EveryFlowIsHeld
  RunsAsItself
  WaitsOnlyForMail
  KernelComesBackLast
  IInv
PROPERTIES
  ImplementsProcesses
  EveryTurnComes
