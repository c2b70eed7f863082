SPECIFICATION Spec
CONSTANTS
  BUSES = 2
  DEVICES_PER_BUS = 2
  FUNCTIONS_PER_DEVICE = 3
  MAX_DEVICES = 3
  CAPABILITY_LIMIT = 5
  ROOM = 11
  KINDS = 2
  MaxBoots = 2
  Machines <- MCMachines
INVARIANTS
  ReportStandsAlone
CHECK_DEADLOCK FALSE
