SPECIFICATION ServicesSpec
CONSTANTS
  EVENTS = 2
  LINE = 2
  MAX_FILE = 5
  BOOT_COLUMN = 2
  MaxStarts = 3
  MaxWritten = 3
INVARIANTS
  LogTellsEverything
  StartsAreToldApart
  HeapIsSound
  DoubleFreeIsSeen
  RingHoldsWhatArrived
  KeysAreWhatWasTyped
  InventoryIsTrue
  DiskIsTheOneThere
  NothingIsInterruptedInside
  EveryInterruptIsAnswered
PROPERTIES
  LogForgetsForRoom
