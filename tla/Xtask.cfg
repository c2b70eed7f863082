SPECIFICATION Spec
CONSTANTS
  CELLS = 8
  RESERVED_SECTORS = 4
  FAT_COUNT = 2
  BACKUP_BOOT_SECTOR = 2
  FAT32_MINIMUM_CLUSTERS = 12
  FIRST_USABLE = 8
  ENTRY_SECTORS = 2
  Words <- MCWords
  Commands <- MCCommands
  TIMEOUT = 1
  DURATION = 4
  MIN_TICKS = 2
  MIN_ROUNDS = 2
  MAX_PROGRESS_SILENCE = 2
  RESETS_AT_START = 1
  MAX_RESETS = 1
INVARIANTS
  DiskReadsBack
  StickBoots
  VerdictIsTrue
CHECK_DEADLOCK FALSE
