SPECIFICATION Spec
CONSTANTS
  CLUSTERS = 5
  FAT_COUNT = 2
  DIR_SLOTS = 2
  MAX_FILE_CLUSTERS = 2
  Names = {"A", "B"}
  MaxWrites = 3
INVARIANTS
  FilesAreWholeAndApart
  NothingIsLostUnlessStopped
PROPERTIES
  ImplementsFileStore
