SPECIFICATION MemorySpec
CONSTANTS
  WORD_MAX = 7
  PAGE_SIZE = 2
  USER_SPACE_END = 6
  STACK_BASE = 4
  HEADER_BYTES = 1
  PROGRAM_HEADER_BYTES = 1
  MAX_SEGMENTS = 2
  MAX_FRAMES = 3
  FileLengths = {0, 3}
  FileOffsets = {1, 3}
  MaxCount = 3
INVARIANTS
  PoolIsSound
  NoFrameServesTwo
  MapsOnlyItsOwn
  EverythingComesBack
  WhatIsInUseIsMapped
  NothingInUseIsFree
  RightsAreTight
  LabelsTellTheTruth
  ProgramIsAsDescribed
