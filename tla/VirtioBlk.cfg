SPECIFICATION Spec
CONSTANTS
  s0 = s0
  s1 = s1
  v0 = v0
  v1 = v1
  v2 = v2
  SECTORS <- MCSectors
  BOOT = s0
  Values <- MCValues
  Volumes <- MCVolumes
  OurVolumes <- MCOurVolumes
  Data <- MCData
  QueueSizes = {2, 4, 8}
  QUEUE_SIZE = 4
  INDEXES = 8
  POLL_LIMIT = 1
  MaxRequests = 10
  MaxOverlapping = 4
INVARIANTS
  OkIsTrue
  AnsweredMeansFinished
PROPERTIES
  OnlyWhatWasAsked
  EveryCallReturns
CHECK_DEADLOCK FALSE
