SPECIFICATION Spec
CONSTANTS
  WORDS = 9
  BITS_PER_WORD = 4
  FRAME_SIZE = 1
  ADDRESS_MAX = 64
  PROGRAMS = 1
  MAX_PROCESSES = 4
  SYSCALL_STACK_PAGES = 2
  MAX_FRAMES = 3
  MaxPages = 3
  MemorySizes = {36}
INVARIANT AssertionsHold
CHECK_DEADLOCK FALSE
