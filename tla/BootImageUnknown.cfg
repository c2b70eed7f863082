SPECIFICATION Spec
CONSTANTS
    WORDS = 6
    BITS_PER_WORD = 8
    FRAME_SIZE = 2
    ADDRESS_MAX = 50000
    ENTRIES = 12
    MAX_CODE_SECTIONS = 1
    POINTER = 1
    CAPACITY = 7
    MAX_RUNTIME = 4
    DEFAULT_IDENTITY_LIMIT = 288
    HEAP_PAGES = 3
    HEAP_NEEDED = 2
    KERNEL_STACK_PAGES = 2
    DOUBLE_FAULT_STACK_PAGES = 1
    SYSCALL_STACK_PAGES = 1
    POOL_SAMPLE = 3
    Machines <- MCMachines
    Memories = {20, 32}
    Images = {"plain"}
    Screens = {"none", "low"}
    Maps = {"whole"}
    Telling = {FALSE}
INVARIANT OwnCodeRuns
CHECK_DEADLOCK FALSE
