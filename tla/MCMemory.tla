------------------------------ MODULE MCMemory ------------------------------
(***************************************************************************)
(* The parts of the system that deal in memory, side by side on small      *)
(* instances: the frame allocator by itself, the boot, the memory of       *)
(* processes, and the loader of programs.  A behaviour is a behaviour of   *)
(* one part; the variables of the others are 0.  The loader is extended    *)
(* and takes its constants from the configuration; the constants of the    *)
(* others are given here.                                                  *)
(***************************************************************************)
EXTENDS ElfProgram

VARIABLES
    part,
    a,                                          \* FrameAllocator and ProcessMemory
    out,                                        \* FrameAllocator
    kernel, entries, stack_area, next_stack, slots, which, started,
    free_before_any_process, unlucky,           \* ProcessMemory
    machine, info, t, window, heap, stacks, uses, moved, own_tables     \* BootMemory

OfPool == <<out>>
OfProcesses == <<kernel, entries, stack_area, next_stack, slots, which, started,
                 free_before_any_process, unlucky>>
OfBoot == <<machine, info, t, window, heap, stacks, uses, moved, own_tables>>
OfLoader == <<length, table, left, segments, entry, at, pages, memory, owned, taken>>

memoryVars == <<part, a, pc, OfPool, OfProcesses, OfBoot, OfLoader>>

-----------------------------------------------------------------------------
(* Two words of two frames, two address units to a frame, and every map of *)
(* one or two regions that start and end anywhere in it, past its end      *)
(* included.                                                               *)
PoolRegions ==
    [start : 0 .. 6, pages : {1, 3}, kind : {"Usable", "BootServices", "Reserved"}]
PoolMaps == {{r, q} : r \in PoolRegions, q \in PoolRegions}

Pool == INSTANCE FrameAllocator
    WITH WORDS <- 2, BITS_PER_WORD <- 2, FRAME_SIZE <- 2, ADDRESS_MAX <- 11,
         Maps <- PoolMaps, Uses <- {"Heap", "Kernel"}

\* Three programs and a shell, in every amount of memory that is too little
\* for the first or the second, and some from there to enough for all.
Processes == INSTANCE ProcessMemory
    WITH WORDS <- 9, BITS_PER_WORD <- 4, FRAME_SIZE <- 1, ADDRESS_MAX <- 64,
         PROGRAMS <- 3, MAX_PROCESSES <- 3, SYSCALL_STACK_PAGES <- 2, MAX_FRAMES <- 3,
         MaxPages <- 3, MemorySizes <- 2 .. 8 \cup {11, 16, 22, 36}

Small == INSTANCE SmallMachines
    WITH WORDS <- 6, BITS_PER_WORD <- 8, FRAME_SIZE <- 2, ADDRESS_MAX <- 50000, ENTRIES <- 12,
         Memories <- 0 .. 22 \cup {32},
         Images <- {"plain", "no_headers", "many_sections", "not_relocatable", "outside",
                    "other_kind", "cut"},
         Screens <- {"none", "low"},
         Maps <- {"whole", "no_runtime_code", "truncated", "overflowing"},
         Telling <- {TRUE}

Boot == INSTANCE BootMemory
    WITH WORDS <- 6, BITS_PER_WORD <- 8, FRAME_SIZE <- 2, ADDRESS_MAX <- 50000, ENTRIES <- 12,
         MAX_CODE_SECTIONS <- 1, POINTER <- 1, CAPACITY <- 7, MAX_RUNTIME <- 4,
         DEFAULT_IDENTITY_LIMIT <- 288, HEAP_PAGES <- 3, HEAP_NEEDED <- 2,
         KERNEL_STACK_PAGES <- 2, DOUBLE_FAULT_STACK_PAGES <- 1, SYSCALL_STACK_PAGES <- 1,
         POOL_SAMPLE <- 3,
         Machines <- Small!MachinesWithin([capacity |-> 7, limit |-> 288])

ASSUME MemoryConstants ==
    /\ Pool!PoolAssumption
    /\ Processes!BitmapAssumption /\ Processes!MemoryAssumption
    /\ Boot!BitmapAssumption /\ Boot!TablesAssumption /\ Boot!BootAssumption

-----------------------------------------------------------------------------
NoPool == out = 0
NoProcesses ==
    /\ kernel = 0 /\ entries = 0 /\ stack_area = 0 /\ next_stack = 0 /\ slots = 0
    /\ which = 0 /\ started = 0 /\ free_before_any_process = 0 /\ unlucky = 0
NoBoot ==
    /\ machine = 0 /\ info = 0 /\ t = 0 /\ window = 0 /\ heap = 0 /\ stacks = 0
    /\ uses = 0 /\ moved = 0 /\ own_tables = 0
NoLoader ==
    /\ length = 0 /\ table = 0 /\ left = 0 /\ segments = 0 /\ entry = 0 /\ at = 0
    /\ pages = 0 /\ memory = 0 /\ owned = 0 /\ taken = 0

MemoryInit ==
    \/ part = "pool" /\ Pool!Init /\ pc = 0 /\ NoProcesses /\ NoBoot /\ NoLoader
    \/ part = "processes" /\ Processes!Init /\ NoPool /\ NoBoot /\ NoLoader
    \/ part = "boot" /\ Boot!Init /\ a = 0 /\ NoPool /\ NoProcesses /\ NoLoader
    \/ part = "loader" /\ Init /\ a = 0 /\ NoPool /\ NoProcesses /\ NoBoot

\* The boot, the rounds of processes and a load come to an end, and nowhere
\* else; the allocator always has something left to do.
Over ==
    /\ \/ part = "processes" /\ pc \in {"kernel_shell", "panicked"}
       \/ part = "boot" /\ pc \in {"up", "panic", "firmware_shell"}
       \/ part = "loader" /\ pc \in {"ready", "refused"}
    /\ UNCHANGED memoryVars

MemoryNext ==
    \/ /\ part = "pool" /\ Pool!Next
       /\ UNCHANGED <<part, pc, OfProcesses, OfBoot, OfLoader>>
    \/ /\ part = "processes" /\ Processes!Next
       /\ UNCHANGED <<part, OfPool, OfBoot, OfLoader>>
    \/ /\ part = "boot" /\ Boot!Next
       /\ UNCHANGED <<part, a, OfPool, OfProcesses, OfLoader>>
    \/ /\ part = "loader" /\ Next
       /\ UNCHANGED <<part, a, OfPool, OfProcesses, OfBoot>>
    \/ Over

MemorySpec == MemoryInit /\ [][MemoryNext]_memoryVars

-----------------------------------------------------------------------------
(* The properties, each of its part.                                       *)

\* The frame allocator's pool, count and labels agree over every sequence of
\* calls (FrameAllocator).
PoolIsSound == part = "pool" => Pool!PoolIsSound

\* No frame serves two processes, or a process and the kernel (ProcessMemory).
NoFrameServesTwo == part = "processes" => Processes!NoFrameServesTwo

\* A live process's tables map its own memory only (ProcessMemory).
MapsOnlyItsOwn == part = "processes" => Processes!MapsOnlyItsOwn

\* After the first round `run` has the frames it started with (ProcessMemory).
EverythingComesBack == part = "processes" => Processes!EverythingComesBack

\* At every step of the boot what the kernel uses is mapped as it uses it
\* (BootMemory).
WhatIsInUseIsMapped == part = "boot" => Boot!WhatIsInUseIsMapped

\* No frame in use is one the allocator would hand out (BootMemory).
NothingInUseIsFree == part = "boot" => Boot!NothingInUseIsFree

\* Nothing is writable and executable that need not be (BootMemory).
RightsAreTight == part = "boot" => Boot!RightsAreTight

\* When the boot is over every frame's label is true (BootMemory).
LabelsTellTheTruth == part = "boot" => Boot!LabelsTellTheTruth

\* No file makes `parse` or `load` index past an end, and a program that is
\* ready is what its file describes (ElfProgram).
ProgramIsAsDescribed == part = "loader" => NeverPanics /\ LoadedAsDescribed
=============================================================================
