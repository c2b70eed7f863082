----------------------------- MODULE MCServices -----------------------------
(***************************************************************************)
(* The kernel's services, side by side on small instances: the event log,  *)
(* the heap, the keyboard, the discovery of devices, and interrupts.  A    *)
(* behaviour is a behaviour of one part; the variables of the others are   *)
(* 0.  The event log is extended and takes its constants from the          *)
(* configuration; the constants of the others are given here.              *)
(***************************************************************************)
EXTENDS EventLog

VARIABLES
    part,
    head, live,                                         \* of more than one part
    start, end, free, hole,                             \* Heap
    output, irq, sent, slots, tail, producer, byte, drained, seen_head,
    consumer, scancode, decoder, arrived, taken, keys,  \* Keyboard
    machine, space, report, stick, wrote, devices, shown, disk, mapped,     \* Discovery
    flag, flow, stack, pic, idt, home, stage, locked, console, open, raised,
    ticks, ops, spoiled, panicked, astray               \* Interrupts

OfEvents == <<lines, written, flushed, boot, log, before, mine, old, failed, misread, starts>>
OfHeap == <<start, end, free, hole>>
OfKeyboard == <<output, irq, sent, slots, tail, producer, byte, drained, seen_head,
                consumer, scancode, decoder, arrived, taken, keys>>
OfDiscovery == <<machine, space, report, stick, wrote, devices, shown, disk, mapped>>
OfInterrupts == <<flag, flow, stack, pic, idt, home, stage, locked, console, open, raised,
                  ticks, ops, spoiled, panicked, astray>>

servicesVars == <<part, head, live, pc, boots,
                  OfEvents, OfHeap, OfKeyboard, OfDiscovery, OfInterrupts>>

-----------------------------------------------------------------------------
\* Granules of two bytes; regions that do and do not start and end on a
\* granule, and some too small to hold one.
Heap == INSTANCE Heap
    WITH GRANULE <- 2, Regions <- [start : {2, 3}, size : {0, 2, 13, 14}],
         Layouts <- [size : {0, 3, 6}, align : {1, 4}]

\* Enough codes for both shifts, extended keys and letters to meet.
Keyboard == INSTANCE Keyboard
    WITH CAPACITY <- 2, INDEXES <- 4, DRAIN_LIMIT <- 2, MaxCodes <- 5,
         Codes <- [make : {"LeftShift"}, released : BOOLEAN]
                  \cup [make : {"Prefix", "Letter"}, released : {FALSE}]

\* A report that some machines overflow, a scan that keeps three functions
\* and a list that may loop.
Small == INSTANCE SmallBuses
    WITH BUSES <- 2, DEVICES_PER_BUS <- 2, FUNCTIONS_PER_DEVICE <- 3, MAX_DEVICES <- 3,
         CAPABILITY_LIMIT <- 5

Discovery == INSTANCE Discovery
    WITH BUSES <- 2, DEVICES_PER_BUS <- 2, FUNCTIONS_PER_DEVICE <- 3, MAX_DEVICES <- 3,
         CAPABILITY_LIMIT <- 5, ROOM <- 11, KINDS <- 2, MaxBoots <- 1,
         Machines <- Small!SmallBusMachines

\* Two processes, two locks, two ticks, a key and an NMI.
Interrupts == INSTANCE Interrupts
    WITH Processes <- {"a", "b"}, Locks <- {"CONSOLE", "RING"}, LINE <- 2, LOG_EVERY <- 2,
         MaxTicks <- 2, MaxKeys <- 1, MaxNmis <- 1, MaxDepth <- 3, MaxOps <- 2

ASSUME ServicesConstants ==
    Heap!HeapAssumption /\ Keyboard!KeyboardAssumption /\ Interrupts!InterruptsAssumption

-----------------------------------------------------------------------------
NoEvents ==
    /\ lines = 0 /\ written = 0 /\ flushed = 0 /\ boot = 0 /\ log = 0 /\ before = 0
    /\ mine = 0 /\ old = 0 /\ failed = 0 /\ misread = 0 /\ starts = 0
NoHeap == start = 0 /\ end = 0 /\ free = 0 /\ hole = 0
NoKeyboard ==
    /\ output = 0 /\ irq = 0 /\ sent = 0 /\ slots = 0 /\ tail = 0 /\ producer = 0
    /\ byte = 0 /\ drained = 0 /\ seen_head = 0 /\ consumer = 0 /\ scancode = 0
    /\ decoder = 0 /\ arrived = 0 /\ taken = 0 /\ keys = 0
NoDiscovery ==
    /\ machine = 0 /\ space = 0 /\ report = 0 /\ stick = 0 /\ wrote = 0 /\ devices = 0
    /\ shown = 0 /\ disk = 0 /\ mapped = 0
NoInterrupts ==
    /\ flag = 0 /\ flow = 0 /\ stack = 0 /\ pic = 0 /\ idt = 0 /\ home = 0 /\ stage = 0
    /\ locked = 0 /\ console = 0 /\ open = 0 /\ raised = 0 /\ ticks = 0 /\ ops = 0
    /\ spoiled = 0 /\ panicked = 0 /\ astray = 0

ServicesInit ==
    \/ /\ part = "events" /\ Init
       /\ head = 0 /\ live = 0 /\ NoHeap /\ NoKeyboard /\ NoDiscovery /\ NoInterrupts
    \/ /\ part = "heap" /\ Heap!Init
       /\ pc = 0 /\ boots = 0 /\ NoEvents /\ NoKeyboard /\ NoDiscovery /\ NoInterrupts
    \/ /\ part = "keyboard" /\ Keyboard!Init
       /\ live = 0 /\ pc = 0 /\ boots = 0 /\ NoEvents /\ NoHeap /\ NoDiscovery /\ NoInterrupts
    \/ /\ part = "discovery" /\ Discovery!Init
       /\ head = 0 /\ live = 0 /\ NoEvents /\ NoHeap /\ NoKeyboard /\ NoInterrupts
    \/ /\ part = "interrupts" /\ Interrupts!Init
       /\ head = 0 /\ pc = 0 /\ boots = 0 /\ NoEvents /\ NoHeap /\ NoKeyboard /\ NoDiscovery

\* Only the bounds end the event log, in its last start; a boot that has
\* found its disk, or not, goes on elsewhere.  The heap, the keyboard and the
\* interrupts always have something left to do.
Over ==
    /\ \/ part = "events" /\ starts = MaxStarts /\ pc = "running" /\ written >= MaxWritten
       \/ part = "discovery" /\ pc = "done"
    /\ UNCHANGED servicesVars

ServicesNext ==
    \/ /\ part = "events" /\ Next
       /\ UNCHANGED <<part, head, live, OfHeap, OfKeyboard, OfDiscovery, OfInterrupts>>
    \/ /\ part = "heap" /\ Heap!Next
       /\ UNCHANGED <<part, pc, boots, OfEvents, OfKeyboard, OfDiscovery, OfInterrupts>>
    \/ /\ part = "keyboard" /\ Keyboard!Next
       /\ UNCHANGED <<part, live, pc, boots, OfEvents, OfHeap, OfDiscovery, OfInterrupts>>
    \/ /\ part = "discovery" /\ Discovery!Next
       /\ UNCHANGED <<part, head, live, OfEvents, OfHeap, OfKeyboard, OfInterrupts>>
    \/ /\ part = "interrupts" /\ Interrupts!Next
       /\ UNCHANGED <<part, head, pc, boots, OfEvents, OfHeap, OfKeyboard, OfDiscovery>>
    \/ Over

ServicesSpec == ServicesInit /\ [][ServicesNext]_servicesVars

-----------------------------------------------------------------------------
(* The properties, each of its part.                                       *)

\* EVENTS.LOG is whole lines, in order, each once, and nothing owed to it is
\* lost (EventLog).
LogTellsEverything == part = "events" => LogTellsEverythingOnce

\* Lines leave EVENTS.LOG only for want of room (EventLog).
LogForgetsForRoom == [][part = "events" => OnlyRoomIsALimitStep]_servicesVars

\* Two starts of the machine never share a boot number (EventLog).
StartsAreToldApart == part = "events" => BootsAreToldApart

\* The heap's free list survives every order of calls (Heap).
HeapIsSound == part = "heap" => Heap!HeapIsSound

\* A block that overlaps free memory is seen, no other is refused (Heap).
DoubleFreeIsSeen == part = "heap" => Heap!DoubleFreeIsSeen

\* The ring holds the scan codes that arrived, in order (Keyboard).
RingHoldsWhatArrived == part = "keyboard" => Keyboard!RingHoldsWhatArrived

\* The keys read are what the scan codes mean (Keyboard).
KeysAreWhatWasTyped == part = "keyboard" => Keyboard!KeysAreWhatWasTyped

\* The inventory is true of the bus, and counts the regions of memory by
\* kind leaving none out without a word (Discovery).
InventoryIsTrue == part = "discovery" => Discovery!InventoryIsTrue

\* The disk the kernel drives, or refuses, is the one there (Discovery).
DiskIsTheOneThere == part = "discovery" => Discovery!DiskIsTheOneThere

\* What is done with interrupts off is done undisturbed (Interrupts).
NothingIsInterruptedInside == part = "interrupts" => Interrupts!NothingIsInterruptedInside

\* Every interrupt finds its handler and is acknowledged once (Interrupts).
EveryInterruptIsAnswered == part = "interrupts" => Interrupts!EveryInterruptIsAnswered
=============================================================================
