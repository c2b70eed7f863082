# HARLAN OS in TLA+

A verification development for the HARLAN kernel: TLA+ modules that model its
parts and the host tools that build and test it, TLC configurations that check
them on small instances, and proofs that TLAPS checks, for every value of the
constants, of the safety properties of the scheduler, the FAT32 writer, the open
files, the disk driver, the keyboard, the frame allocator, the heap and the
interrupts.
`PROJECT.json` is the machine-readable side: which lines of the source each
definition models, what each run checks, and the hazards the properties are for.

## 1. The system and its parts

HARLAN is a kernel for one x86_64 core. The boot loader leaves the firmware and
calls the kernel, which sets up memory, finds a disk, mounts a FAT32 volume,
starts a fixed list of programs and runs them until none is left, gives their
memory back, then does the same with the shell alone.

There is one CPU and no kernel thread. Concurrency comes from four places: the
timer, which takes the CPU away from whoever has it when interrupts are on; the
keyboard's interrupt, which fills a ring that the rest of the kernel empties;
the disk, which reads and writes the driver's memory on its own; and the power
switch, which stops everything between any two writes to the disk.

| Part | State | Operations | What makes it hard |
|---|---|---|---|
| Scheduler, context switch (`kernel/src/scheduler.rs`, `arch/x86_64/src/switch.rs`) | slots with a state and a saved stack pointer, `current`, `switching`, `handed_over`, `KERNEL_RSP` | `add`, `run_until_empty`, `tick`, `yield_current`, `wait_for_message`, `end_current`, `entered` | a tick may come wherever interrupts are on, also between reading a stack pointer and switching to it |
| Messages (`kernel/src/ipc.rs`) | one mailbox of one message per slot | `deliver`, `take_into` | receiving is two steps with another process's turn between them: to sleep, and to take what came |
| System calls (`kernel/src/user.rs`) | none of their own | one handler per call, one for faults | they join the parts above and below |
| FAT32 volume (`hal/src/fat.rs`) | the copies of the table, the directory, the data, the FSInfo hint | `write_file`, `read`, `find`, listing | a write is a dozen sectors and may stop after any |
| Mounted volume, open files (`kernel/src/fs.rs`, `process.rs`) | descriptors with a copy of the directory entry and a position | open, read, close, write, list, and the end of a process | the copy must stay true while others write |
| virtio disk (`kernel/src/devices/virtio_blk.rs`, `hal/src/virtio.rs`) | rings with 16-bit indexes, one request frame | start, read, write | an answer that comes after the driver gave up |
| Frame allocator (`kernel/src/memory/frame_allocator.rs`) | bitmap, count, search point, purposes | `new`, `allocate_for`, `deallocate_as`, `label`, `with_purposes`, `reclaim_boot_services` | firmware maps overlap; memory joins the pool while frames are out |
| Processes' memory (`process.rs`, `memory/stacks.rs`, `zeroed_frames.rs`, `paging.rs`) | frames held, page tables, the stacks area | `spawn`, `spawn_elf`, `destroy` | may run out at any frame; the dead stay in their slots |
| Program loader (`hal/src/elf.rs`, `process.rs`) | a file's words, ranges owned | `parse`, `load`, `owned_by` | sums of arbitrary words; pages shared by segments |
| Kernel heap (`memory/heap/free_list.rs`) | sorted list of holes | `init`, `allocate`, `deallocate`, `check` | every mix of splitting and merging |
| Event log (`kernel/src/events.rs`, `lib.rs`) | ring of lines, `EVENTS.LOG`, `BOOTS.TXT` | record, flush, count the boot | overflow, failing files, restarts |
| Keyboard (`arch/x86_64/src/keyboard.rs`) | ring without a lock, decoder | interrupt, `pop`, `feed` | every load and store of the two sides may interleave |
| Page tables (`arch/x86_64/src/paging.rs`) | four levels of tables, large pages, stale translations | `map`, `unmap`, `translate`, `map_physical_window`, `rebuild_identity`, `keep_only`, `free_lower_half` | a table may be missing at any level; the code runs through the map it changes |
| Boot (`boot/src/main.rs`, `kernel/src/lib.rs`, `kernel/src/memory*`) | whose tables, stack, books and addresses are in use | leaving the firmware, taking over the tables, heap, stacks, the move to kernel space, the window, emptying the lower half | every step may be refused or run out, and what was set up before must go on working |
| Interrupts, lock, log, console (`arch/x86_64/src/interrupts.rs`, `pic.rs`, `kernel/src/sync.rs`, `klog.rs`, `console.rs`) | the interrupt flag, the 8259, the descriptor table, locks, the line that is half out | handlers, `lock` and its guard, `sink`, `adopt`, `take` | nesting; a switch inside a handler; the move in the middle |
| PCI and the inventory (`hal/src/pci.rs`, `virtio.rs`, `boot/src/inventory.rs`) | configuration space, the report, the file on the stick | `scan`, `decode_bar`, `capabilities`, `locations`, `take`, `start` | words from outside, lists that loop, tables that are full |
| Host tools (`tools/xtask/src`) | disk images; logs shared with a running machine | `format`, `gpt::build`, `usb_image`, `boot_test`, `soak_test` | two ends that must agree; a judge that reads files while they are written |

How they interact: a system call runs with interrupts off, so it is one step for
every other process; it reaches the scheduler (yield, exit, send, receive), the
open files (and through them the volume, and through it the disk), or a
process's ranges (pointers). Starting and ending a process goes through the
loader, the page tables and the frame allocator. The event log writes files like
a program does. All of it is set up by the boot, whose order decides what is mapped
when, and runs under interrupts, which are off wherever two parts share state.

## 2. Modules

| Module | Models | Role |
|---|---|---|
| `Processes` | - | what the kernel promises its processes, with no CPU in sight |
| `Scheduler` | scheduler, messages, switch, tick, the calls that move the CPU | implements `Processes` |
| `SchedulerProofs`, `Fat32Proofs`, `VirtioBlkProofs`, `KeyboardProofs`, `HeapProofs`, `InterruptsProofs` | - | theorems about the module of that name, and their proofs: see section 4 |
| `ResourceProofs` | - | the same for `OpenFiles` and, as `Pool`, `FrameAllocator` |
| `NumberFacts` | - | least and greatest members of sets of naturals, division and remainders: what the proofs need of arithmetic |
| `FileStore` | - | what a volume promises: one file at a time is replaced, at once or not at all |
| `Fat32` | `write_file`, one sector per step | implements `FileStore` |
| `OpenFiles` | the file calls and descriptors | over atomic writes, as `FileStore` gives them |
| `VirtioBlk` | driver, ring and device | |
| `FrameBitmap` | the frame allocator as operators on its state | used by the next four |
| `FrameAllocator` | the allocator with arbitrary callers | |
| `ProcessMemory` | starting and giving back processes | composes `FrameBitmap` with stacks, tables and slots |
| `PageTables` | `paging.rs` as operators on the tables | over `FrameBitmap` |
| `PeImage` | what `pe.rs` reads in the kernel's own image | |
| `BootMemory` | from the firmware's memory to the kernel's own | composes `PageTables`, `FrameBitmap` and `PeImage` |
| `ElfProgram` | parsing, loading, pointer checks | |
| `Heap` | the free list | |
| `EventLog` | ring, log file, boot counter, over restarts | over atomic writes |
| `Keyboard` | interrupt handler, ring, decoder | |
| `Interrupts` | flag, 8259, descriptor table, handlers, lock, log lines, console's owner | |
| `Pci` | configuration space, BARs, capability lists, virtio's structures, as operators | used by the next |
| `Discovery` | the loader's inventory and the kernel's search for its disk | over `Pci` |
| `DiskImage` | the FAT32 formatter and the partition table, as operators | used by the next two |
| `FatReader` | how the kernel, and firmware, read such an image | |
| `Xtask` | building images; judging a boot from its logs | composes `DiskImage`, `FatReader` and a running machine |
| `SmallMachines`, `SmallBuses` | - | machines for the boot, and buses for the discovery, for TLC |
| `MCMemory`, `MCServices` | - | parts side by side in one run: see section 3 |
| other `MC...` | - | values of constants that a `.cfg` cannot write, and symmetry |

Definitions keep the names of the source where TLA+ allows it. A definition whose
comment begins with "Mutant" is a plausible bug in the definition that follows
it; no specification uses it. Each property is known to fail when one definition
is replaced by such a mutant (`PROJECT.json`, "mutants").

### Scheduler

A flow of execution is a kernel stack: one per slot, and the kernel's own. `cpu`
is the flow that runs; all others are suspended inside `switch`, and
`kernel_rsp[i]` and `KERNEL_RSP` say which flow a saved stack pointer resumes
(or `Stale`, when it resumes nobody). `cr3`, `cpu_stack` and `irq_on` are the
registers that a switch must keep in step. `pc` says where in the kernel's code a
flow is. Code that runs with interrupts off is one step, up to the next switch;
code that runs with interrupts on is cut wherever a tick would make a
difference: `run_until_empty` reads the first process's stack pointer and marks
the hand-over in `RunUntilEmpty`, and switches in `HandOver`, and `Tick` may come
between the two. What a process does in ring 3 is left open: it may make any
call, fault, or compute for ever.

Of a message only its sender and length are kept, and of a receiver's buffer only
its length. System calls that leave the scheduler alone are not here.

### Fat32 and FileStore

One step per sector written: each data cluster, each copy of each table entry,
the directory entry, each entry freed, FSInfo. Before any step the write may
stop, as a device error or a loss of power would stop it; the kernel keeps nothing of
a volume in memory, so both leave the same state. The contents of a file are the
number of its write and its length in clusters, so any mix-up of clusters shows. `Init` is every volume
a formatter leaves: deleted slots, a label, a subdirectory, a bad cluster, and an
FSInfo sector with the marks the code asks for or without them (`Foreign`), which it
then leaves alone.

`ImplementsFileStore` maps the volume to the contents each name reads as, through
the first copy of the table as the kernel reads it.

### OpenFiles

A file call is one step. `Dots` says whether a name may be spelled with a dot and
no extension, which `encode_name` accepts and `is_named` does not match: FALSE
for the run that holds, both for the run that shows the disagreement.

A listing is the shell's loop, one call per file, with the calls of others
between. A call may find the directory unreadable: the kernel answers with a
negative number, as it does past the last file, and the shell stops at either. Such
a listing is "cut", where one that went past the last file is "done".

### VirtioBlk

Starting comes first: finding the device, the handshake, the queue, each of
which may be refused in all the ways the source lists; then the boot reads the
first sector, and the volume is adopted as ours, adopted as somebody else's and
never written, or not adopted. What configuration space and the registers say is
open; a sector's contents are told apart as a boot sector of ours, one of another
volume, or neither.

The driver's steps in a request are the points where the device could see a
difference: fill the frame, describe, publish, ring, look (at most `POLL_LIMIT`
times), read the used entry and copy out. The device takes chains, transfers and
answers when it likes, in any order, with success or an error, and may do so after
the driver gave up. Every chain starts at descriptor 0, so one index stands for
the available ring.

### FrameBitmap, FrameAllocator, ProcessMemory

The allocator's state is a record, and its operations are operators from records to
records, so that the same definitions serve arbitrary callers (`FrameAllocator`)
and the kernel's own (`ProcessMemory`). The search goes by words from `next_word`
as in the source. `ProcessMemory` follows `run`: the first round of programs,
their destruction, the shell, and destruction again; a program is its number of
pages, and each amount of memory makes starting fail at another frame.

### ElfProgram

A file is a length and what its header and program headers say, each an
arbitrary word of `0 .. WORD_MAX`, chosen when the code reads it. Sums that the
source checks are checked, and those it does not check wrap or panic as in the
build. Loading goes page by page over the page tables and the frames that are
left.

### PageTables, PeImage, BootMemory

`PageTables` keeps tables by physical address, as the entries that are present; an
operation walks them from the root, takes frames from `FrameBitmap` for the tables
it needs, and leaves behind which old translations the processor may still hold.
The hole between the two halves of the address space is left out of the numbering.

`BootMemory` follows the boot in the order of the source, one action for each step
after which something may be refused or used: the loader's reading of the memory
map and the image, `take_over`, the heap, the stacks, the allocator's move off
firmware memory, the switch of stacks, the second mapping of the image with its
relocations, the jump (left out where the loader did not say where the image is, or
named a range that does not have the running code in it), the window, the firmware's move, `keep_only` or
`rebuild_identity`, reclaiming, and labelling. `uses` is what the kernel holds an
address of and will use again: its code, stack, log sink, console, handlers,
books, the screen, the firmware's services. The properties say that each is mapped
as it is used, at every step, on every machine. A machine is what the firmware
made of it (`SmallMachines`): memory, maps that are truncated, overflow or lack
runtime code, images without headers or with too many sections, and so on.

### Interrupts

One flow of control has the CPU: the kernel's, or a process's. `stack[f]` is what
flow `f` is in the middle of, innermost last: a handler, a system call, a critical
section, a line of the log. An interrupt gate saves the flag in the frame it
pushes and clears it; `iretq` puts it back; a guard puts back the flag its `lock`
found. The 8259 has its mask, request and service registers, and keeps a line in
service until it is acknowledged. What the kernel does between two instructions
that matter here is left out. A line of the log goes out in pieces, so a tick or
an NMI could fall between two.

That no code takes a lock it holds itself is assumed of the lock's users: `TakeLock` is
guarded so. What is shown is that nobody *else* comes to hold it first. On
finding it taken, `lock` panics and leaves the flag as it found it, and so does the
model.

### Pci and Discovery

Dwords are their four bytes. `Space` makes configuration space of a machine
described by what is really in it (functions, BARs, capabilities, devices that
answer for functions they do not have), and the code's operators read it back:
the properties compare the two. A line of the report is one unit of its room.

### DiskImage, FatReader, Xtask

An image maps addresses to cells; a later write covers an earlier one. What the
formatter writes is read with the kernel's own reader (`FatReader`) and with a
model of what firmware asks of a partition table. The reader has its errors: a
chain that leaves the volume or does not end is an error of its own, told apart
from a name that is not there. A disk with fewer sectors than its own tables need
is an overflow in `format`, before the size is looked at (`Refused("Overflow")`). The judge of a boot and the
machine are two processes that share log files: the machine writes, resets, stops
or says nothing at any time, the judge reads one file after another, asks
whether the machine is still there and sleeps. A machine in trouble says so and
halts, except that an NMI's line may come from one that goes on.

### Heap

Addresses are integers. A hole's header (size, next) lies at its address, as in
the source, and the list is followed link by link (`Nth`); `Total` is the sum that
`check` compares with the count kept.
Regions may start unaligned and be too small. A caller may free anything it
holds; what would be noticed if it freed something else is a property.

### EventLog

Bytes of a line are told apart, so that a cut line or one written twice shows.
Files are replaced whole or left alone, which is what `Fat32` shows of the writer,
and either may be reported as an error; reading may fail. The machine may stop at
any point and start again.

`record` cuts a line at `LINE` bytes; the longest one the kernel records has 70 of
the 72, so lines here are never longer than a slot. The boot count is a `u32` and is
followed past its column, not to its overflow, which takes 2^32 starts or a program
that writes `BOOTS.TXT`.

### Keyboard

Each load and store of `head`, `tail` and a slot is a step, and the steps of the
interrupt handler and of the reader interleave freely, which is more than one
core can do and what the source claims the ring is good for ("on one core,
interrupting each other, or on two"). Indexes count modulo `INDEXES` and wrap.
The decoder is the source's, over codes told apart as far as it tells them
apart.

## 3. Runs

`tlc -config <cfg> <module>`. All of them take less than five minutes.

`MCMemory` and `MCServices` put parts that do not interact side by side: a
behaviour is a behaviour of one part, chosen at the start, and the variables of the
others are 0. Each part keeps its own module, constants and properties; the run
checks all of them, deadlock included, except where a part is over by
design (`Over`).

| Run (cfg) | Module | What it shows |
|---|---|---|
| scheduler | Scheduler | With ticks at every point where interrupts are on, messages, faults and exits: every live flow can be resumed (`EveryFlowIsHeld`), whoever runs is the current process on its own page tables and entry stack (`RunsAsItself`), a process sleeps exactly while its mailbox is empty (`WaitsOnlyForMail`), the kernel gets the CPU back only when nobody is left half done (`KernelComesBackLast`), all of it implements `Processes`, and every process that can run gets to ring 3 (`EveryTurnComes`). `IInv` is the inductive invariant of the proofs. |
| fat32_write | Fat32 | At every point of every write, finished or stopped, every file the directory names has a whole chain, in all copies of the table, of its own clusters (`FilesAreWholeAndApart`); clusters are lost only by a write that stopped (`NothingIsLostUnlessStopped`); the whole implements `FileStore`. |
| open_files | MCOpenFiles | A descriptor reads what it opened for as long as it is open (`OpenFilesDoNotChange`); a process that has ended, however it ended, holds no file (`OnlyTheLivingHoldFiles`); a listing made call by call while others write has, when it gets past the last file, shown every file that was there throughout, and one under way or cut off by a read error has every such file it has not shown still ahead of it (`ListingMissesNothing`). |
| virtio | MCVirtioBlk | As long as no call starts over one in flight, `Ok` means that the sector was read or written (`OkIsTrue`) and the disk changes only as the call asked (`OnlyWhatWasAsked`, which also says that only a disk whose own boot sector says it is ours is ever changed). In any case the driver takes no other request's answer for its own (`AnsweredMeansFinished`) and every call returns (`EveryCallReturns`). |
| xtask | MCXtask | A disk that was laid out is mounted, known as the kernel's own and read back in full, with tables of the smallest size that fits, nothing lost or shared (`DiskReadsBack`); a stick says the same from either end and leads firmware to the loader (`StickBoots`); a boot test passes only if the lines it asks for came from the machine it started, though not necessarily within one of its boots, a soak only if the machine never reset and went on to the end; both fail only for a reason in the machine (`VerdictIsTrue`). |
| memory: the pool | MCMemory | `PoolIsSound`: only memory the map allows is ever in the pool; the count, the bitmap and the frames handed out agree; purposes match who holds a frame. |
| memory: processes | MCMemory | No frame serves two (`NoFrameServesTwo`); the tables of a process reach only its own frames (`MapsOnlyItsOwn`); if all could be started, all frames come back (`EverythingComesBack`). |
| memory: the boot | MCMemory | At every step what the kernel uses is mapped as it uses it (`WhatIsInUseIsMapped`) and no frame in use is one the allocator would hand out (`NothingInUseIsFree`); when the kernel has its own tables nothing is writable and executable that need not be, and the null page is unmapped (`RightsAreTight`); in the end every frame's label is true (`LabelsTellTheTruth`). |
| memory: the loader | MCMemory | `ProgramIsAsDescribed`: no word of a file makes the loader read past it or overflow; memory is what the file describes; the ranges that pointers are checked against are mapped, and writable ones are mapped writable. |
| services: the event log | MCServices | `EVENTS.LOG` is whole lines, in order, none twice, and what has left the ring's reach is in it, unless a flush failed (`LogTellsEverything`); a flush drops old lines only for room (`LogForgetsForRoom`); two boots have different numbers unless a file could not be read or the column is full (`StartsAreToldApart`). |
| services: the heap | MCServices | Holes are sorted, apart, merged and aligned, and with the blocks handed out they are the region (`HeapIsSound`); freeing what overlaps a hole is noticed (`DoubleFreeIsSeen`). |
| services: the keyboard | MCServices | The ring holds exactly what arrived and was not taken, in order (`RingHoldsWhatArrived`); the keys are what the codes mean by a definition that looks back over the whole stream (`KeysAreWhatWasTyped`). |
| services: discovery | MCServices | The inventory lists the functions that are there, in order, none twice, and counts those left out; each kind of memory it lists has as many regions as the map has, and all kinds are listed if it does not say there are more (`InventoryIsTrue`; it may also say so when there are none: section 6); the registers the kernel maps and the doorbell it rings are those of the first modern disk on the bus, and a disk is refused only for what it lacks (`DiskIsTheOneThere`). |
| services: interrupts | MCServices | No lock is asked for while another holds it, nobody in a critical section loses the CPU or has interrupts on, no line falls into another except an NMI's (`NothingIsInterruptedInside`); every interrupt finds its handler where the kernel now runs, and is acknowledged once, by that handler, before another flow runs (`EveryInterruptIsAnswered`). |
| open_files_dot | MCOpenFiles | *Violation.* With a trailing dot in the name, an open file is replaced. |
| process_memory_again | ProcessMemory | *Violation.* Destroying the dead of the first round again fails an assertion. |
| boot_screen | MCBootMemory | *Violation.* A framebuffer above the identity map's limit is unmapped under the console. |
| boot_image_unknown | MCBootMemory | *Violation.* With the image's place unknown, the kernel's own code becomes no-execute. |
| inventory | MCDiscovery | *Violation.* A longer report's tail stays on the stick behind a shorter one. |

Section 6 has more on the violations.

### Bounds, and why they are enough

- **scheduler**: three slots, so that a tick can go from one process to a third
  while a second waits, and the search wraps past a dead slot; messages of one
  byte, and buffers with no room and with room for it. There is no bound on the
  length of a behaviour. The proofs remove both bounds for safety.
- **fat32_write**: five clusters, two tables, two directory slots, two names, files of
  up to two clusters, three writes: the third can replace what the second wrote
  after the first stopped, with a volume that is full or nearly so.
- **open_files**: two processes with two descriptors, two names, three slots and
  three writes: a file can be replaced twice, and a slot used again, during one
  listing. Processes are interchangeable, so their permutations are a symmetry;
  the run checks no liveness.
- **virtio**: a ring of four with indexes modulo eight and ten calls: the indexes
  wrap and calls go on after it. Once a call has started while an earlier one was in
  flight there are four at most, since the state of the device grows with them. One
  look stands for twenty million: giving up may happen at any time.
- **xtask**: sectors of eight cells, disks of 5 sectors (too small for its tables) and
  of 30 to 76 (too small for the file system, just too small for the files, room to spare), files that are empty,
  fill a cluster or need one more; sticks at every size around the smallest; two
  boots in one test, one reset, a soak of four sleeps.
- **memory, the pool**: two words of two frames and all maps of two regions that
  start and end anywhere, also past the end of the bitmap.
- **memory, processes**: three programs of up to three pages; every amount of
  memory from two frames to eight, so that running out is met at every frame of
  the first start, then eleven, sixteen and twenty-two frames, where it is met in a
  later one, and thirty-six, which are enough. The violation's run has one
  program, and a slot for the shell.
- **memory, the boot**: tables of twelve entries, so that all the areas of kernel
  space have a slot of their own; every amount of free memory from none to
  twenty-two frames, and thirty-two, with which nothing is short; seven images, two
  screens and four kinds of memory map. Machines with a screen above the limit, or that do not
  say where the image is, are in the violations' runs.
- **memory, the loader**: words of three bits, pages of two bytes, three pages of
  user space with the stack in the last, two segments, up to three headers, segments
  that start in the file at 1 or at 3, its end, and whose sums overflow.
  Segments share a page, cross one, lie at its edges, meet the stack.
- **services, the event log**: a ring of two lines of up to two bytes, a file of
  five bytes, three starts, three lines each and those the writes add: the ring
  overflows, the file fills and is cut within a start, and the boot number runs past
  its column.
- **services, the heap**: up to seven granules, sizes from zero to three granules,
  two alignments, regions that start and end off the granule. Behaviours are not
  bounded.
- **services, the keyboard**: two slots, indexes modulo four, five bytes: the
  indexes wrap and the ring is full at different values of them. Of the codes there
  are one shift, the prefix and a letter; the proofs have all of them.
- **services, discovery**: two buses of two devices of three functions, of which
  three are kept; a dozen kinds of disk that are usable or lack one thing each; all
  memory maps of up to three regions of three kinds, of which the report holds two,
  and one of four, so that there are fewer kinds, as many, and more; one boot, and two
  for the violation.
- **services, interrupts**: two processes, two locks, two ticks, one key, one NMI,
  frames three deep, two critical sections or lines begun by the flows themselves
  (handlers log besides).

Deadlock is not checked in `xtask`, where a command ends, in `open_files`, where
all processes may have ended, and in `virtio`, where there may be no disk; in the
two runs of several parts it is, and `Over` names the states where a part is over.

### Fairness

- `Scheduler!Fairness`: the kernel's own code goes on, the return from a tick and
  the services a process asked for too, and the timer keeps ticking. Strong
  fairness is used where a tick can interrupt and so disable a step again and
  again: between two ticks the CPU has ten milliseconds, and the interrupt
  controller keeps a tick pending while interrupts are off. Nothing is assumed of
  a process in ring 3: it may compute for ever, and `EveryTurnComes` holds all
  the same, because the timer takes the CPU from it.
- `VirtioBlk!Spec`: weak fairness of the driver, which runs with interrupts off.
  Nothing is assumed of the device: it may never answer.

## 4. Proofs

`tlapm <module>.tla`, between two and twenty minutes for each from nothing. A theorem
holds for every value of the constants that satisfies the assumption named here;
the kernel's own values do, and TLC evaluates the assumptions on the values of the
runs.

| Theorem | Statement | Assumption |
|---|---|---|
| `SchedulerProofs` | | `SizesAssumption`: at least one slot, mailboxes of at least one byte |
| `Invariance` | `Spec => []IInv` | |
| `TypeCorrect` | `Spec => []TypeOK`; the CPU is never sent to a stale stack pointer | |
| `NoStackIsLost` | `Spec => []EveryFlowIsHeld` | |
| `EachRunsAsItself` | `Spec => []RunsAsItself` | |
| `TicksCount` | `Spec => []NoTickIsDropped`: `switching` never makes the timer skip a turn | |
| `NoLostWakeUp` | `Spec => []WaitsOnlyForMail` | |
| `TheKernelIsLast` | `Spec => []KernelComesBackLast` | |
| `MailIsTakenOnce` | a delivered message changes only by being taken, by its owner | |
| `TheDeadStayDead` | a dead process stays dead and never gets the CPU | |
| `Refinement` | `Spec => ImplementsProcesses` | |
| `Fat32Proofs` | | `VolumeAssumption`: at least three clusters, one table, one slot, one cluster per file |
| `FilesSurviveEveryStop` | `Spec => []FilesAreWholeAndApart` | |
| `ClustersAreLostOnlyByStops` | `Spec => []NothingIsLostUnlessStopped` | |
| `WritesAreAtomic` | `Spec => ImplementsFileStore` | |
| `ResourceProofs`, open files | | `OpenFilesAssumption`: sizes are not zero |
| `OpenFilesAreKept` | `Spec => []OpenFilesDoNotChange` | and `Dots \subseteq {FALSE}` |
| `TheEndedHoldNothing` | `Spec => []OnlyTheLivingHoldFiles` | |
| `ListingsAreComplete` | `Spec => []ListingMissesNothing` | |
| `VirtioBlkProofs` | | `QueueAssumption`: the ring's size divides the number of indexes and is smaller |
| `OkTellsTheTruth` | `Spec => []OkIsTrue` | |
| `TheDiskChangesAsAsked` | `Spec => OnlyWhatWasAsked`, an action property | |
| `AnsweredCallsAreFinished` | `Spec => []AnsweredMeansFinished` | and `MaxOverlapping < INDEXES` |
| `ResourceProofs`, frames | | `PoolAssumption`: sizes are not zero, every frame of the bitmap has an address; maps are any sets of regions |
| `ThePoolIsSound` | `Spec => []PoolIsSound` | |
| `KeyboardProofs` | | `KeyboardAssumption`: the capacity divides the number of index values and is smaller |
| `TheRingIsSound` | `Spec => []RingHoldsWhatArrived` | |
| `KeysAreRead` | `Spec => []KeysAreWhatWasTyped` | |
| `HeapProofs` | | `HeapAssumption`: the granule is not zero, every alignment divides the granule or is a multiple of it; regions and layouts are any |
| `HeapStaysSound` | `Spec => []HeapIsSound` | |
| `DoubleFreesAreSeen` | `Spec => []DoubleFreeIsSeen` | |
| `InterruptsProofs` | | `InterruptsAssumption`: the console and the ring have locks; any number of processes and locks, lines of any length |
| `Undisturbed` | `Spec => []NothingIsInterruptedInside` | and, in `TakeLock`, that no code takes a lock it holds itself |
| `Answered` | `Spec => []EveryInterruptIsAnswered` | |

Two theorems have a hypothesis of their own, because without it the statement is
false. With a dotted name an open file is replaced: the run `open_files_dot` shows
it. And if as many requests as there are indexes (65536 in the driver) were given
up and stayed in flight, the index the driver waits for would be one it has
already seen (with six indexes and eight calls TLC finds the behaviour).

Where a model bounds the number of writes, calls or codes of a behaviour
(`MaxWrites`, `MaxRequests`, `MaxCodes`), the theorem is for every bound.

### Scheduler

None of the properties is inductive by itself. That every flow is
held (`EveryFlowIsHeld`) depends on what happens if a tick cuts the hand-over in
two: the tick saves the kernel's stack pointer in the *first process's* slot,
because that is already `current`, and whoever switches to that slot later
resumes the kernel inside the hand-over, which then makes its switch with the
stack pointer it read before. `HandingInv` says why this works: until that
switch, the first process has not run, the stack pointer in the kernel's local is
its prepared stack, and its slot holds either that or the kernel's. `KernelInv`
says where the kernel's flow can be when it does not run, `SuspendedInv` where
every other one can, `SwitchingInv` that the flow with `switching` to clear has
interrupts off, `EmptyInv` that an unused slot is clean. `IInv` is their
conjunction with the types, `RunsAsItself` and `WaitsOnlyForMail`; there is one
lemma per action, and the properties follow from it. `NextRunnable` (the search
round the table finds somebody whenever there is somebody) rests on the least
element of a set of naturals, from the well-founded induction library.

### Fat32

`FilesAreWholeAndApart` says what a reader finds; it does not say why the next
sector keeps it. The invariant (`Inv` in `Fat32Proofs`) adds how far a write has
got. `Volume` is the state between any two sectors: used slots before unused ones, no
name twice, every file's chain linked in every copy of the table with all of one
write in it, chains apart from each other and from what directories use. `Aimed`:
until the entry is written, the slot that was looked up is still the one and the new
clusters are nobody's. `Progress`: how many clusters hold their data, and how many are linked, in
which copies. `OldChain`: after the entry, what is left to free is a chain without a
repeated cluster, on no file and not in the new one, still linked in every
copy but the one entry being freed. `NothingLost`: while no write has stopped, every
taken cluster is a file's, a directory's, the new chain's or the rest of the old one.

Three facts carry it. Following the table from a chain's first cluster gives that
chain (`Followed`): `Chain` is a recursive function, and the lemma says that the chain
solves its equation and that no other function does. A scan of the directory
gets to every entry, because unused slots are at the end (`Directory`). And a step
that touches no cluster of a file leaves every chain and every name's contents
(`FilesStay`, `NamesStay`). With the last one, all steps but `WriteEntry` are
stutters or the beginning or end of a write in `FileStore`; `EntryStores` shows that
`WriteEntry` changes what exactly one name reads as.

### OpenFiles

What a descriptor copied is still an entry of the directory, and the place it names
still holds the bytes of then (`Kept`): a write refuses a name that is open, and takes
a place no entry has. For listings (`Listed`): a file that was there all along
and has not been shown has at least as many files before it as the index that
is asked for next. Entries never move and a new one can only push
others back, so the index never passes it. A call that cannot read the directory
ends the listing where it is, short of every such file: the theorem says that a cut
listing lacks only files it had not come to, and that one that is done lacks none. This counts finite sets; the lemmas are on
cardinalities of the files before a slot.

### VirtioBlk

The indexes wrap, so the invariant is on differences: between what the
device has used and what the driver has published are the chains the device holds
and `w` it has not taken yet (`Counted`), and as long as no call overlaps another
there is at most one. `Meant` ties that one to the call: the frame says what the call
asked for, and if the device moved the data and is content, it is done. `Ours`:
before the volume is known to be ours, there are only reads. `NumberFacts` has the
arithmetic: two sums that agree modulo the number of indexes and differ by less
than it are equal.

### FrameAllocator

`PoolIsSound` with the types is inductive. The work is in the operators: with
regions that overlap, that start and end off a frame and that saturate, a frame
inside a region is touched by it, and the other way round only in an aligned map,
which is why the frames handed out are all of the managed ones that are taken only
there; the search by words from `next_word` returns a clear frame or none; and each
change of the bitmap changes the count by as much (cardinalities of finite sets).

### Keyboard

The head the interrupt handler has loaded may be old by the time it is used.
`Pushing` says that it stands for some earlier number of taken codes, so that what
looks free is free; `Stored` says the same of slots and indexes modulo their sizes.
`Decoding` relates the decoder's three flags to looking back over the codes so far.

### Heap

The model follows links, as the code does; the invariant says what they link. There
is a set of granules `H`, the holes, such that `head` and every `next` are the least
member of `H` above (`Chain`), holes do not touch, no header lies in a block,
and holes and live blocks share the heap with nothing left over (`Books`); `free` and the
granules in blocks add up to the region. Every operation is then a change of `H`:
taking a block out of a hole leaves the hole's two ends in it, if they are not empty,
and freeing adds one member or merges it with its neighbours. Walking the list is a
recursion (`Nth`, `Total`); that it goes through `H` in order, ends, and adds up the
holes is shown by the least step at which it would not, which is a fact about sets of
naturals and needs no induction over data. The two comparisons of
`deallocate` see every overlap because `H` is sorted: a hole further off than the
neighbours cannot reach the block without covering a neighbour.

### Interrupts

Both properties follow from what a stack can look like. `Nested`: in a stack of frames,
every one above the first found interrupts off and is no handler's but an NMI's, and
nothing but an NMI comes into a line. `Sound`: a lock that is taken, and the line that
is partly out, are on the stack of the flow that has the CPU. So a handler that came
by the flag cannot be above a critical section, and a lock that the
flow's own stack does not hold is free. `Parked`: a flow without the CPU lost it in a system call or at the
end of a handler, where it held nothing; that is why a switch loses no lock.
`Reached` and `Bottom` tie tables, controller and interrupt flag to the stage of the boot, and
`pic.isr = Due(flow)` says that the lines in service are those whose handlers are on
the stack and have not acknowledged.

### Only model-checked, and why

- Liveness (`EveryTurnComes`, `EveryCallReturns`): TLAPS has no rules for fairness
  here.
- `EventLog`, `ProcessMemory`, `BootMemory`: what they do is defined by folds
  and recursions over lists of lines, frames and regions, and what a recursion
  computes for every input needs induction with an operator as a parameter,
  which no installed prover can instantiate. (`Fat32` and `Heap` get round it: their
  recursions count with naturals, and have a solution that can be written down or a
  least step at which they would go wrong.)
- `ElfProgram`, `Discovery`, `Xtask`: reading back what was written, over formats; the
  runs go through the cases.

## 5. What is not modelled, and why

- **The kernel's own faults**: a fault in kernel mode and a double fault write a
  line and stop the machine; `Interrupts` has the faults of processes.
- **GDT, TSS, the bits of page-table entries and descriptors**: layouts that the
  hardware defines.
- **Assembly of `switch` and the trampolines**: its effect is in `Scheduler` and
  `Interrupts`; that it saves the right registers is below this level.
- **Drawing, serial port, formatting**: output only. That a line is not cut is in
  `Interrupts`.
- **The controller's set-up of keyboard and timer**: fixed exchanges of commands,
  once; whether they are answered is an input.
- **Memory ordering**: TLC's steps are sequentially consistent. The keyboard ring's
  Acquire and Release orders, and the driver's fences, are what makes the steps
  above the right ones.
- **User programs and the shells' commands**: any sequence of system calls stands
  for them; the listing loop is in `OpenFiles`. The programs assembled by hand in
  `user.rs` are data.
- **The bytes of boot sectors, partition tables and virtio's registers**: fields
  are modelled, offsets are not, except in configuration space.
- **`cargo xtask`'s command line and cargo's work.**
- **Several cores**: the kernel has one.

What could be modelled next is in section 7; the state of every part is in `PROJECT.json`, "components".

## 6. Where the code and what is said of it differ

With a run that shows it:

- *open_files_dot*. `write_file` (`kernel/src/fs.rs:239`) asks whether somebody has
  the name open as it was spelled, and writes to the short name it is encoded to.
  `NAME.` is encoded like `NAME` and compared unlike it, so an open file is
  replaced. `fs.rs:221`: "Refuses if anybody has that name open".
- *process_memory_again*. When the shell ends, `run` (`kernel/src/lib.rs:1262`)
  destroys every dead process, those of the first round included, whose stacks are
  unmapped already; `debug_assert!(frame.is_ok())` (`memory/stacks.rs:93`) fails.
- *boot_screen*. `run` works out whether the framebuffer would be left unmapped and
  logs that "the firmware's tables stay in use" (`kernel/src/lib.rs:623`), but the
  branch taken when the window is in kernel space (`lib.rs:631`) does not ask.
  `lib.rs:58`: "The kernel refuses to rebuild the identity map if that would leave
  this range unmapped, because the next character would fault."
- *boot_image_unknown*. With no image range the executable ranges are the
  firmware's alone, and the rebuilt map (`lib.rs:734`) makes the kernel's own code
  no-execute. `boot/src/image.rs:27`: "Without it the kernel keeps the whole lower
  half executable rather than fault on its own code."
- *inventory*. Moving the position and flushing does not shorten a UEFI file
  (`boot/src/inventory.rs:401`); the comment above it: "The old one may have been
  longer. Without this, the tail of the previous report stays on the end of the
  new one." What firmware does is modelled from the UEFI file protocol.

Noticed while modelling; the models have the code's behaviour, and the properties
are stated so that they hold with it:

- `scheduler.rs:308`: the hand-over is marked before the switch, with interrupts
  on. A tick in between saves the kernel's stack pointer in the first process's
  slot. It is harmless, for the reason section 4 gives, but nothing in the source
  says so.
- `fat.rs:848`: a write that stops between two copies of the table leaves them
  different for good. They never differ on a cluster of a file
  (`FilesAreWholeAndApart`), only on clusters nobody reaches.
- `fat.rs:1041`: replacing a file needs room for the new one beside the old one, so
  a file on a full volume cannot be replaced even by a smaller one.
- `process.rs:239`: when `spawn_elf` fails after the tables were made, the root and
  the tables stay taken. `EverythingComesBack` therefore speaks of rounds in which
  every program could be started.
- `events.rs:297`: lines count as flushed when they are copied out; if the write
  then fails they are in no later flush. `LogTellsEverything` excepts starts
  with a failed flush.
- `lib.rs:1425`: a log that cannot be read is taken for an empty one and written
  over, and a boot count that cannot be read starts again at one.
  `LogForgetsForRoom` and `StartsAreToldApart` except these.
- `virtio_blk.rs:517`: the frame is filled on the understanding that no request is
  in flight, which is not so after one that was given up. `OkIsTrue` and
  `OnlyWhatWasAsked` speak of calls that do not overlap; `AnsweredMeansFinished` and
  `EveryCallReturns` hold for all.
- `user.rs:603`: `recv` asks whether the process owns its buffer, where `read` asks
  whether it may write it.
- `user/shell/src/main.rs:198`: a listing stops at any negative answer, and a directory
  that cannot be read gives one (`user.rs:841`), as does the index past the last
  file. A listing cut so looks like a whole one. `ListingMissesNothing` says of it
  only that what it lacks was still ahead.
- `boot/src/inventory.rs:267`: "(and more kinds than this list holds)" is written when
  the list is full, also when there are exactly `KINDS` kinds and none was left out.
  `InventoryIsTrue` asks only that nothing is left out without that line.
- `lib.rs:1377`: the next boot's number is the last one's plus one, with no check, so a
  `BOOTS.TXT` that says 4294967295 makes the addition overflow. Left out of
  `EventLog`.
- `tools/xtask/src/fat32.rs:126`: for a disk smaller than its own tables the
  subtraction overflows before the size is refused. No caller asks for such a disk.
- `tools/xtask/src/main.rs:798`: a boot test looks for its lines in the whole log, so it
  passes when the shell answered before a reset and the rest came after it. A soak
  counts resets; a boot test does not. `VerdictIsTrue` accepts it.
- `keyboard.rs:100`: a full ring drops the newest code; if it is the release of a
  shift, the decoder believes the key still down. `KeysAreWhatWasTyped` speaks of
  the codes that got into the ring.
- `virtio.rs:82` says that without a multiplier "guessing would be worse than
  refusing to ring at all"; `virtio_blk.rs:395` takes 0 for it and rings.
  `DiskIsTheOneThere` speaks of doorbells whose capability has one.
- `inventory.rs:53`: the mark that a report was cut short is written only where
  there is no room for it.
- `klog.rs:40`: "A line goes out whole." An NMI's own line can still fall into one:
  it is not held back by the flag. `NothingIsInterruptedInside` excepts it.

## 7. Plan

Done: the scheduler with messages, the FAT32 writer and reader, open
files, the disk driver, the discovery of devices, the frame allocator, page tables
and the boot, processes' memory, the event log, the loader, the heap, the keyboard,
interrupts with the lock, the log and the console, and the host tools. Proved:
section 4.

To prove next: of `ProcessMemory` that no frame serves two. Liveness, and what the folds of `ProcessMemory` and `BootMemory` compute, stay
with TLC.

To model next: system calls composed with the ranges of `ElfProgram`, so that a
call's pointer checks are part of its step (`user.rs`).
