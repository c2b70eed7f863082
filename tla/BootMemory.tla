----------------------------- MODULE BootMemory -----------------------------
(***************************************************************************)
(* How the kernel comes to own the machine's memory: `efi_main` of         *)
(* boot/src/main.rs, then `kmain`, `kernel_main`,                          *)
(* `continue_in_kernel_space` and the first half of `run` of               *)
(* kernel/src/lib.rs, with the parts of kernel/src/memory they call.       *)
(*                                                                         *)
(* The kernel starts on the firmware's page tables, stack and memory, at   *)
(* the address the firmware chose.  Step by step it takes frames, copies   *)
(* the root table, maps a heap and guarded stacks, moves its books and     *)
(* itself onto them, maps its own image a second time in kernel space and  *)
(* goes on there, opens a window onto physical memory, asks the firmware   *)
(* to move too, empties the lower half, and only then takes the firmware's *)
(* memory into the pool.  Any step can be refused or run out of frames.    *)
(*                                                                         *)
(* A machine is what the firmware made of it: the size of its memory, the  *)
(* firmware's tables, its memory map as raw descriptors, where it loaded   *)
(* the image and whether it says so, the image, and the framebuffer.       *)
(***************************************************************************)
EXTENDS PageTables, PeImage

CONSTANTS
    Machines,                  \* the machines considered
    CAPACITY,                  \* regions a memory map holds (256)
    MAX_RUNTIME,               \* runtime descriptors `relocate` carries (64)
    DEFAULT_IDENTITY_LIMIT,    \* 4 GiB
    HEAP_PAGES,                \* pages of the heap (1024)
    HEAP_NEEDED,               \* pages its self-test and the moved books need
    KERNEL_STACK_PAGES,        \* 16
    DOUBLE_FAULT_STACK_PAGES,  \* 4
    SYSCALL_STACK_PAGES,       \* 4
    POOL_SAMPLE                \* frames the pool's self-test takes (256)

\* What the constants must satisfy.
BootAssumption ==
    /\ {CAPACITY, MAX_RUNTIME, HEAP_PAGES, HEAP_NEEDED, POOL_SAMPLE} \subseteq Nat
    /\ {KERNEL_STACK_PAGES, DOUBLE_FAULT_STACK_PAGES, SYSCALL_STACK_PAGES} \subseteq Nat \ {0}
    /\ DEFAULT_IDENTITY_LIMIT % GIB = 0 /\ DEFAULT_IDENTITY_LIMIT <= SLOT

VARIABLES
    machine,    \* the machine; it does not change
    info,       \* `BootInfo`: what the boot loader found out
    pc,         \* the step the boot is at
    t,          \* page tables and frame allocator (PageTables)
    window,     \* where frames are zeroed: `PhysWindow`'s base
    heap,       \* pages of the heap that are mapped
    stacks,     \* bottom and pages of the kernel, double-fault and syscall stacks
    uses,       \* addresses in use: code, stack, handlers, log sink, screen...
    moved,      \* slots of the image that were relocated
    own_tables  \* nothing of the firmware's tables is in use

vars == <<machine, info, pc, t, window, heap, stacks, uses, moved, own_tables>>

None == [start |-> 0, len |-> 0]      \* no range known
Nowhere == -1

-----------------------------------------------------------------------------
(* What the boot loader finds out while the firmware still answers.        *)

classify_memory_type(type) ==
    CASE type = "Conventional" -> "Usable"
      [] type \in {"BootServicesCode", "BootServicesData"} -> "BootServices"
      [] type = "RuntimeServicesCode" -> "RuntimeCode"
      [] type = "RuntimeServicesData" -> "RuntimeData"
      [] OTHER -> "Reserved"

\* The most permissive caching a range supports.
classify_attributes(bits) ==
    [runtime |-> "Runtime" \in bits,
     cache |-> CASE "WriteBack" \in bits -> "WriteBack"
                 [] "WriteBack" \notin bits /\ "WriteThrough" \in bits -> "WriteThrough"
                 [] bits \cap {"WriteBack", "WriteThrough"} = {} /\ "WriteCombine" \in bits -> "WriteCombining"
                 [] bits \cap {"WriteBack", "WriteThrough", "WriteCombine"} = {}
                        /\ "Uncacheable" \in bits -> "Uncacheable"
                 [] OTHER -> "Unspecified"]

Region(descriptor) ==
    [start |-> descriptor.start, pages |-> descriptor.pages,
     kind |-> classify_memory_type(descriptor.type),
     runtime |-> classify_attributes(descriptor.bits).runtime,
     cache |-> classify_attributes(descriptor.bits).cache]

\* What does not fit is dropped, and the map says so.
build_memory_map(descriptors) ==
    LET kept == IF Len(descriptors) < CAPACITY THEN Len(descriptors) ELSE CAPACITY IN
    [regions |-> [i \in 1 .. kept |-> Region(descriptors[i])],
     complete |-> Len(descriptors) <= CAPACITY]

\* The code of the image, if its headers can be read: a sequence of ranges.
query_with_code(range, image) ==
    LET sections == code_sections(image)
        placed == at(sections.sections, range.start, ADDRESS_MAX)
    IN  IF sections.ok /\ placed.ok THEN placed.ranges ELSE <<>>

\* The linear framebuffer, if there is one whose pixels the console can draw.
query_framebuffer(gop) ==
    IF gop.format \in {"Rgb", "Bgr"} THEN [start |-> gop.start, len |-> gop.len] ELSE None

\* The log sink is this image's, and the console draws where the framebuffer
\* is.
EfiMain ==
    /\ pc = "efi_main"
    /\ uses' = [uses EXCEPT !.sink = uses.code,
                            !.screen = IF query_framebuffer(machine.gop) = None THEN Nowhere
                                       ELSE machine.gop.start]
    /\ LET range == IF machine.tells THEN [start |-> machine.loaded, len |-> machine.image.len] ELSE None
           map_read == build_memory_map(machine.descriptors)
       IN  info' = [map |-> map_read.regions, complete |-> map_read.complete,
                    kernel_image |-> range,
                    kernel_code |-> IF range = None THEN <<>> ELSE query_with_code(range, machine.image),
                    framebuffer |-> query_framebuffer(machine.gop)]
    /\ pc' = "kmain"
    /\ UNCHANGED <<machine, t, window, heap, stacks, moved, own_tables>>

-----------------------------------------------------------------------------
(* `kmain`.                                                                *)

\* Interrupts come on, with handlers where the code is, and the bitmap is
\* made from the map.
StartKmain ==
    /\ pc = "kmain"
    /\ uses' = [uses EXCEPT !.handlers = uses.code, !.interrupts = TRUE]
    /\ t' = [t EXCEPT !.a = new(ToSet(info.map))]
    /\ pc' = "verify"
    /\ UNCHANGED <<machine, info, window, heap, stacks, moved, own_tables>>

\* How many frames from `frame` on one page of the live tables maps at
\* their own addresses, writable; 0 if it does not map `frame` so.
active_identity_writable_run(frame) ==
    LET to == translate(t, frame * PAGE) IN
    IF to.mapped /\ to.writable /\ to.phys = frame * PAGE
    THEN (to.page_size - ((frame * PAGE) % to.page_size)) \div PAGE
    ELSE 0

\* The walk goes from page to page, and stops at a frame that the allocator
\* would hand out and the firmware does not map writable where it is.
VerifyIdentity ==
    LET covered == WORDS * BITS_PER_WORD
        sound[frame \in 0 .. covered + GIB] ==
            LET run == active_identity_writable_run(frame) IN
            \/ frame >= covered
            \/ run > 0 /\ sound[frame + run]
            \/ run = 0 /\ ~manages(t.a, frame) /\ sound[frame + 1]
    IN  /\ pc = "verify"
        /\ pc' = IF sound[0] THEN "self_test" ELSE "panic"
        /\ UNCHANGED <<machine, info, t, window, heap, stacks, uses, moved, own_tables>>

\* Two frames are taken, one is given back and another taken, and both go
\* back; the stack in use must not be a frame it would hand out.
self_test(a) ==
    LET first == allocate_for(a, "Kernel")
        second == allocate_for(first, "Kernel")
        without == deallocate_as(second, allocate(a), "Kernel")
        again == allocate_for(without, "Kernel")
        back == deallocate_as(again, allocate(without), "Kernel")
    IN  IF a.free < 2 THEN a ELSE deallocate_as(back, allocate(first), "Kernel")

SelfTest ==
    /\ pc = "self_test"
    /\ IF manages(t.a, uses.stack \div PAGE)
       THEN pc' = "panic" /\ UNCHANGED t
       ELSE pc' = "take_over" /\ t' = [t EXCEPT !.a = self_test(t.a)]
    /\ UNCHANGED <<machine, info, window, heap, stacks, uses, moved, own_tables>>

\* The paging mode is checked, and that the root and the stack are mapped at
\* their own addresses; then the copy of the root is loaded.
take_over ==
    IF "FiveLevelPaging" \in machine.mode \/ "Pcid" \in machine.mode
         \/ "NoExecute" \notin machine.mode
    THEN Refused(t, "PagingMode")
    ELSE IF \E address \in {t.root, uses.stack} :
                LET to == translate(t, address) IN ~to.mapped \/ to.phys # address
    THEN Refused(t, "NotIdentityMapped")
    ELSE adopt(t, t.root)

TakeOver ==
    /\ pc = "take_over"
    /\ t' = flush_all(Accepted(take_over))
    /\ pc' = IF Failed(take_over) THEN "firmware_shell" ELSE "paging_test"
    /\ UNCHANGED <<machine, info, window, heap, stacks, uses, moved, own_tables>>

\* A page is mapped, mapped again in vain, unmapped, unmapped again in vain
\* and its frame given back.  Its tables stay.
PagingSelfTest ==
    \E frame \in {allocate(t.a)} :
    \E mapped \in {map([t EXCEPT !.a = allocate_for(@, "Kernel")], KERNEL_SPACE_BASE, frame * PAGE,
                      kernel_flags(TRUE, FALSE))} :
    \E again \in {map(mapped, KERNEL_SPACE_BASE, frame * PAGE, kernel_flags(TRUE, FALSE))} :
    \E gone \in {unmap(Accepted(again), KERNEL_SPACE_BASE)} :
        /\ pc = "paging_test"
        /\ IF frame = NoFrame THEN pc' = "heap" /\ UNCHANGED t
           ELSE IF Failed(mapped) THEN pc' = "panic" /\ t' = Accepted(mapped)
           ELSE /\ pc' = IF /\ again.err = "AlreadyMapped"
                            /\ translate(mapped, KERNEL_SPACE_BASE).phys = frame * PAGE
                            /\ ~Failed(gone) /\ unmap(gone, KERNEL_SPACE_BASE).err = "NotMapped"
                            /\ MayGiveBack(gone.a, frame, "Kernel")
                         THEN "heap" ELSE "panic"
                /\ t' = [gone EXCEPT !.a = deallocate_as(@, frame, "Kernel")]
        /\ UNCHANGED <<machine, info, window, heap, stacks, uses, moved, own_tables>>

-----------------------------------------------------------------------------
(* Mapping fresh frames: the heap and the stacks.                          *)

\* `frame` was taken for the next page of `w`, and mapped there or not; if
\* not, it goes back.
Mapped(w, mapped, frame, purpose) ==
    IF Failed(mapped)
    THEN [w EXCEPT !.short = TRUE,
                   !.t = Accepted([mapped EXCEPT !.a = deallocate_as(@, frame, purpose)])]
    ELSE [w EXCEPT !.t = mapped, !.pages = @ + 1]

\* Page after page from `first` on, until a frame or a table is missing.
MapFresh(from, first, pages, purpose) ==
    LET taken(u) == [u EXCEPT !.a = allocate_for(@, purpose)]
        step(w, i) ==
            IF w.short THEN w
            ELSE IF allocate(w.t.a) = NoFrame THEN [w EXCEPT !.short = TRUE]
            ELSE Mapped(w, map(taken(w.t), first + (i - 1) * PAGE, allocate(w.t.a) * PAGE,
                               kernel_flags(TRUE, FALSE)), allocate(w.t.a), purpose)
    IN  FoldLeft(step, [t |-> from, pages |-> 0, short |-> FALSE], [i \in 1 .. pages |-> i])

\* `heap::init`: what was mapped is the heap, all of it or not.  Its
\* self-test panics in a heap too small for it.
HeapInit ==
    /\ pc = "heap"
    /\ \E mapping \in {MapFresh(t, KERNEL_HEAP_START, HEAP_PAGES, "Heap")} :
          /\ t' = mapping.t
          /\ heap' = mapping.pages
          /\ pc' = IF mapping.pages \in 1 .. HEAP_NEEDED - 1 THEN "panic" ELSE "stacks"
    /\ UNCHANGED <<machine, info, window, stacks, uses, moved, own_tables>>

\* Mutant: the frames go back while their pages are still mapped.
rollback_stack_mapped(from, bottom, pages) ==
    LET frame(u, page) == translate(u, page).phys \div PAGE
        step(u, i) == [u EXCEPT !.a = deallocate_as(@, frame(u, bottom + (i - 1) * PAGE), "Stack")]
    IN  FoldLeft(step, from, [i \in 1 .. pages |-> i])

rollback_stack(from, bottom, pages) ==
    LET frame(u, page) == translate(u, page).phys \div PAGE
        back(u, page) == [unmap(u, page) EXCEPT !.a = deallocate_as(@, frame(u, page), "Stack")]
        step(u, i) == back(u, bottom + (i - 1) * PAGE)
    IN  FoldLeft(step, from, [i \in 1 .. pages |-> i])

undo(from, stack) == rollback_stack(from, stack.bottom, stack.pages)

WholeOrNone(mapping, stack) ==
    IF mapping.short
    THEN [ok |-> FALSE, t |-> undo(mapping.t, [stack EXCEPT !.pages = mapping.pages]), stack |-> stack]
    ELSE [ok |-> TRUE, t |-> mapping.t, stack |-> stack]

\* All of the pages above the guard page, or none.
map_with_guard(from, guard, pages) ==
    WholeOrNone(MapFresh(from, guard + PAGE, pages, "Stack"), [bottom |-> guard + PAGE, pages |-> pages])

top(stack) == stack.bottom + stack.pages * PAGE

WithSyscall(kernel, double_fault, syscall) ==
    IF ~syscall.ok
    THEN [t |-> undo(undo(syscall.t, double_fault.stack), kernel.stack), stacks |-> <<>>]
    ELSE [t |-> syscall.t, stacks |-> <<kernel.stack, double_fault.stack, syscall.stack>>]

WithDoubleFault(kernel, double_fault) ==
    IF ~double_fault.ok THEN [t |-> undo(double_fault.t, kernel.stack), stacks |-> <<>>]
    ELSE WithSyscall(kernel, double_fault,
                     map_with_guard(double_fault.t, top(double_fault.stack), SYSCALL_STACK_PAGES))

WithKernel(kernel) ==
    IF ~kernel.ok THEN [t |-> kernel.t, stacks |-> <<>>]
    ELSE WithDoubleFault(kernel, map_with_guard(kernel.t, top(kernel.stack), DOUBLE_FAULT_STACK_PAGES))

\* Three stacks one above the other, or none.
map_kernel_stacks(from) == WithKernel(map_with_guard(from, KERNEL_STACKS_START, KERNEL_STACK_PAGES))

MapStacks ==
    /\ pc = "stacks"
    /\ \E made \in {map_kernel_stacks(t)} :
          /\ t' = made.t
          /\ stacks' = made.stacks
          /\ uses' = IF made.stacks = <<>> THEN uses
                     ELSE [uses EXCEPT !.double_fault = top(made.stacks[2]) - PAGE]
          /\ pc' = IF made.stacks # <<>> /\ heap > 0 THEN "move_off" ELSE "firmware_shell"
    /\ UNCHANGED <<machine, info, window, heap, moved, own_tables>>

\* The books and the console go to the heap, with what each frame is for
\* written down from now on, and the kernel goes on on its own stack.
MoveOffFirmwareMemory ==
    /\ pc = "move_off"
    /\ t' = [t EXCEPT !.a = with_purposes(@)]
    /\ uses' = [uses EXCEPT !.books = KERNEL_HEAP_START, !.stack = top(stacks[1]) - PAGE]
    /\ pc' = "kernel_main"
    /\ UNCHANGED <<machine, info, window, heap, stacks, moved, own_tables>>

-----------------------------------------------------------------------------
(* `kernel_main`: out of the address the firmware chose.                   *)

\* The image a second time, its code read-only, until a page of it cannot be
\* mapped; what was mapped stays.
AliasFlags(page, code) ==
    IF code = <<>> THEN kernel_flags(TRUE, TRUE)
    ELSE kernel_flags(~ \E c \in ToSet(code) : contains(c, page) /\ end(c) >= page + PAGE,
                      \E c \in ToSet(code) : overlaps(c, page, page + PAGE))

LabelUnlessFailed(u, frame, purpose) ==
    IF Failed(u) THEN u ELSE [u EXCEPT !.a = label(@, frame, purpose)]

map_alias(from, base, image, code) ==
    LET alias(u, page) ==
            LabelUnlessFailed(map(u, base + page - align_down(image.start), page, AliasFlags(page, code)),
                              page \div PAGE, "Kernel")
        step(u, i) == IF Failed(u) THEN u ELSE alias(u, align_down(image.start + (i - 1) * PAGE))
    IN  FoldLeft(step, from, [i \in 1 .. div_ceil(image.len, PAGE) |-> i])

RelocateUnlessFailed(mapped, found) ==
    IF Failed(mapped) THEN [t |-> mapped, slots |-> {}]
    ELSE IF ~found.ok THEN [t |-> Refused(mapped, found.err), slots |-> {}]
    ELSE [t |-> mapped, slots |-> found.slots]

\* First the alias, then the image's own addresses.
prepare(from, base, image, code) ==
    IF image.start % PAGE # 0 \/ base % PAGE # 0
    THEN [t |-> Refused(from, "Unaligned"), slots |-> {}]
    ELSE IF ~checked_add(image.start, image.len)
    THEN [t |-> Refused(from, "OutOfRange"), slots |-> {}]
    ELSE RelocateUnlessFailed(map_alias(from, base, image, code), relocations(machine.image))

\* Interrupts stay off from the move until the far side has reinstalled what
\* they need; if there is no move, they come back on here. `higher_half::moved`
\* finds the twin of the code that runs, which is none if it is not in the
\* image; by then the image has been relocated.
KernelMain ==
    /\ pc = "kernel_main"
    /\ IF info.kernel_image = None
       THEN pc' = "run" /\ UNCHANGED <<t, uses, moved>>
       ELSE \E plan \in {prepare(t, KERNEL_IMAGE_START, info.kernel_image, info.kernel_code)} :
            /\ t' = Accepted(plan.t)
            /\ moved' = plan.slots
            /\ IF Failed(plan.t) \/ ~contains(info.kernel_image, uses.code)
               THEN pc' = "run" /\ UNCHANGED uses
               ELSE /\ pc' = "continue"
                    /\ uses' = [uses EXCEPT !.interrupts = FALSE,
                                            !.code = @ + KERNEL_IMAGE_START - info.kernel_image.start]
    /\ UNCHANGED <<machine, info, window, heap, stacks, own_tables>>

\* Mutant: the log sink keeps the address it was given in `efi_main`.
pointers_moved_but_the_sink(now) ==
    [now EXCEPT !.interrupts = TRUE, !.handlers = now.code]

\* `reinstall_descriptors`, `klog::install` and `enable`.
pointers_moved(now) ==
    [now EXCEPT !.interrupts = TRUE, !.handlers = now.code, !.sink = now.code]

\* The window opens; from then on frames are zeroed and tables written there,
\* and the console draws there if the window reaches its framebuffer.
ContinueInKernelSpace ==
    LET opened == map_physical_window(t, KERNEL_PHYSMAP_START, DEFAULT_IDENTITY_LIMIT)
        drawn_there == info.framebuffer # None /\ end(info.framebuffer) <= DEFAULT_IDENTITY_LIMIT
    IN  /\ pc = "continue"
        /\ IF Failed(opened)
           THEN t' = Accepted(opened) /\ uses' = pointers_moved(uses) /\ UNCHANGED window
           ELSE /\ window' = KERNEL_PHYSMAP_START
                /\ t' = [opened EXCEPT !.base = KERNEL_PHYSMAP_START]
                /\ uses' = [pointers_moved(uses) EXCEPT
                        !.screen = IF drawn_there THEN KERNEL_PHYSMAP_START + info.framebuffer.start
                                   ELSE @]
        /\ pc' = "run"
        /\ UNCHANGED <<machine, info, heap, stacks, moved, own_tables>>

-----------------------------------------------------------------------------
(* `run`, to where nothing of the firmware's tables is left in use.        *)

Overflows(region) == region.pages * PAGE > ADDRESS_MAX

RangeOf(region) == [start |-> region.start, len |-> region.pages * PAGE]

\* Code that runs through the identity map.
executable ==
    {writable_code(RangeOf(r), r.cache) : r \in {q \in ToSet(info.map) :
                                              q.kind = "RuntimeCode" /\ ~Overflows(q)}}
    \cup (IF info.kernel_code # <<>> THEN {read_only_code(c) : c \in ToSet(info.kernel_code)}
          ELSE IF info.kernel_image # None THEN {writable_code(info.kernel_image, "WriteBack")}
          ELSE {})

ranges_sound == ~ \E r \in ToSet(info.map) : r.kind = "RuntimeCode" /\ Overflows(r)

framebuffer_mapped ==
    info.framebuffer # None =>
        /\ info.framebuffer.len > 0
        /\ checked_add(info.framebuffer.start, info.framebuffer.len)
        /\ end(info.framebuffer) <= DEFAULT_IDENTITY_LIMIT

IsRuntime(region) == region.runtime

\* What the firmware needs to go on answering, in the map's order.
runtime_regions == SelectSeq(info.map, IsRuntime)

\* Every runtime region is sound and none was dropped.
every_range_sound ==
    info.complete /\ ~ \E r \in ToSet(runtime_regions) : Overflows(r)

\* `console::adopt`, and which way the lower half goes.
StartRun ==
    /\ pc = "run"
    /\ uses' = [uses EXCEPT !.console = uses.code]
    /\ pc' = IF window = KERNEL_PHYSMAP_START /\ ranges_sound
             THEN (IF every_range_sound THEN "firmware" ELSE "label")
             ELSE IF ranges_sound /\ framebuffer_mapped /\ executable # {}
             THEN "rebuild" ELSE "label"
    /\ UNCHANGED <<machine, info, t, window, heap, stacks, moved, own_tables>>

RebuildIdentityMap ==
    LET built == rebuild_identity(t, DEFAULT_IDENTITY_LIMIT, executable) IN
    /\ pc = "rebuild"
    /\ t' = Accepted(built)
    /\ own_tables' = ~Failed(built)
    /\ pc' = IF Failed(built) THEN "label" ELSE "reclaim"
    /\ UNCHANGED <<machine, info, window, heap, stacks, uses, moved>>

\* Every runtime page also at `base` and its physical address.
MapRuntime(from, base) ==
    LET step(u, page) == IF Failed(u) THEN u ELSE map(u, base + page.at, page.at, page.flags)
        pages(r) == [i \in 1 .. r.pages |->
            [at |-> align_down(r.start + (i - 1) * PAGE),
             flags |-> [kernel_flags(TRUE, r.kind = "RuntimeCode") EXCEPT !.cache = r.cache]]]
    IN  FoldLeft(step, from,
                 FlattenSeq([i \in DOMAIN runtime_regions |-> pages(runtime_regions[i])]))

\* The boot loader's `relocate`: it carries all of the firmware's runtime
\* descriptors or none, and the firmware may refuse.
relocate_may_answer ==
    LET claimed == {i \in DOMAIN machine.descriptors : "Runtime" \in machine.descriptors[i].bits} IN
    IF Cardinality(claimed) \in 1 .. MAX_RUNTIME THEN BOOLEAN ELSE {FALSE}

\* `move_to_kernel_space`: map the new addresses, then ask.
MoveFirmware ==
    LET mapped == MapRuntime(t, KERNEL_RUNTIME_START) IN
    /\ pc = "firmware"
    /\ t' = Accepted(mapped)
    /\ \E answer \in IF Failed(mapped) THEN {FALSE} ELSE relocate_may_answer :
          uses' = IF answer THEN [uses EXCEPT !.firmware = KERNEL_RUNTIME_START] ELSE uses
    /\ pc' = "empty"
    /\ UNCHANGED <<machine, info, window, heap, stacks, moved, own_tables>>

\* What has to stay in the lower half.
kept_below ==
    LET kept(r) == IF r.kind = "RuntimeCode" THEN writable_code(RangeOf(r), r.cache)
                   ELSE data(RangeOf(r), r.cache)
    IN  IF uses.firmware = KERNEL_RUNTIME_START THEN <<>>
        ELSE [i \in DOMAIN runtime_regions |-> kept(runtime_regions[i])]

EmptyLowerHalf ==
    LET emptied == keep_only(t, kept_below) IN
    /\ pc = "empty"
    /\ t' = Accepted(emptied)
    /\ own_tables' = ~Failed(emptied)
    /\ pc' = IF Failed(emptied) THEN "label" ELSE "reclaim"
    /\ UNCHANGED <<machine, info, window, heap, stacks, uses, moved>>

\* Up to `sample` frames are taken, written, checked and given back.
frame_pool_self_test(a, sample) ==
    LET take(w, i) ==
            LET frame == allocate(w.a) IN
            IF frame = NoFrame THEN w
            ELSE [a |-> allocate_for(w.a, "Kernel"), taken |-> Append(w.taken, frame)]
        took == FoldLeft(take, [a |-> a, taken |-> <<>>], [i \in 1 .. sample |-> i])
        back(b, frame) == deallocate_as(b, frame, "Kernel")
    IN  FoldLeft(back, took.a, took.taken)

Reclaim ==
    /\ pc = "reclaim"
    /\ t' = [t EXCEPT !.a = frame_pool_self_test(reclaim_boot_services(@), POOL_SAMPLE)]
    /\ pc' = "label"
    /\ UNCHANGED <<machine, info, window, heap, stacks, uses, moved, own_tables>>

\* Mutant: the last page is left out.
label_mapped_frames_short(from, first, pages, purpose) ==
    LET step(a, i) ==
            LET to == translate(from, first + (i - 1) * PAGE) IN
            IF to.mapped THEN label(a, to.phys \div PAGE, purpose) ELSE a
    IN  [from EXCEPT !.a = FoldLeft(step, @, [i \in 1 .. pages - 1 |-> i])]

label_mapped_frames(from, first, pages, purpose) ==
    LET step(a, i) ==
            LET to == translate(from, first + (i - 1) * PAGE) IN
            IF to.mapped THEN label(a, to.phys \div PAGE, purpose) ELSE a
    IN  [from EXCEPT !.a = FoldLeft(step, @, [i \in 1 .. pages |-> i])]

\* What was taken before purposes were written down gets its label.
LabelFrames ==
    LET with_heap == label_mapped_frames(t, KERNEL_HEAP_START, heap, "Heap")
        step(u, stack) == label_mapped_frames(u, stack.bottom, stack.pages, "Stack")
    IN  /\ pc = "label"
        /\ t' = FoldLeft(step, with_heap, stacks)
        /\ pc' = "up"
        /\ UNCHANGED <<machine, info, window, heap, stacks, uses, moved, own_tables>>

-----------------------------------------------------------------------------
NoInfo == [map |-> <<>>, complete |-> TRUE, kernel_image |-> None, kernel_code |-> <<>>,
           framebuffer |-> None]

Init ==
    /\ machine \in Machines
    /\ info = NoInfo
    /\ pc = "efi_main"
    /\ t = [a |-> new({}), tables |-> machine.tables, root |-> machine.root, base |-> 0,
            new |-> 0, err |-> "none", stale |-> {}]
    /\ window = 0
    /\ heap = 0
    /\ stacks = <<>>
    /\ uses = [code |-> machine.loaded, stack |-> machine.stack, books |-> machine.stack,
               handlers |-> Nowhere, interrupts |-> FALSE, sink |-> Nowhere,
               console |-> Nowhere, double_fault |-> Nowhere, firmware |-> 0,
               screen |-> Nowhere]
    /\ moved = {}
    /\ own_tables = FALSE

Next ==
    \/ EfiMain \/ StartKmain \/ VerifyIdentity \/ SelfTest \/ TakeOver \/ PagingSelfTest
    \/ HeapInit \/ MapStacks \/ MoveOffFirmwareMemory \/ KernelMain \/ ContinueInKernelSpace
    \/ StartRun \/ RebuildIdentityMap \/ MoveFirmware \/ EmptyLowerHalf \/ Reclaim \/ LabelFrames

Spec == Init /\ [][Next]_vars

-----------------------------------------------------------------------------
(* Properties.                                                             *)

\* The bitmap has been made, and no assertion has failed.
Underway == pc \notin {"efi_main", "kmain", "verify", "panic"}

RuntimeOf(descriptors) ==
    {d \in ToSet(descriptors) : "Runtime" \in d.bits /\ d.pages * PAGE <= ADDRESS_MAX}

PagesOf(d) == {d.start + i * PAGE : i \in 0 .. d.pages - 1}

\* The image runs at `base`: all of it is there, its code may be executed
\* and its data written.
RunsAt(base) ==
    \A i \in 0 .. div_ceil(machine.image.len, PAGE) - 1 :
        LET to == translate(t, base + i * PAGE)
            part(s) == overlaps([start |-> s.offset, len |-> s.len], i * PAGE, (i + 1) * PAGE)
        IN  /\ to.mapped /\ to.phys = machine.loaded + i * PAGE
            /\ \A s \in ToSet(machine.image.sections) :
                  part(s) => IF s.executable THEN to.executable ELSE to.writable

\* Pages of the heap and of the stacks.
FreshPages ==
    {KERNEL_HEAP_START + i * PAGE : i \in 0 .. heap - 1}
    \cup UNION {{s.bottom + i * PAGE : i \in 0 .. s.pages - 1} : s \in ToSet(stacks)}

\* Whatever is mapped where the heap and the stacks go, in use or not.
MappedThere ==
    LET pages == KERNEL_STACK_PAGES + DOUBLE_FAULT_STACK_PAGES + SYSCALL_STACK_PAGES + 3 IN
    {va \in {KERNEL_HEAP_START + i * PAGE : i \in 0 .. HEAP_PAGES - 1}
            \cup {KERNEL_STACKS_START + i * PAGE : i \in 0 .. pages - 1} : translate(t, va).mapped}

\* The kernel can execute its own code where it runs it (boot/src/image.rs on
\* an image whose place is not known: the kernel keeps "the whole lower half
\* executable rather than fault on its own code").
OwnCodeRuns == RunsAt(uses.code)

\* The console can write the framebuffer where it draws (`BootInfo`: the
\* kernel refuses to rebuild the map if it would leave the framebuffer
\* unmapped, "because the next character would fault").
ScreenIsMapped ==
    uses.screen # Nowhere =>
        \A page \in ToSet(Pages(info.framebuffer)) :
            ReachesWritable(t, uses.screen + (page - info.framebuffer.start), page)

\* The firmware finds its runtime memory where it looks for it.
FirmwareAnswers ==
    \A d \in RuntimeOf(machine.descriptors) : \A page \in PagesOf(d) :
        /\ ReachesWritable(t, uses.firmware + page, page)
        /\ d.type = "RuntimeServicesCode" => translate(t, uses.firmware + page).executable

\* At every step, whatever was refused or ran out, what the kernel is using is
\* mapped as it uses it: its code, the interrupt handlers if interrupts are
\* on, the log sink and the console's vtable where they point; its stacks,
\* heap and books, writable; the framebuffer where the console draws; the
\* firmware's runtime memory where the firmware answers, and the code of
\* `relocate`, a pointer from before the move, while it is called; every
\* frame the allocator may hand out where frames are zeroed, and every table
\* where tables are written.  No translation is stale, and the image's own
\* addresses were moved all together and inside it, or not at all
\* (`kmain`, `continue_in_kernel_space`, `run` of kernel/src/lib.rs).
WhatIsInUseIsMapped ==
    /\ OwnCodeRuns /\ ScreenIsMapped /\ FirmwareAnswers
    /\ \A base \in {uses.sink, uses.console} \cup (IF uses.interrupts THEN {uses.handlers} ELSE {})
             \cup (IF pc = "firmware" THEN {machine.loaded} ELSE {}) : base # Nowhere => RunsAt(base)
    /\ \A va \in {uses.stack, uses.books, uses.double_fault} \cup FreshPages :
          va # Nowhere => translate(t, va).mapped /\ translate(t, va).writable
    /\ Underway => /\ \A frame \in {f \in Frames : manages(t.a, f)} :
                         ReachesWritable(t, window + frame * PAGE, frame * PAGE)
                   /\ \A table \in ReachableTables(t) :
                         translate(t, t.base + table).mapped /\ translate(t, t.base + table).phys = table
    /\ t.stale = {}
    /\ moved # {} => /\ \A slot \in moved : slot + POINTER <= machine.image.len
                     /\ uses.code = KERNEL_IMAGE_START

\* The frames behind everything the kernel or the firmware is using.
InUse ==
    LET behind(va) == translate(t, va).phys \div PAGE
        spanned(range) == {page \div PAGE : page \in ToSet(Pages(range))}
    IN  {table \div PAGE : table \in ReachableTables(t)}
        \cup {behind(va) : va \in {uses.stack, uses.books} \cup MappedThere}
        \cup spanned([start |-> machine.loaded, len |-> machine.image.len])
        \cup (IF info.framebuffer = None THEN {} ELSE spanned(info.framebuffer))
        \cup UNION {{page \div PAGE : page \in PagesOf(d)} : d \in RuntimeOf(machine.descriptors)}

\* No frame in use, or only mapped as heap or stack, is one the allocator would
\* hand out: not while the firmware still owns part of memory, not when a step
\* gave back what it had taken, and
\* not once the firmware's memory has joined the pool, which therefore holds
\* no table a walk still reads.  No two pages of heap and stacks share a frame
\* or have one that is a table, and the firmware's own tables, shared by the
\* copy of the root, are never written (`take_over`, `rollback_stack`,
\* `reclaim_boot_services` after the lower half is the kernel's).
NothingInUseIsFree ==
    Underway =>
        /\ InUse \cap (Frames \ t.a.held) = {}
        /\ LET behind == {translate(t, va).phys : va \in MappedThere} IN
           Cardinality(behind) = Cardinality(MappedThere) /\ behind \cap ReachableTables(t) = {}
        /\ \A table \in DOMAIN machine.tables : t.tables[table] = machine.tables[table]

\* First addresses of the pages that are mapped.
MappedPages ==
    LET linked(table, i) == present(t, table, i) /\ ~read(t, table, i).huge
        to(table, i) == read(t, table, i).to
        third == {<<i * SLOT + j * GIB, to(to(t.root, i), j)>> : <<i, j>> \in
                    {ij \in Index \X Index : linked(t.root, ij[1]) /\ linked(to(t.root, ij[1]), ij[2])}}
        large == {<<p[1] + k * LARGE_PAGE, p[2], k>> : <<p, k>> \in
                    {pk \in third \X Index : present(t, pk[1][2], pk[2])}}
        small == {l \in large : linked(l[2], l[3])}
    IN  {l[1] : l \in large \ small}
        \cup {l[1] + n * PAGE : <<l, n>> \in
                 {ln \in small \X Index : present(t, to(ln[1][2], ln[1][3]), ln[2])}}

\* Once no firmware table is in use, nothing is both writable and executable
\* but the firmware's own code, a page of the image that holds both code and
\* data, and an image whose sections could not be read; the null page is not
\* mapped, nothing is a user program's, and if the lower half was emptied only
\* the firmware's runtime pages are left there (`rebuild_identity_map`,
\* `keep_only_in_lower_half`, `map_alias`).
RightsAreTight ==
    own_tables =>
        LET runtime == RuntimeOf(machine.descriptors)
            firmware_code(page) == \E d \in runtime :
                d.type = "RuntimeServicesCode" /\ page \in PagesOf(d)
            only_code(page) == \E c \in ToSet(info.kernel_code) :
                contains(c, page) /\ end(c) >= page + PAGE
            image_page(page) == overlaps(info.kernel_image, page, page + PAGE)
        IN  /\ \A va \in MappedPages :
                 LET to == translate(t, va) IN
                 /\ ~to.user
                 /\ to.executable /\ to.writable =>
                        firmware_code(to.phys) \/ (image_page(to.phys) /\ ~only_code(to.phys))
                 /\ va < KERNEL_SPACE_BASE /\ window # 0 =>
                        uses.firmware = 0 /\ \E d \in runtime : to.phys \in PagesOf(d)
            /\ ~translate(t, 0).mapped

\* When the boot is over the books say what each frame is held for: the heap's
\* and the stacks' frames carry their label, no other frame does, a table is
\* PageTable, or Boot if it was made before purposes were recorded, and the
\* self-tests kept nothing (`label_mapped_frames`, `frame_pool_self_test`).
LabelsTellTheTruth ==
    pc = "up" =>
        LET behind(pages) == {translate(t, va).phys \div PAGE : va \in pages}
            heap_pages == {va \in FreshPages : va < KERNEL_STACKS_START}
            labelled(purpose) == {f \in Frames : t.a.purposes[f] = purpose}
        IN  /\ labelled("Heap") = behind(heap_pages)
            /\ labelled("Stack") = behind(FreshPages \ heap_pages)
            /\ {table \div PAGE : table \in ReachableTables(t) \ DOMAIN machine.tables}
                   \subseteq labelled("PageTable") \cup labelled("Boot")
            /\ labelled("Kernel") = {}
=============================================================================
