--------------------------- MODULE ProcessMemory ---------------------------
(***************************************************************************)
(* What a process costs and what comes back when it has ended: `spawn`,    *)
(* `spawn_elf` and `destroy` of kernel/src/process.rs over the frame       *)
(* allocator, driven as `run` in kernel/src/lib.rs drives them.  A first   *)
(* round of programs is started, runs until all have ended and is given    *)
(* back; then the shell, in a round of its own; when the shell ends, every *)
(* dead process is given back again.                                       *)
(*                                                                         *)
(* A program is its number of pages.  Its pages and its stack lie in the   *)
(* same two megabytes (0x400000 and 0x500000), so one chain of three       *)
(* tables below the root maps them all, and the kernel's own tables        *)
(* already reach the area its stacks are mapped in.  The build is the one  *)
(* `cargo xtask` makes, with debug assertions.                             *)
(***************************************************************************)
EXTENDS FrameBitmap, Sequences, SequencesExt

CONSTANTS
    PROGRAMS,             \* programs in the first round (9 with the ELF)
    MAX_PROCESSES,        \* slots of the scheduler (16)
    SYSCALL_STACK_PAGES,  \* pages of a process's kernel stack (4)
    MAX_FRAMES,           \* frames a process may hold (32)
    MaxPages,             \* bound: pages of a program
    MemorySizes           \* the amounts of usable memory considered, in frames

\* What the constants must satisfy.
MemoryAssumption ==
    /\ {PROGRAMS, MAX_PROCESSES, MAX_FRAMES} \subseteq Nat
    /\ SYSCALL_STACK_PAGES \in Nat \ {0}
    /\ MaxPages \in Nat \ {0} /\ MemorySizes \subseteq Nat

VARIABLES
    a,            \* the frame allocator
    kernel,       \* the frames the kernel held before any process
    entries,      \* page tables: the frames a table's lower half points at
    stack_area,   \* the pages of the stacks area that are mapped, to what
    next_stack,   \* the guard page the next stack goes above
    slots,        \* the scheduler's slots: processes, never removed
    pc,           \* where `run` is
    which,        \* the program to start or the slot to give back
    started,      \* programs that landed in the slot they were built for
    free_before_any_process,
    unlucky       \* some process could not be started

vars == <<a, kernel, entries, stack_area, next_stack, slots, pc, which,
          started, free_before_any_process, unlucky>>

-----------------------------------------------------------------------------
(* Taking frames one after another until one is not to be had.             *)

TakeOne(taking, purpose) ==
    IF taking.short \/ allocate(taking.a) = NoFrame
    THEN [taking EXCEPT !.short = TRUE]
    ELSE [taking EXCEPT !.a = allocate_for(taking.a, purpose),
                        !.got = Append(@, <<allocate(taking.a), purpose>>)]

Take(alloc, plan) == FoldLeft(TakeOne, [a |-> alloc, got |-> <<>>, short |-> FALSE], plan)

GiveBackOne(alloc, held) == deallocate_as(alloc, held[1], held[2])

GiveBack(alloc, frames) == FoldLeft(GiveBackOne, alloc, frames)

IsLeaf(held) == held[2] # "PageTable"
IsTable(held) == held[2] = "PageTable"
Repeat(x, n) == [i \in 1 .. n |-> x]

-----------------------------------------------------------------------------
(* Kernel stacks.                                                          *)

\* `map_with_guard`: all of the pages or, after its rollback, none.
map_with_guard(alloc) ==
    LET taking == Take(alloc, Repeat("Stack", SYSCALL_STACK_PAGES)) IN
    IF taking.short THEN [ok |-> FALSE, a |-> GiveBack(taking.a, taking.got), frames |-> <<>>]
    ELSE [ok |-> TRUE, a |-> taking.a, frames |-> taking.got]

StackPages(guard) == guard + 1 .. guard + SYSCALL_STACK_PAGES

-----------------------------------------------------------------------------
(* Starting a process.                                                     *)

\* Root, code, stack, then the three tables mapping the code needs.  When
\* one is missing `?` returns at once and what was taken stays taken.
spawn(alloc) ==
    LET taking == Take(alloc, <<"PageTable", "Kernel", "Stack",
                                "PageTable", "PageTable", "PageTable">>)
    IN  [ok |-> ~taking.short, a |-> taking.a, got |-> taking.got]

\* The first page of a program brings the tables with it; the rest do not.
\* A page that is already mapped ends the load after its frame is taken.
ElfPlan(pages, shared) ==
    <<"PageTable", "Kernel", "PageTable", "PageTable", "PageTable">>
        \o Repeat("Kernel", (IF shared > 0 THEN shared ELSE pages) - 1)
        \o (IF shared > 0 THEN <<>> ELSE <<"Stack">>)

\* `took` refuses the frame after MAX_FRAMES, which then is in no list.
UpToRefusal(plan) ==
    LET leaves(n) == Cardinality({i \in 1 .. n : plan[i] # "PageTable"})
        kept == {n \in 1 .. Len(plan) : leaves(n - 1) <= MAX_FRAMES}
    IN  SubSeq(plan, 1, Cardinality(kept))

\* On failure `give_back` returns the recorded frames and not the tables.
spawn_elf(alloc, pages, shared) ==
    LET plan == ElfPlan(pages, shared)
        taking == Take(alloc, UpToRefusal(plan))
        leaves == SelectSeq(taking.got, IsLeaf)
        recorded == SubSeq(leaves, 1, IF Len(leaves) < MAX_FRAMES THEN Len(leaves) ELSE MAX_FRAMES)
        ok == ~taking.short /\ shared = 0 /\ Len(leaves) <= MAX_FRAMES
    IN  [ok |-> ok, got |-> taking.got,
         a |-> IF ok THEN taking.a ELSE GiveBack(taking.a, recorded)]

\* The tables a successful start built: root, then one below another, the
\* last pointing at the program's own frames.
Tables(got) == SelectSeq(got, IsTable)
Leaves(got) == SelectSeq(got, IsLeaf)

\* Mutant: a new table is not cleared.
Linked_over_old(got) ==
    LET t == Tables(got) IN
    [n \in Frames |->
        entries[n] \cup
            CASE n = t[1][1] -> {t[2][1]}
              [] n = t[2][1] -> {t[3][1]}
              [] n = t[3][1] -> {t[4][1]}
              [] n = t[4][1] -> {leaf[1] : leaf \in ToSet(Leaves(got))}
              [] OTHER -> {}]

Linked(got) ==
    LET t == Tables(got) IN
    [n \in Frames |->
        IF \E i \in DOMAIN got : got[i][1] = n THEN
            CASE n = t[1][1] -> {t[2][1]}
              [] n = t[2][1] -> {t[3][1]}
              [] n = t[3][1] -> {t[4][1]}
              [] n = t[4][1] -> {leaf[1] : leaf \in ToSet(Leaves(got))}
              [] OTHER -> {}
        ELSE entries[n]]

\* A kernel stack, then the process on it, then a slot for it.
Start(spawned(_), onNoStack, onDone) ==
    LET stack == map_with_guard(a) IN
    IF ~stack.ok
    THEN /\ a' = stack.a
         /\ unlucky' = TRUE
         /\ pc' = onNoStack
         /\ UNCHANGED <<entries, stack_area, next_stack, slots, started>>
    ELSE LET new_process == spawned(stack.a)
             pages == StackPages(next_stack)
         IN  /\ a' = new_process.a
             /\ stack_area' = [p \in DOMAIN stack_area |->
                    IF p \in pages THEN stack.frames[p - next_stack][1] ELSE stack_area[p]]
             /\ next_stack' = next_stack + SYSCALL_STACK_PAGES + 1
             /\ LET added == new_process.ok /\ Len(slots) < MAX_PROCESSES IN
                /\ entries' = IF new_process.ok THEN Linked(new_process.got) ELSE entries
                /\ slots' = IF added
                            THEN Append(slots, [frames |-> Leaves(new_process.got),
                                                root |-> new_process.got[1][1],
                                                guard |-> next_stack, state |-> "Ready"])
                            ELSE slots
                /\ started' = IF added /\ Len(slots) = which THEN started + 1 ELSE started
                /\ unlucky' = (unlucky \/ ~added)
                /\ pc' = onDone[added]

StartFlat ==
    /\ pc = "starting" /\ which < PROGRAMS
    /\ Start(spawn, "started", [added \in BOOLEAN |-> "starting"])
    /\ which' = which + 1
    /\ UNCHANGED <<kernel, free_before_any_process>>

StartElf ==
    /\ pc = "starting" /\ which < PROGRAMS
    /\ \E pages \in 1 .. MaxPages, shared \in {0} \cup 2 .. MaxPages :
        /\ shared <= pages
        /\ LET load(alloc) == spawn_elf(alloc, pages, shared) IN
           Start(load, "started", [added \in BOOLEAN |-> "starting"])
    /\ which' = which + 1
    /\ UNCHANGED <<kernel, free_before_any_process>>

-----------------------------------------------------------------------------
(* Running and giving back.                                                *)

\* `run_until_empty` comes back when every process has ended; with no
\* program in its own slot there is no round.
FirstRound ==
    /\ pc = "started" \/ (pc = "starting" /\ which = PROGRAMS)
    /\ IF started > 0
       THEN slots' = [i \in DOMAIN slots |-> [slots[i] EXCEPT !.state = "Dead"]] /\ pc' = "giving_back"
       ELSE UNCHANGED slots /\ pc' = "shell"
    /\ which' = 1
    /\ UNCHANGED <<a, kernel, entries, stack_area, next_stack, started, free_before_any_process, unlucky>>

\* Mutant: the kernel's half is freed too.
Walked_both_halves(root) ==
    LET below(tables) == UNION {entries[t] : t \in tables}
        pointers == entries[root]
        directories == below(pointers)
    IN  {root} \cup pointers \cup directories \cup below(directories) \cup kernel

\* Mutant: the root is forgotten.
Walked_below_root(root) ==
    LET below(tables) == UNION {entries[t] : t \in tables}
        pointers == entries[root]
        directories == below(pointers)
    IN  pointers \cup directories \cup below(directories)

\* The frames `free_lower_half` offers: three levels below the root and the
\* root itself.
Walked(root) ==
    LET below(tables) == UNION {entries[t] : t \in tables}
        pointers == entries[root]
        directories == below(pointers)
    IN  {root} \cup pointers \cup directories \cup below(directories)

\* Its memory, its kernel stack, its tables.  Unmapping a page that is not
\* mapped, or giving back a stack frame that is refused, fails an assertion.
destroy(process, onDone) ==
    LET memory == GiveBack(a, process.frames)
        pages == StackPages(process.guard)
        sound == \A p \in pages : /\ stack_area[p] # NoFrame
                                  /\ MayGiveBack(memory, stack_area[p], "Stack")
        stack == GiveBack(memory, [i \in 1 .. SYSCALL_STACK_PAGES |->
                                        <<stack_area[process.guard + i], "Stack">>])
        tables == GiveBack(stack, SetToSeq({<<t, "PageTable">> : t \in Walked(process.root)}))
    IN  IF ~sound
        THEN /\ a' = memory
             /\ pc' = "panicked"
             /\ UNCHANGED <<entries, stack_area, which>>
        ELSE /\ a' = tables
             /\ stack_area' = [p \in DOMAIN stack_area |->
                                   IF p \in pages THEN NoFrame ELSE stack_area[p]]
             /\ entries' = [entries EXCEPT ![process.root] = {}]
             /\ IF which = Len(slots)
                THEN pc' = onDone /\ which' = 1
                ELSE which' = which + 1 /\ UNCHANGED pc

GiveBackFirst ==
    /\ pc = "giving_back"
    /\ destroy(slots[which], "shell")
    /\ UNCHANGED <<kernel, next_stack, slots, started, free_before_any_process, unlucky>>

StartShell ==
    /\ pc = "shell"
    /\ \E pages \in 1 .. MaxPages :
        LET load(alloc) == spawn_elf(alloc, pages, 0) IN
        Start(load, "kernel_shell", [added \in BOOLEAN |-> IF added THEN "in_shell" ELSE "kernel_shell"])
    /\ UNCHANGED <<kernel, which, free_before_any_process>>

ShellEnds ==
    /\ pc = "in_shell"
    /\ slots' = [i \in DOMAIN slots |-> [slots[i] EXCEPT !.state = "Dead"]]
    /\ which' = 1
    /\ pc' = "giving_all_back"
    /\ UNCHANGED <<a, kernel, entries, stack_area, next_stack, started, free_before_any_process, unlucky>>

\* `dead_processes` are all that ever ended, the first round's included.
GiveBackAll ==
    /\ pc = "giving_all_back"
    /\ destroy(slots[which], "kernel_shell")
    /\ UNCHANGED <<kernel, next_stack, slots, started, free_before_any_process, unlucky>>

-----------------------------------------------------------------------------
StackAreaPages == 0 .. (PROGRAMS + 1) * (SYSCALL_STACK_PAGES + 1)

\* The kernel holds one table of its own; nothing else is taken.
Init ==
    /\ \E size \in MemorySizes :
        LET empty == with_purposes(new({[start |-> 0, pages |-> size, kind |-> "Usable"]}))
            taking == Take(empty, <<"PageTable">>)
        IN  /\ ~taking.short
            /\ a = taking.a
            /\ kernel = {taking.got[1][1]}
            /\ free_before_any_process = taking.a.free
    /\ entries = [n \in Frames |-> {}]
    /\ stack_area = [p \in StackAreaPages |-> NoFrame]
    /\ next_stack = 0
    /\ slots = <<>>
    /\ pc = "starting"
    /\ which = 0 /\ started = 0
    /\ unlucky = FALSE

Next ==
    \/ StartFlat \/ StartElf \/ FirstRound \/ GiveBackFirst
    \/ StartShell \/ ShellEnds \/ GiveBackAll

Spec == Init /\ [][Next]_vars

-----------------------------------------------------------------------------
\* Types; in particular every stack lies inside the stacks area.
TypeOK ==
    /\ a.held \subseteq Frames /\ kernel \subseteq Frames
    /\ a.free = Cardinality(Frames \ a.held)
    /\ entries \in [Frames -> SUBSET Frames]
    /\ stack_area \in [StackAreaPages -> Frames \cup {NoFrame}]
    /\ next_stack \in StackAreaPages
    /\ \A i \in DOMAIN slots :
        /\ slots[i].root \in Frames /\ slots[i].state \in {"Ready", "Dead"}
        /\ StackPages(slots[i].guard) \subseteq StackAreaPages
        /\ Len(slots[i].frames) <= MAX_FRAMES
    /\ Len(slots) <= MAX_PROCESSES
    /\ pc \in {"starting", "started", "giving_back", "shell", "in_shell",
               "giving_all_back", "kernel_shell", "panicked"}
    /\ which \in 0 .. PROGRAMS + 1 /\ started \in 0 .. PROGRAMS

Alive == {i \in DOMAIN slots : slots[i].state = "Ready"}
MemoryOf(i) == {held[1] : held \in ToSet(slots[i].frames)}
StackOf(i) == {stack_area[p] : p \in StackPages(slots[i].guard)}
TablesOf(i) == Walked(slots[i].root)

\* No frame serves two masters: the memory, the kernel stack and the page
\* tables of every process that lives are held, apart from each other, from
\* every other process's and from the kernel's own, which nothing that is
\* given back, the second time included, takes away.
NoFrameServesTwo ==
    /\ TypeOK
    /\ \A n \in kernel : n \in a.held /\ a.purposes[n] = "PageTable"
    /\ \A i \in Alive :
        /\ \A held \in ToSet(slots[i].frames) : a.purposes[held[1]] = held[2]
        /\ \A n \in StackOf(i) : n # NoFrame /\ a.purposes[n] = "Stack"
        /\ \A n \in TablesOf(i) : a.purposes[n] = "PageTable"
        /\ MemoryOf(i) \cap StackOf(i) = {}
        /\ kernel \cap TablesOf(i) = {}
        /\ Cardinality(MemoryOf(i)) = Len(slots[i].frames)
        /\ \A j \in Alive \ {i} :
            /\ (MemoryOf(i) \cup StackOf(i)) \cap (MemoryOf(j) \cup StackOf(j)) = {}
            /\ TablesOf(i) \cap TablesOf(j) = {}

\* What a table of a live process maps is that process's memory and nothing
\* else, so no address of its reaches anybody else's frames.
MapsOnlyItsOwn ==
    \A i \in Alive :
        LET leaves == UNION {entries[t] : t \in TablesOf(i)} \ TablesOf(i)
        IN  leaves = MemoryOf(i)

\* When every program could be started, the allocator has, after the first
\* round, the frames it had before any process existed: the balance `run`
\* measures on every boot.
EverythingComesBack ==
    (pc = "shell" /\ ~unlucky) => a.free = free_before_any_process

\* kernel/src/memory/stacks.rs, `rollback_stack`: `debug_assert!(frame.is_ok())`
\* and `debug_assert!(returned.is_ok())`.
AssertionsHold == pc # "panicked"
=============================================================================
