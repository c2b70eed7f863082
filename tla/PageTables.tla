----------------------------- MODULE PageTables -----------------------------
(***************************************************************************)
(* The x86_64 page tables of arch/x86_64/src/paging.rs, as operators on a  *)
(* record: the frame allocator the tables come from, the tables that exist *)
(* (by physical address, as the entries that are present), the root, the   *)
(* address tables are reached at (`base` + physical), the table made last, *)
(* what went wrong, and the pages whose old translation the processor may  *)
(* still hold.                                                             *)
(*                                                                         *)
(* Addresses are numbered without the hole between the two halves: the     *)
(* lower half is the first ENTRIES \div 2 slots of the root, kernel space  *)
(* the rest.                                                               *)
(***************************************************************************)
EXTENDS FrameBitmap, Sequences, SequencesExt

CONSTANT ENTRIES      \* entries of a table (512)

\* What the constants must satisfy.
TablesAssumption == ENTRIES \in Nat \ {0} /\ ENTRIES % 2 = 0

PAGE == FRAME_SIZE
LARGE_PAGE == ENTRIES * PAGE
GIB == ENTRIES * LARGE_PAGE
SLOT == ENTRIES * GIB
KERNEL_SLOT == ENTRIES \div 2
KERNEL_SPACE_BASE == KERNEL_SLOT * SLOT
KERNEL_HEAP_START == KERNEL_SPACE_BASE + SLOT
KERNEL_STACKS_START == KERNEL_SPACE_BASE + 2 * SLOT
KERNEL_IMAGE_START == KERNEL_SPACE_BASE + 3 * SLOT
KERNEL_PHYSMAP_START == KERNEL_SPACE_BASE + 4 * SLOT
KERNEL_RUNTIME_START == KERNEL_SPACE_BASE + 5 * SLOT
Index == 0 .. ENTRIES - 1

\* Everything in the lower half, as something to flush.
LowerHalf == -1

-----------------------------------------------------------------------------
(* Ranges of physical memory, and how a range is to be mapped.             *)

checked_add(address, n) == address + n <= ADDRESS_MAX

\* `PhysRange::end`.
end(range) == saturating(range.start + range.len)

contains(range, address) == range.start <= address /\ address < end(range)

overlaps(range, from, to) == from < end(range) /\ range.start < to

align_down(address) == (address \div PAGE) * PAGE

\* `MappedRange` and `PageFlags`: the rights and the caching of a mapping.
read_only_code(range) ==
    [range |-> range, writable |-> FALSE, executable |-> TRUE, cache |-> "WriteBack"]

writable_code(range, cache) ==
    [range |-> range, writable |-> TRUE, executable |-> TRUE, cache |-> cache]

data(range, cache) ==
    [range |-> range, writable |-> TRUE, executable |-> FALSE, cache |-> cache]

kernel_flags(writable, executable) ==
    [writable |-> writable, executable |-> executable, user |-> FALSE, cache |-> "WriteBack"]

cache_bits(policy) ==
    CASE policy \in {"WriteBack", "Unspecified"} -> "back"
      [] policy = "WriteThrough" -> "through"
      [] policy \in {"WriteCombining", "Uncacheable"} -> "none"

-----------------------------------------------------------------------------
(* Reading and writing tables.                                             *)

Entry(to, writable, executable, user, huge, cache) ==
    [to |-> to, writable |-> writable, executable |-> executable, user |-> user,
     huge |-> huge, cache |-> cache]

\* An entry that points at the next table.
Link(table, user) == Entry(table, TRUE, TRUE, user, FALSE, "back")

\* A two-megabyte page of plain data.
Large(physical) == Entry(physical, TRUE, FALSE, FALSE, TRUE, "back")

present(t, table, index) == index \in DOMAIN t.tables[table]

read(t, table, index) == t.tables[table][index]

\* Several entries of one table at once.
fill(t, table, entries) == [t EXCEPT !.tables[table] = entries @@ @]

write(t, table, index, entry) == fill(t, table, index :> entry)

clear(t, table, indices) ==
    [t EXCEPT !.tables[table] = [i \in DOMAIN @ \ indices |-> @[i]]]

flush(t, page) == [t EXCEPT !.stale = @ \ {page}]

flush_all(t) == [t EXCEPT !.stale = {}]

Failed(t) == t.err # "none"

Refused(t, why) == [t EXCEPT !.err = why]

Accepted(t) == [t EXCEPT !.err = "none"]

-----------------------------------------------------------------------------
(* Walking.                                                                *)

table_indices(va) ==
    <<va \div SLOT, (va \div GIB) % ENTRIES, (va \div LARGE_PAGE) % ENTRIES, (va \div PAGE) % ENTRIES>>

is_canonical(va) == va \in 0 .. ENTRIES * SLOT - 1

PageSize == <<SLOT, GIB, LARGE_PAGE, PAGE>>

\* A walk goes through `entry`, which is a page if it is large or the level
\* is the last.  A large page in the root ends it with nothing.
Through(w, entry, va, level, size) ==
    IF level = 1 /\ entry.huge THEN [w EXCEPT !.over = TRUE]
    ELSE [w EXCEPT !.over = level = 4 \/ entry.huge,
                   !.mapped = level = 4 \/ entry.huge,
                   !.table = entry.to,
                   !.writable = @ /\ entry.writable,
                   !.executable = @ /\ entry.executable,
                   !.user = @ /\ entry.user,
                   !.cache = entry.cache,
                   !.page_size = size,
                   !.phys = (entry.to \div size) * size + (va % size)]

WalkStep(t, va, w, level, index) ==
    IF w.over \/ ~present(t, w.table, index) THEN [w EXCEPT !.over = TRUE]
    ELSE Through(w, read(t, w.table, index), va, level, PageSize[level])

\* What `va` resolves to: where, what every level allows, and how large the
\* page is.
translate(t, va) ==
    LET step(w, level) == WalkStep(t, va, w, level, table_indices(va)[level]) IN
    FoldLeft(step,
             [over |-> ~is_canonical(va), mapped |-> FALSE, table |-> t.root, writable |-> TRUE,
              executable |-> TRUE, user |-> TRUE, phys |-> 0, page_size |-> 0, cache |-> "back"],
             <<1, 2, 3, 4>>)

WritableAt(to, phys) == to.mapped /\ to.phys = phys /\ to.writable

\* `va` reaches `phys`, and may be written.
ReachesWritable(t, va, phys) == WritableAt(translate(t, va), phys)

\* The tables a walk from the root can come to.
ReachableTables(t) ==
    LET below(tables) ==
            {t.tables[table][i].to : <<table, i>> \in
                {<<q, j>> \in tables \X Index : present(t, q, j) /\ ~t.tables[q][j].huge}}
        second == below({t.root})
        third == below(second)
    IN  {t.root} \cup second \cup third \cup below(third)

-----------------------------------------------------------------------------
(* Making tables.                                                          *)

TableAt(t, taken, address) ==
    IF ReachesWritable(t, t.base + address, address)
    THEN [taken EXCEPT !.new = address, !.tables = (address :> <<>>) @@ @]
    ELSE Refused(taken, "TableFrameNotWritable")

\* A frame becomes an empty table if it can be written where tables are
\* written.  If it cannot, the frame is not given back.  Nothing is done for
\* a caller that has already failed.
new_table(t) ==
    IF Failed(t) THEN t
    ELSE IF allocate(t.a) = NoFrame THEN Refused(t, "OutOfFrames")
    ELSE TableAt(t, [t EXCEPT !.a = allocate_for(@, "PageTable")], allocate(t.a) * PAGE)

\* `made` has the entries of the old root, and is the root.
Succeeds(made, old_root) ==
    IF Failed(made) THEN made
    ELSE [fill(made, made.new, made.tables[old_root]) EXCEPT !.root = made.new]

\* A root of the kernel's own with the entries of the old one.
adopt(t, old_root) ==
    IF \E slot \in KERNEL_SLOT .. ENTRIES - 1 : present(t, old_root, slot)
    THEN Refused(t, "KernelSpaceInUse")
    ELSE Succeeds(new_table([t EXCEPT !.root = old_root]), old_root)

-----------------------------------------------------------------------------
(* One page.                                                               *)

\* On to the table just made, linked where there was none.
IntoNew(w, made, index, user) ==
    IF Failed(made) THEN [w EXCEPT !.t = made]
    ELSE [w EXCEPT !.t = write(made, w.table, index, Link(made.new, user)), !.table = made.new]

\* On to the table `entry` links, opened to user programs if it has to be.
IntoOld(w, entry, index, user) ==
    IF entry.huge THEN [w EXCEPT !.t = Refused(@, "HugePageInTheWay")]
    ELSE IF user /\ ~entry.user
    THEN [w EXCEPT !.t = [write(@, w.table, index, [entry EXCEPT !.user = TRUE])
                              EXCEPT !.stale = @ \cup {LowerHalf}],
                   !.table = entry.to, !.upgraded = TRUE]
    ELSE [w EXCEPT !.table = entry.to]

\* The tables above a page from `top` down, made where they are missing.
\* When one cannot be made, those made before it stay.
Descend(t, top, levels, page, user) ==
    LET step(w, index) ==
            IF Failed(w.t) THEN w
            ELSE IF present(w.t, w.table, index)
            THEN IntoOld(w, read(w.t, w.table, index), index, user)
            ELSE IntoNew(w, new_table(w.t), index, user)
    IN  FoldLeft(step, [t |-> t, table |-> top, upgraded |-> FALSE],
                 [i \in DOMAIN levels |-> table_indices(page)[levels[i]]])

\* The page's own entry, at the end of the way `w` down.
PutLeaf(w, page, index, leaf) ==
    IF Failed(w.t) THEN w.t
    ELSE IF present(w.t, w.table, index) THEN Refused(w.t, "AlreadyMapped")
    ELSE IF w.upgraded THEN flush_all(write(w.t, w.table, index, leaf))
    ELSE flush(write(w.t, w.table, index, leaf), page)

map(t, page, frame, flags) ==
    IF flags.user # (page < KERNEL_SPACE_BASE) THEN Refused(t, "OutsideKernelSpace")
    ELSE PutLeaf(Descend(t, t.root, <<1, 2, 3>>, page, flags.user), page, table_indices(page)[4],
                 Entry(frame, flags.writable, flags.executable, flags.user, FALSE,
                       cache_bits(flags.cache)))

\* The table that holds the entry of a page that is mapped.
LeafTable(t, page) ==
    LET step(table, level) == read(t, table, table_indices(page)[level]).to IN
    FoldLeft(step, t.root, <<1, 2, 3>>)

ClearLeaf(t, page, to) ==
    IF ~to.mapped THEN Refused(t, "NotMapped")
    ELSE IF to.page_size # PAGE THEN Refused(t, "HugePageInTheWay")
    ELSE flush([clear(t, LeafTable(t, page), {table_indices(page)[4]}) EXCEPT !.stale = @ \cup {page}],
               page)

\* The frame that was there is `translate`'s answer before the call.
unmap(t, page) ==
    IF page < KERNEL_SPACE_BASE THEN Refused(t, "OutsideKernelSpace")
    ELSE ClearLeaf(t, page, translate(t, page))

-----------------------------------------------------------------------------
(* Whole regions: built in full, and only then linked into the root.       *)

BadLimit(limit) == limit = 0 \/ limit % GIB # 0 \/ limit > SLOT

\* `pdpt` becomes all there is in the lower half.
install_lower_half(t, pdpt, user) ==
    flush_all([clear(write(t, t.root, 0, Link(pdpt, user)), t.root, 1 .. KERNEL_SLOT - 1)
                  EXCEPT !.stale = @ \cup {LowerHalf}])

\* How a page of the identity map is mapped: executable if it holds code,
\* and read-only if it holds nothing else.
IdentityLeaf(page, executable) ==
    LET runs_code == \E c \in executable : c.executable /\ overlaps(c.range, page, page + PAGE)
        only_code == /\ \E c \in executable : contains(c.range, page) /\ end(c.range) >= page + PAGE
                     /\ ~ \E c \in executable : c.writable /\ overlaps(c.range, page, page + PAGE)
    IN  Entry(page, ~only_code, runs_code, FALSE, FALSE, "back")

\* Mutant: the null page is mapped like any other.
IdentityTable_with_null(u, directory, i, base, executable) ==
    LET leaf(j) == IdentityLeaf(base + j * PAGE, executable) IN
    IF Failed(u) THEN u
    ELSE write(fill(u, u.new, [j \in Index |-> leaf(j)]), directory, i, Link(u.new, FALSE))

\* A table of small pages, the null page left out.
IdentityTable(u, directory, i, base, executable) ==
    LET leaf(j) == IdentityLeaf(base + j * PAGE, executable) IN
    IF Failed(u) THEN u
    ELSE write(fill(u, u.new, [j \in {k \in Index : base + k * PAGE # 0} |-> leaf(j)]),
               directory, i, Link(u.new, FALSE))

\* One gigabyte of it: large pages, and small ones in `fine`.
FillDirectory(u, directory, base, fine, executable) ==
    LET add(v, i) == IdentityTable(new_table(v), directory, i, base + i * LARGE_PAGE, executable)
        large == [i \in Index \ fine |-> Large(base + i * LARGE_PAGE)]
    IN  IF Failed(u) THEN u
        ELSE FoldLeft(add, fill(u, directory, large), SetToSortSeq(fine, <))

LinkUnlessFailed(u, table, index, to) ==
    IF Failed(u) THEN u ELSE write(u, table, index, Link(to, FALSE))

\* There are small pages where there is code and at the start.
IdentityDirectory(u, pdpt, slot, executable) ==
    LET base == slot * GIB
        fine == {i \in Index : base + i * LARGE_PAGE = 0 \/ \E c \in executable :
                    overlaps(c.range, base + i * LARGE_PAGE, base + (i + 1) * LARGE_PAGE)}
    IN  LinkUnlessFailed(FillDirectory(u, u.new, base, fine, executable), pdpt, slot, u.new)

\* Slot after slot of the table made last, up to `limit`.
IdentityMap(t, limit, executable) ==
    LET add(u, slot) == IF Failed(u) THEN u
                        ELSE IdentityDirectory(new_table(u), t.new, slot, executable)
    IN  FoldLeft(add, t, [i \in 1 .. limit \div GIB |-> i - 1])

InstallUnlessFailed(u, pdpt, user) == IF Failed(u) THEN u ELSE install_lower_half(u, pdpt, user)

\* `t.new` is what was made first, whatever was made after it.
BuiltOn(t, limit, executable) == InstallUnlessFailed(IdentityMap(t, limit, executable), t.new, FALSE)

rebuild_identity(t, limit, executable) ==
    IF BadLimit(limit) THEN Refused(t, "BadIdentityLimit")
    ELSE IF \E c \in executable : \/ c.range.len = 0 \/ c.range.start >= limit
                                  \/ ~checked_add(c.range.start, c.range.len)
                                  \/ end(c.range) > limit
    THEN Refused(t, "RequiredRangeOutsideIdentityMap")
    ELSE BuiltOn(new_table(t), limit, executable)

\* The large pages of the window's slots below `limit`, in the table `pdpt`.
WindowPages(t, pdpt, limit) ==
    LET pages(slot) == [i \in Index |-> Large(slot * GIB + i * LARGE_PAGE)]
        filled(u, slot) == IF Failed(u) THEN u
                           ELSE write(fill(u, u.new, pages(slot)), pdpt, slot, Link(u.new, FALSE))
        add(u, slot) == filled(new_table(u), slot)
    IN  FoldLeft(add, t, [i \in 1 .. limit \div GIB |-> i - 1])

FlushUnlessFailed(u) == IF Failed(u) THEN u ELSE flush_all(u)

OpenWindow(t, root_slot, limit) ==
    FlushUnlessFailed(LinkUnlessFailed(WindowPages(t, t.new, limit), t.root, root_slot, t.new))

\* All of physical memory below `limit`, writable, at `base`.
map_physical_window(t, base, limit) ==
    IF BadLimit(limit) THEN Refused(t, "BadIdentityLimit")
    ELSE IF base < KERNEL_SPACE_BASE \/ base % SLOT # 0 THEN Refused(t, "WindowOutsideKernelSpace")
    ELSE IF present(t, t.root, table_indices(base)[1]) THEN Refused(t, "WindowSlotTaken")
    ELSE OpenWindow(new_table(t), table_indices(base)[1], limit)

\* The pages a range touches, lowest first.
Pages(range) ==
    LET first == align_down(range.start) IN
    [i \in 1 .. (align_down(end(range) - 1) - first) \div PAGE + 1 |-> first + (i - 1) * PAGE]

\* A page mapped where it is, as `code` says.
KeepPage(w, page, code) ==
    IF Failed(w.t) THEN w.t
    ELSE write(w.t, w.table, table_indices(page)[4],
               Entry(page, code.writable, code.executable, FALSE, FALSE, cache_bits(code.cache)))

\* The pages of `keep`, in the table `t.new`.
KeepPages(t, keep) ==
    LET todo(code) == [i \in DOMAIN Pages(code.range) |-> [code |-> code, page |-> Pages(code.range)[i]]]
        add(u, k) == KeepPage(Descend(u, t.new, <<2, 3>>, k.page, FALSE), k.page, k.code)
    IN  InstallUnlessFailed(FoldLeft(add, t, FlattenSeq([i \in DOMAIN keep |-> todo(keep[i])])),
                            t.new, TRUE)

\* The lower half with `keep` mapped where it is, and nothing else.
keep_only(t, keep) ==
    IF \E i \in DOMAIN keep : \/ keep[i].range.len = 0 \/ keep[i].range.start >= SLOT
                              \/ end(keep[i].range) > SLOT
    THEN Refused(t, "RequiredRangeOutsideIdentityMap")
    ELSE KeepPages(new_table(t), keep)
=============================================================================
