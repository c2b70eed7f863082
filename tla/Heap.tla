-------------------------------- MODULE Heap --------------------------------
(***************************************************************************)
(* The kernel's heap, kernel/src/memory/heap/free_list.rs: holes in a list *)
(* in address order, each with its size and the next hole's address in its *)
(* own first granule.  First fit; what is cut off in front of and behind a *)
(* block stays a hole; a block given back is merged with what it touches.  *)
(* Blocks carry no header: the caller hands the layout back.               *)
(*                                                                         *)
(* `hole` is the heap's memory, a granule at a time: a header, or what the *)
(* block's owner wrote over it (NoHeader).  Headers that were merged away  *)
(* stay in memory.  The lock of heap.rs makes each operation one step.     *)
(***************************************************************************)
EXTENDS Integers

CONSTANTS
    GRANULE,            \* bytes in a granule (16)
    Regions,            \* bound: [start, size] a heap may be given
    Layouts             \* bound: [size, align] a caller may ask for

\* What the constants must satisfy.  Alignments and the granule are powers of
\* two, so that one always divides the other.
HeapAssumption ==
    /\ GRANULE \in Nat \ {0}
    /\ Regions \subseteq [start : Nat \ {0}, size : Nat]
    /\ Layouts \subseteq [size : Nat, align : Nat \ {0}]
    /\ \A layout \in Layouts : layout.align % GRANULE = 0 \/ GRANULE % layout.align = 0

VARIABLES start, end, head, free, hole, live

vars == <<start, end, head, free, hole, live>>

next_multiple_of(n, m) == ((n + m - 1) \div m) * m

Larger(m, n) == IF m > n THEN m ELSE n

NoHeader == [size |-> -1, next |-> -1]

Granules(from, to) == {g \in from .. to - 1 : g % GRANULE = 0}

block_size(layout) == next_multiple_of(Larger(layout.size, 1), GRANULE)

\* The hole the list leads to in n steps, 0 past its end.
Nth[n \in Nat] ==
    IF n = 0 THEN head
    ELSE IF Nth[n - 1] \in DOMAIN hole THEN hole[Nth[n - 1]].next ELSE 0

MaxHoles == (end - start) \div GRANULE

\* `link`: the hole before, or the head, leads to `next`.
link(holes, prev, next) ==
    /\ head' = IF prev = 0 THEN next ELSE head
    /\ hole' = IF prev = 0 THEN holes ELSE [holes EXCEPT ![prev].next = next]

-----------------------------------------------------------------------------
\* `init`: the region trimmed to whole granules is one hole.
Init ==
    /\ \E region \in Regions :
        LET first == next_multiple_of(region.start, GRANULE)
            last == ((region.start + region.size) \div GRANULE) * GRANULE
        IN  start = first /\ end = Larger(last, first)
    /\ head = IF end - start >= GRANULE THEN start ELSE 0
    /\ free = end - start
    /\ hole = [g \in Granules(start, end) |->
                IF g = start THEN [size |-> end - start, next |-> 0] ELSE NoHeader]
    /\ live = {}

-----------------------------------------------------------------------------
(* `allocate`.                                                             *)

Block(n, layout) == next_multiple_of(Nth[n], Larger(layout.align, GRANULE))

Fits(n, layout) ==
    /\ Nth[n] # 0
    /\ Block(n, layout) + block_size(layout) <= Nth[n] + hole[Nth[n]].size

\* The headers written for what is left behind and in front of the block,
\* and where the list goes on.
Split(current, block, block_end) ==
    LET hole_end == current + hole[current].size
        behind == block_end < hole_end
        rest == IF behind THEN block_end ELSE hole[current].next
        holes == IF behind
                 THEN [hole EXCEPT ![block_end] =
                        [size |-> hole_end - block_end, next |-> hole[current].next]]
                 ELSE hole
    IN  IF block > current
        THEN [holes |-> [holes EXCEPT ![current] = [size |-> block - current, next |-> rest]],
              rest |-> current]
        ELSE [holes |-> holes, rest |-> rest]

\* The first hole that serves the layout; the owner then writes its block.
Allocate(layout) ==
    /\ \E n \in 0 .. MaxHoles :
        /\ Fits(n, layout)
        /\ \A m \in 0 .. n - 1 : ~Fits(m, layout)
        /\ LET block == Block(n, layout)
               block_end == block + block_size(layout)
               split == Split(Nth[n], block, block_end)
               written == [g \in DOMAIN hole |->
                            IF block <= g /\ g < block_end THEN NoHeader ELSE split.holes[g]]
           IN  /\ link(written, IF n = 0 THEN 0 ELSE Nth[n - 1], split.rest)
               /\ live' = live \cup {[at |-> block, layout |-> layout]}
    /\ free' = free - block_size(layout)
    /\ UNCHANGED <<start, end>>

\* No hole is large enough: a null pointer.
AllocateFails(layout) ==
    /\ \A n \in 0 .. MaxHoles : ~Fits(n, layout)
    /\ UNCHANGED vars

-----------------------------------------------------------------------------
(* `deallocate`.                                                           *)

\* The place in the list of the first hole that is not before the block.
Place(block) ==
    CHOOSE n \in 0 .. MaxHoles :
        /\ Nth[n] = 0 \/ Nth[n] >= block
        /\ \A m \in 0 .. n - 1 : Nth[m] # 0 /\ Nth[m] < block

Prev(block) == IF Place(block) = 0 THEN 0 ELSE Nth[Place(block) - 1]

\* Mutant: only the hole in front is looked at.
Overlaps_next_only(block, block_end) ==
    Nth[Place(block)] # 0 /\ block_end > Nth[Place(block)]

\* The assertion that catches a double free.
Overlaps(block, block_end) ==
    \/ Prev(block) # 0 /\ Prev(block) + hole[Prev(block)].size > block
    \/ Nth[Place(block)] # 0 /\ block_end > Nth[Place(block)]

\* Mutant: the hole behind is left by itself.
Merged_not_behind(block, size) == [size |-> size, next |-> Nth[Place(block)]]

Merged(block, size) ==
    LET current == Nth[Place(block)] IN
    IF current # 0 /\ block + size = current
    THEN [size |-> size + hole[current].size, next |-> hole[current].next]
    ELSE [size |-> size, next |-> current]

Deallocate(owned) ==
    LET block == owned.at
        size == block_size(owned.layout)
        prev == Prev(block)
        merged == Merged(block, size)
    IN  /\ ~Overlaps(block, block + size)
        /\ IF prev # 0 /\ prev + hole[prev].size = block
           THEN /\ hole' = [hole EXCEPT ![prev] =
                                [size |-> @.size + merged.size, next |-> merged.next]]
                /\ UNCHANGED head
           ELSE link([hole EXCEPT ![block] = merged], prev, block)
        /\ free' = free + size
        /\ live' = live \ {owned}
        /\ UNCHANGED <<start, end>>

-----------------------------------------------------------------------------
Next ==
    \/ \E layout \in Layouts : Allocate(layout) \/ AllocateFails(layout)
    \/ \E owned \in live : Deallocate(owned)

Spec == Init /\ [][Next]_vars

-----------------------------------------------------------------------------
\* The bytes in the first n holes of the list, as `check` adds them up.
Total[n \in Nat] ==
    IF n = 0 THEN 0
    ELSE Total[n - 1] + (IF Nth[n - 1] # 0 THEN hole[Nth[n - 1]].size ELSE 0)

\* `check`: holes are in order, in the heap, apart and not touching, and
\* their sizes add up to `free`.
check ==
    LET places == {n \in 0 .. MaxHoles : Nth[n] # 0} IN
    /\ MaxHoles \notin places
    /\ \A n \in places :
        /\ Nth[n] \in Granules(start, end)
        /\ n > 0 => Nth[n] > Nth[n - 1] + hole[Nth[n - 1]].size
        /\ hole[Nth[n]].size >= GRANULE /\ hole[Nth[n]].size % GRANULE = 0
        /\ Nth[n] + hole[Nth[n]].size <= end
    /\ free = Total[MaxHoles]

\* Granules in a hole, and in a block.
Holes == UNION {Granules(Nth[n], Nth[n] + hole[Nth[n]].size) :
                n \in {m \in 0 .. MaxHoles : Nth[m] # 0}}

Taken(owned) == Granules(owned.at, owned.at + block_size(owned.layout))

\* The free list survives every order of allocating and freeing: `check`
\* passes; every granule of the heap is in a hole or in exactly one block;
\* blocks are aligned as asked; and no header was written into a block.
HeapIsSound ==
    /\ check
    /\ Holes \cap UNION {Taken(owned) : owned \in live} = {}
    /\ Holes \cup UNION {Taken(owned) : owned \in live} = Granules(start, end)
    /\ \A one \in live :
        /\ one.at % one.layout.align = 0
        /\ \A g \in Taken(one) : hole[g] = NoHeader
        /\ \A other \in live \ {one} : Taken(one) \cap Taken(other) = {}

\* Looking at the two neighbours in the list is enough to see a block that
\* overlaps any free memory, as a double free does; and no block that is
\* really owned is refused.
DoubleFreeIsSeen ==
    /\ \A block \in Granules(start, end), layout \in Layouts :
        LET block_end == block + block_size(layout) IN
        block_end <= end =>
            (Overlaps(block, block_end) <=> Granules(block, block_end) \cap Holes # {})
    /\ \A owned \in live : ~Overlaps(owned.at, owned.at + block_size(owned.layout))
=============================================================================
