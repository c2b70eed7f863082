---------------------------- MODULE FrameBitmap ----------------------------
(***************************************************************************)
(* The bitmap frame allocator, kernel/src/memory/frame_allocator.rs, as    *)
(* operators on its state: a record with the memory map, the frames whose  *)
(* bit is set (`held`: withheld or handed out), the count of clear bits,   *)
(* the word the next search starts at, whether boot-services memory has    *)
(* joined the pool, whether purposes are recorded yet, and the purposes.   *)
(***************************************************************************)
EXTENDS Integers, FiniteSets

CONSTANTS
    WORDS,           \* words of the bitmap (1024)
    BITS_PER_WORD,   \* 64
    FRAME_SIZE,      \* 4096
    ADDRESS_MAX      \* u64::MAX, where region arithmetic saturates

\* What the constants must satisfy: every frame has an address.
BitmapAssumption ==
    /\ WORDS \in Nat \ {0} /\ BITS_PER_WORD \in Nat \ {0}
    /\ FRAME_SIZE \in Nat \ {0} /\ ADDRESS_MAX \in Nat
    /\ FRAME_SIZE * (WORDS * BITS_PER_WORD) <= ADDRESS_MAX

Frames == 0 .. WORDS * BITS_PER_WORD - 1
Kinds == {"Usable", "BootServices", "Reserved"}
Purposes == {"Boot", "PageTable", "Heap", "Stack", "Kernel", "Dma"}
NoPurpose == "free"
NoFrame == -1

-----------------------------------------------------------------------------
(* Which frames may ever be handed out: from the map, withholding first.   *)

saturating(n) == IF n > ADDRESS_MAX THEN ADDRESS_MAX ELSE n

div_ceil(n, d) == (n + d - 1) \div d

region_end(region) == saturating(region.start + saturating(region.pages * FRAME_SIZE))

\* Frames lying wholly inside a region.
inward_frames(region) ==
    {n \in Frames : div_ceil(region.start, FRAME_SIZE) <= n
                    /\ n < region_end(region) \div FRAME_SIZE}

\* Frames a region touches at all.
outward_frames(region) ==
    {n \in Frames : region.start \div FRAME_SIZE <= n
                    /\ n < div_ceil(region_end(region), FRAME_SIZE)}

allocatable(a, kind) == kind = "Usable" \/ (a.reclaimed /\ kind = "BootServices")

manages(a, frame) ==
    /\ frame # 0 /\ frame \in Frames
    /\ \E r \in a.map : allocatable(a, r.kind) /\ frame \in inward_frames(r)
    /\ ~ \E r \in a.map : ~allocatable(a, r.kind) /\ frame \in outward_frames(r)

\* The two passes of `new`: free what is usable, then withhold the rest.
new(map) ==
    LET usable == UNION {inward_frames(r) : r \in {q \in map : q.kind = "Usable"}}
        withheld == UNION {outward_frames(r) : r \in {q \in map : q.kind # "Usable"}}
        clear == usable \ (withheld \cup {0})
    IN  [map |-> map, held |-> Frames \ clear, free |-> Cardinality(clear),
         next_word |-> 0, reclaimed |-> FALSE, tracking |-> FALSE,
         purposes |-> [n \in Frames |-> NoPurpose]]

\* A copy of the bitmap in the kernel's own memory, with what is already
\* handed out recorded as Boot: `adopt`, then `with_purposes`.
with_purposes(a) ==
    [a EXCEPT !.next_word = 0, !.tracking = TRUE,
              !.free = Cardinality(Frames \ a.held),
              !.purposes = [n \in Frames |->
                    IF n \in a.held /\ manages(a, n) THEN "Boot" ELSE NoPurpose]]

-----------------------------------------------------------------------------
(* Handing out and giving back.                                            *)

set_purpose(a, frame, purpose) ==
    IF a.tracking THEN [a EXCEPT !.purposes[frame] = purpose] ELSE a

\* How far a clear bit is from where the search starts: words in turn from
\* next_word, wrapping, and the lowest bit of a word first.
Distance(a, frame) ==
    ((frame \div BITS_PER_WORD - a.next_word) % WORDS) * BITS_PER_WORD
        + (frame % BITS_PER_WORD)

\* The frame `allocate` finds, or NoFrame.
allocate(a) ==
    LET clear == Frames \ a.held IN
    IF a.free = 0 \/ clear = {} THEN NoFrame
    ELSE CHOOSE n \in clear : \A m \in clear : Distance(a, n) <= Distance(a, m)

\* `frame` is handed out, and the next search starts at `word`.
HandOut(a, frame, word, purpose) ==
    IF frame = NoFrame THEN a
    ELSE set_purpose([a EXCEPT !.held = @ \cup {frame}, !.free = @ - 1, !.next_word = word],
                     frame, purpose)

\* The allocator after handing out the frame `allocate` finds.
allocate_for(a, purpose) == HandOut(a, allocate(a), allocate(a) \div BITS_PER_WORD, purpose)

\* Whether giving `frame` back as `purpose` is accepted.
MayGiveBack(a, frame, purpose) ==
    /\ a.tracking => (frame \in Frames /\ a.purposes[frame] = purpose)
    /\ manages(a, frame)
    /\ frame \in a.held

deallocate_as(a, frame, purpose) ==
    IF MayGiveBack(a, frame, purpose)
    THEN set_purpose([a EXCEPT !.held = @ \ {frame}, !.free = @ + 1], frame, NoPurpose)
    ELSE a

label(a, frame, purpose) ==
    IF manages(a, frame) /\ frame \in a.held THEN set_purpose(a, frame, purpose) ELSE a

\* Mutant: reclaiming a second time is not refused.
reclaim_every_time(a) ==
    LET now == [a EXCEPT !.reclaimed = TRUE]
        all == UNION {inward_frames(r) : r \in {q \in a.map : q.kind = "BootServices"}}
        added == {n \in all : manages(now, n) /\ n \in a.held}
    IN  [now EXCEPT !.held = @ \ added, !.free = @ + Cardinality(added)]

\* The boot-services frames the rules allow join the pool, once.
reclaim_boot_services(a) ==
    LET now == [a EXCEPT !.reclaimed = TRUE]
        all == UNION {inward_frames(r) : r \in {q \in a.map : q.kind = "BootServices"}}
        added == {n \in all : manages(now, n) /\ n \in a.held}
    IN  IF a.reclaimed THEN a
        ELSE [now EXCEPT !.held = @ \ added, !.free = @ + Cardinality(added)]
=============================================================================
