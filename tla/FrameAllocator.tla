--------------------------- MODULE FrameAllocator ---------------------------
(***************************************************************************)
(* The frame allocator at work: the kernel takes frames, gives them back,  *)
(* labels them, moves the bitmap off the firmware's memory and reclaims    *)
(* boot-services memory, in any order its callers may come in, over any    *)
(* memory map of Maps (firmware data: regions may overlap and need not be  *)
(* aligned).                                                               *)
(***************************************************************************)
EXTENDS FrameBitmap

CONSTANTS
    Maps,            \* the memory maps considered, sets of regions
    Uses             \* the purposes frames are taken for

\* What the constants must satisfy: regions may lie anywhere and overlap.
PoolAssumption ==
    /\ BitmapAssumption
    /\ \A map \in Maps : map \subseteq [start : Nat, pages : Nat, kind : Kinds]
    /\ Uses \subseteq Purposes

VARIABLES
    a,               \* the allocator
    out              \* the frames handed out and not given back

vars == <<a, out>>

Init ==
    /\ \E map \in Maps : a = new(map)
    /\ out = {}

AllocateFor(purpose) ==
    /\ a' = allocate_for(a, purpose)
    /\ out' = out \cup ({allocate(a)} \ {NoFrame})

\* Any frame may be offered under any purpose: what is refused is the point.
DeallocateAs(frame, purpose) ==
    /\ a' = deallocate_as(a, frame, purpose)
    /\ out' = IF MayGiveBack(a, frame, purpose) THEN out \ {frame} ELSE out

Label(frame, purpose) ==
    /\ a' = label(a, frame, purpose)
    /\ UNCHANGED out

MoveOffFirmwareMemory ==
    /\ ~a.tracking
    /\ a' = with_purposes(a)
    /\ UNCHANGED out

ReclaimBootServices ==
    /\ a' = reclaim_boot_services(a)
    /\ UNCHANGED out

Next ==
    \/ \E purpose \in Uses : AllocateFor(purpose)
    \/ \E frame \in Frames, purpose \in Uses : DeallocateAs(frame, purpose) \/ Label(frame, purpose)
    \/ MoveOffFirmwareMemory
    \/ ReclaimBootServices

Spec == Init /\ [][Next]_vars

-----------------------------------------------------------------------------
\* Types; in particular the search never starts outside the bitmap.
TypeOK ==
    /\ a.map \in Maps
    /\ a.held \subseteq Frames /\ out \subseteq Frames
    /\ a.free \in 0 .. Cardinality(Frames)
    /\ a.next_word \in 0 .. WORDS - 1
    /\ a.reclaimed \in BOOLEAN /\ a.tracking \in BOOLEAN
    /\ a.purposes \in [Frames -> Purposes \cup {NoPurpose}]

\* Nothing in the pool is anything but memory the map lets the kernel use:
\* wholly inside an allocatable region, touched by no other, and not frame
\* 0, before and after boot-services memory is reclaimed.
PoolIsAllowed == \A n \in Frames \ a.held : manages(a, n)

\* UEFI reports whole pages.  The allocator does not rely on it, but without
\* it a frame that a boot-services region only touches stays out of the pool
\* for good, with its bit set and nobody holding it.
Aligned == \A r \in a.map : r.start % FRAME_SIZE = 0

\* The books balance: the count is the number of clear bits, and the frames
\* handed out are among the managed ones whose bit is set, and are all of
\* them when the map is aligned.  So no frame is handed out twice, none is
\* lost when the bitmap moves or the pool grows, and giving back what is not
\* held changes nothing.
BooksBalance ==
    LET set == {n \in a.held : manages(a, n)} IN
    /\ a.free = Cardinality(Frames \ a.held)
    /\ out \subseteq set
    /\ Aligned => out = set

\* Once purposes are recorded, a frame that is held has one, and in an
\* aligned map no other frame does.
LabelsFollowHolders ==
    LET labelled == {n \in Frames : a.purposes[n] # NoPurpose} IN
    a.tracking => (out \subseteq labelled /\ (Aligned => out = labelled))

\* The pool over every sequence of calls: only what the map allows is in it,
\* the count and the frames handed out agree with the bits, and the purposes
\* with the holders (`new`, `allocate`, `deallocate`, `move_bitmap`,
\* `track_purposes`, `reclaim_boot_services`).
PoolIsSound == TypeOK /\ PoolIsAllowed /\ BooksBalance /\ LabelsFollowHolders
=============================================================================
