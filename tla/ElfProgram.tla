----------------------------- MODULE ElfProgram -----------------------------
(***************************************************************************)
(* From a file to a program in memory: `parse` of hal/src/elf.rs reads the *)
(* headers and refuses what would become a bad address; `load` of          *)
(* kernel/src/process.rs then maps the segments page by page, copies into  *)
(* each what the file carries, and writes down which ranges the program    *)
(* owns and may write.  Every pointer a program hands the kernel later is  *)
(* checked against those ranges.                                           *)
(*                                                                         *)
(* The numbers in the headers are arbitrary words of the file.  The byte   *)
(* of the file at offset n is the number n; memory holds such bytes or     *)
(* Zero.  The checks of magic, class, type and machine are one Boolean.    *)
(***************************************************************************)
EXTENDS Integers, Sequences, SequencesExt

CONSTANTS
    WORD_MAX,               \* the largest word: 2^64 - 1 in the source
    PAGE_SIZE,              \* bytes in a page (4096)
    USER_SPACE_END,         \* first address a program may not reach
    STACK_BASE,             \* the page of stack the kernel adds
    HEADER_BYTES,           \* size of the file's header (64)
    PROGRAM_HEADER_BYTES,   \* size of a program header (56)
    MAX_SEGMENTS,           \* segments a program may have (8)
    MAX_FRAMES,             \* frames a process may hold (32)
    FileLengths, FileOffsets, MaxCount   \* bounds: lengths of a file, offsets
                                         \* of segments in it, program headers

ASSUME LoaderAssumption ==
    /\ {WORD_MAX, USER_SPACE_END, STACK_BASE, MAX_SEGMENTS, MAX_FRAMES, MaxCount} \subseteq Nat
    /\ {PAGE_SIZE, HEADER_BYTES, PROGRAM_HEADER_BYTES} \subseteq Nat \ {0}
    /\ USER_SPACE_END + PAGE_SIZE <= WORD_MAX + 1 /\ USER_SPACE_END % PAGE_SIZE = 0
    /\ STACK_BASE % PAGE_SIZE = 0 /\ STACK_BASE + PAGE_SIZE <= USER_SPACE_END
    /\ FileLengths \cup FileOffsets \subseteq 0 .. WORD_MAX

VARIABLES
    length,     \* of the file
    table,      \* where the file says its program headers are
    left,       \* program headers still to be read
    segments,   \* `parse`: the segments found
    entry,      \* where the program says it starts
    at,         \* `load`: the segment and the page it is at
    pages,      \* the program's pages: what they allow
    memory,     \* the bytes in them
    owned,      \* `Building`: the ranges, and which may be written
    taken,      \* `Building`: frames taken
    pc

vars == <<length, table, left, segments, entry, at, pages, memory, owned, taken, pc>>

Words == 0 .. WORD_MAX
Zero == -1
NoByte == -2
Unmapped == [present |-> FALSE, writable |-> FALSE, executable |-> FALSE]
Addresses == 0 .. USER_SPACE_END - 1

Fits(sum) == sum <= WORD_MAX
saturating_add(m, n) == IF Fits(m + n) THEN m + n ELSE WORD_MAX
saturating_sub(m, n) == IF m > n THEN m - n ELSE 0
Least(m, n) == IF m < n THEN m ELSE n
Page(address) == (address \div PAGE_SIZE) * PAGE_SIZE

end(segment) == segment.at + segment.memory_size

-----------------------------------------------------------------------------
(* `parse`.                                                                *)

Refuse ==
    /\ pc' = "refused"
    /\ table' = 0 /\ left' = 0 /\ segments' = <<>> /\ entry' = 0 /\ at' = <<0, 0>>
    /\ pages' = [a \in Addresses |-> Unmapped]
    /\ memory' = [a \in Addresses |-> NoByte]
    /\ owned' = <<>> /\ taken' = 0
    /\ UNCHANGED length

ReadHeader ==
    /\ pc = "header"
    /\ \E known, right_size \in BOOLEAN, count \in 0 .. MaxCount, offset \in Words :
        LET table_end == saturating_add(offset, count * PROGRAM_HEADER_BYTES) IN
        IF length < HEADER_BYTES \/ ~known \/ ~right_size \/ count = 0 \/ table_end > length
        THEN Refuse
        ELSE /\ table' = offset /\ left' = count
             /\ pc' = "segments"
             /\ UNCHANGED <<length, segments, entry, at, pages, memory, owned, taken>>

InFile(offset, size) == Fits(offset + size) /\ offset + size <= length

Room == Len(segments) < MAX_SEGMENTS

InUserSpace(address, size) ==
    size > 0 /\ Fits(address + size) /\ address + size <= USER_SPACE_END

\* The next program header; the slice it is read from has to be in the file.
NextHeader ==
    /\ table' = table + PROGRAM_HEADER_BYTES /\ left' = left - 1
    /\ pc' = IF table + PROGRAM_HEADER_BYTES > length THEN "panicked" ELSE pc
    /\ UNCHANGED <<length, entry, at, pages, memory, owned, taken>>

\* One program header: something that is not loaded, a segment, or words one
\* of the checks refuses (there always are such words).
ReadProgramHeader ==
    /\ pc = "segments" /\ left > 0
    /\ \/ NextHeader /\ UNCHANGED segments
       \/ /\ Room
          /\ \E file_offset \in FileOffsets, file_size \in Words :
            /\ InFile(file_offset, file_size)
            /\ \E address, memory_size \in Words, writable, executable \in BOOLEAN :
                /\ memory_size >= file_size
                /\ InUserSpace(address, memory_size)
                /\ ~(writable /\ executable)
                /\ segments' = Append(segments,
                    [file_offset |-> file_offset, file_size |-> file_size, at |-> address,
                     memory_size |-> memory_size, writable |-> writable,
                     executable |-> executable])
          /\ NextHeader
       \/ Refuse

Inside(address) ==
    \E n \in DOMAIN segments :
        /\ segments[n].at <= address /\ address < end(segments[n])
        /\ segments[n].executable

ReadEntry ==
    /\ pc = "segments" /\ left = 0
    /\ \E address \in Words :
        IF segments = <<>> \/ ~Inside(address) THEN Refuse
        ELSE /\ entry' = address
             /\ at' = <<1, Page(segments[1].at)>>
             /\ pc' = "load"
             /\ table' = 0
             /\ UNCHANGED <<length, left, segments, pages, memory, owned, taken>>

-----------------------------------------------------------------------------
(* `load`.                                                                 *)

\* Mutant: the first page of a segment is filled from its start.
Copied_from_page_start(segment, page) ==
    LET into == saturating_sub(page, segment.at)
        taking == IF into < segment.file_size
                  THEN Least(segment.file_size - into, PAGE_SIZE) ELSE 0
    IN  [from |-> segment.file_offset + into, to |-> page, taking |-> taking]

\* What of this page the file carries, and where in the page it goes.
Copied(segment, page) ==
    LET into == saturating_sub(page, segment.at)
        skip == saturating_sub(segment.at, page)
        taking == IF into < segment.file_size
                  THEN Least(segment.file_size - into, PAGE_SIZE - skip) ELSE 0
    IN  [from |-> segment.file_offset + into, to |-> page + skip, taking |-> taking]

Map(page, writable, executable) ==
    pages' = [a \in Addresses |-> IF Page(a) = page
                THEN [present |-> TRUE, writable |-> writable, executable |-> executable]
                ELSE pages[a]]

\* `own`: a range, and whether the program may write it.
Own(start, size, writable) ==
    owned' = Append(owned, [start |-> start, end |-> start + size, writable |-> writable])

Shared(page) == pages[page].present

\* One page of one segment: a zeroed frame, the copy, the mapping; after the
\* segment's last page its range.  No frame, one too many, or a page some
\* other segment is in ends the load.  A slice past the file's end panics.
LoadPage ==
    /\ pc = "load"
    /\ LET segment == segments[at[1]]
           page == at[2]
           copied == Copied(segment, page)
           outside == copied.taking > 0 /\ copied.from + copied.taking > length
           more == page < Page(end(segment) - 1)
           last == at[1] = Len(segments)
       IN  \/ Refuse
           \/ /\ taken < MAX_FRAMES /\ ~Shared(page)
              /\ Map(page, segment.writable, segment.executable)
              /\ memory' = [a \in Addresses |->
                    IF copied.to <= a /\ a < copied.to + copied.taking
                    THEN copied.from + (a - copied.to)
                    ELSE IF Page(a) = page THEN Zero ELSE memory[a]]
              /\ taken' = taken + 1
              /\ IF more THEN UNCHANGED owned
                 ELSE Own(segment.at, segment.memory_size, segment.writable)
              /\ at' = IF more THEN <<at[1], page + PAGE_SIZE>>
                       ELSE IF last THEN <<0, 0>>
                       ELSE <<at[1] + 1, Page(segments[at[1] + 1].at)>>
              /\ pc' = IF outside THEN "panicked"
                       ELSE IF ~more /\ last THEN "stack" ELSE pc
              /\ UNCHANGED <<length, table, left, segments, entry>>

\* The kernel's own page of stack.
LoadStack ==
    /\ pc = "stack"
    /\ \/ Refuse
       \/ /\ taken < MAX_FRAMES /\ ~pages[STACK_BASE].present
          /\ Map(STACK_BASE, TRUE, FALSE)
          /\ memory' = [a \in Addresses |-> IF Page(a) = STACK_BASE THEN Zero ELSE memory[a]]
          /\ Own(STACK_BASE, PAGE_SIZE, TRUE)
          /\ taken' = taken + 1
          /\ pc' = "ready"
          /\ UNCHANGED <<length, table, left, segments, entry, at>>

-----------------------------------------------------------------------------
(* `owned_by`: what a pointer from the program is checked with.            *)
owned_by(ranges, ptr, len) ==
    /\ len # 0 /\ Fits(ptr + len)
    /\ \E r \in ranges : ptr >= r.start /\ ptr + len <= r.end

-----------------------------------------------------------------------------
Init ==
    /\ length \in FileLengths
    /\ table = 0 /\ left = 0 /\ segments = <<>> /\ entry = 0 /\ at = <<0, 0>>
    /\ pages = [a \in Addresses |-> Unmapped]
    /\ memory = [a \in Addresses |-> NoByte]
    /\ owned = <<>> /\ taken = 0
    /\ pc = "header"

Next == ReadHeader \/ ReadProgramHeader \/ ReadEntry \/ LoadPage \/ LoadStack

Spec == Init /\ [][Next]_vars

-----------------------------------------------------------------------------
\* Whatever the file says, no slice of it is taken past its end, by `parse`
\* or by the copies `load` makes of what `parse` let through, and none of the
\* fixed arrays of segments, frames and ranges is written past its end.
NeverPanics ==
    /\ pc # "panicked"
    /\ Len(segments) <= MAX_SEGMENTS /\ taken <= MAX_FRAMES
    /\ Len(owned) <= MAX_SEGMENTS + 1

\* What the kernel believes of a pointer is what the page tables say: bytes
\* the program is said to own are mapped for it, those it is said to be able
\* to write are in writable pages, and no page is writable and executable.
OwnedIsMapped ==
    /\ \A ptr, len \in Words :
        /\ owned_by(ToSet(owned), ptr, len) =>
            \A a \in ptr .. ptr + len - 1 : a \in Addresses /\ pages[a].present
        /\ owned_by({r \in ToSet(owned) : r.writable}, ptr, len) =>
            \A a \in ptr .. ptr + len - 1 : pages[a].writable
    /\ \A a \in Addresses : ~(pages[a].writable /\ pages[a].executable)

\* A program that is ready is what its file describes: every byte of every
\* segment is the file's byte or, past what the file carries, zero; so is
\* all else in its pages; it starts in a page it may execute; and what the
\* kernel believes it owns is mapped.
LoadedAsDescribed ==
    pc = "ready" =>
        /\ \A n \in DOMAIN segments :
            LET s == segments[n] IN
            \A k \in 0 .. s.memory_size - 1 :
                memory[s.at + k] = IF k < s.file_size THEN s.file_offset + k ELSE Zero
        /\ \A a \in Addresses :
            /\ memory[a] # NoByte <=> pages[a].present
            /\ memory[a] \in Words =>
                \E n \in DOMAIN segments : segments[n].at <= a /\ a < end(segments[n])
        /\ pages[entry].executable
        /\ OwnedIsMapped
=============================================================================
