------------------------------ MODULE PeImage ------------------------------
(***************************************************************************)
(* What hal/src/pe.rs reads in the kernel's own image, a PE32+ file the    *)
(* firmware has loaded: where its code is, and where it holds absolute     *)
(* addresses.  An image is a record: its length, whether its headers are   *)
(* there and are PE32+, its sections, and the blocks of its relocation     *)
(* table, each with the page it is about, whether its size fits the table  *)
(* and is even, and its entries.                                           *)
(***************************************************************************)
EXTENDS Integers, Sequences, SequencesExt

CONSTANTS
    MAX_CODE_SECTIONS,  \* code sections kept (4)
    POINTER             \* bytes of an absolute address (8)

PeError(why) == [ok |-> FALSE, err |-> why]

-----------------------------------------------------------------------------
\* The executable sections that are not empty, as offset and length.
code_sections(image) ==
    LET is_code(section) == section.executable /\ section.len # 0
        found == SelectSeq(image.sections, is_code)
    IN  IF ~image.headers THEN PeError("Truncated")
        ELSE IF Len(found) > MAX_CODE_SECTIONS THEN PeError("TooManySections")
        ELSE IF found = <<>> THEN PeError("NoCode")
        ELSE [ok |-> TRUE, sections |-> found]

\* `CodeSections::at`: the same sections where the image was put, unless one
\* runs past the last address.
at(sections, base, last) ==
    IF \E i \in DOMAIN sections : base + sections[i].offset + sections[i].len > last
    THEN PeError("OutOfMemory")
    ELSE [ok |-> TRUE, ranges |-> [i \in DOMAIN sections |->
             [start |-> base + sections[i].offset, len |-> sections[i].len]]]

-----------------------------------------------------------------------------
\* Every absolute address the table lists, or an error if any one of its
\* blocks or entries cannot be used: the whole table is read first.
relocations(image) ==
    LET applied(block) == {e \in ToSet(block.entries) : e.kind # "Absolute"}
        entries(block) == {block.page + entry.offset : entry \in applied(block)}
        slots == UNION {entries(block) : block \in ToSet(image.blocks)}
    IN  IF ~image.headers \/ image.blocks = <<>> THEN PeError("NotRelocatable")
        ELSE IF \E block \in ToSet(image.blocks) : ~block.fits THEN PeError("Truncated")
        ELSE IF \E block \in ToSet(image.blocks) : \E e \in applied(block) : e.kind # "Dir64"
        THEN PeError("UnsupportedRelocation")
        ELSE IF \E slot \in slots : slot + POINTER > image.len
        THEN PeError("RelocationOutsideImage")
        ELSE [ok |-> TRUE, slots |-> slots]
=============================================================================
