---------------------------- MODULE SmallMachines ---------------------------
(***************************************************************************)
(* Small machines to boot.  Frames 0 up to `memory` are free memory; then  *)
(* come the firmware's four tables and its stack, one more frame of its    *)
(* boot services, the image, and the runtime services' code and data;      *)
(* device memory the firmware keeps and the framebuffer lie above.         *)
(***************************************************************************)
EXTENDS PageTables

CONSTANTS
    Memories,      \* how many frames are free
    Images,        \* the images considered
    Screens,       \* where the framebuffer is
    Maps,          \* how the firmware's map ends
    Telling        \* whether the firmware says where the image is

At(frame) == frame * PAGE
TOP == 32

Tables(large, locked) ==
    LET identity(base, size) == [i \in Index |-> Entry(base + i * size, TRUE, TRUE, FALSE, TRUE, "back")]
        small == [i \in Index |-> Entry(i * PAGE, i # locked, TRUE, FALSE, FALSE, "back")]
        directory == [i \in Index |-> IF i = 0 /\ ~large THEN Link(At(TOP + 3), FALSE)
                                      ELSE identity(0, LARGE_PAGE)[i]]
        upper == [i \in Index |-> IF i = 0 THEN Link(At(TOP + 2), FALSE) ELSE identity(0, GIB)[i]]
        all == {At(TOP), At(TOP + 1), At(TOP + 2), At(TOP + 3)}
    IN  [q \in IF large THEN all \ {At(TOP + 3)} ELSE all |->
            CASE q = At(TOP) -> [i \in {0} |-> Link(At(TOP + 1), FALSE)]
              [] q = At(TOP + 1) -> upper
              [] q = At(TOP + 2) -> directory
              [] q = At(TOP + 3) -> small]

Descriptor(frame, pages, type, bits) ==
    [start |-> At(frame), pages |-> pages, type |-> type, bits |-> bits]

Descriptors(memory, ends, capacity) ==
    <<Descriptor(0, memory, "Conventional", {"WriteBack"}),
      Descriptor(TOP, 6, "BootServicesData", {"WriteBack"}),
      Descriptor(TOP + 6, 3, "LoaderCode", {"WriteBack"})>>
    \o (IF ends = "no_runtime_code" THEN <<>>
        ELSE <<Descriptor(TOP + 9, 1, "RuntimeServicesCode", {"WriteBack", "Runtime"})>>)
    \o <<Descriptor(TOP + 10, 1, "RuntimeServicesData", {"WriteBack", "WriteThrough", "Runtime"})>>
    \o (CASE ends \in {"whole", "no_runtime_code"} -> <<Descriptor(130, 1, "MemoryMappedIO", {"Uncacheable", "Runtime"})>>
          [] ends = "truncated" ->
                [i \in 1 .. capacity - 5 |-> Descriptor(50 + i, 1, "ACPIReclaim", {"WriteBack"})]
                \o <<Descriptor(130, 1, "MemoryMappedIO", {"Uncacheable", "Runtime"})>>
          [] ends = "overflowing" -> <<[Descriptor(130, 1, "RuntimeServicesCode", {"Runtime"})
                                            EXCEPT !.pages = ADDRESS_MAX]>>)

Section(offset, len, exec) == [offset |-> offset, len |-> len, executable |-> exec]
Block(slots, fits) ==
    [page |-> 0, fits |-> fits,
     entries |-> [i \in DOMAIN slots |-> [kind |-> slots[i][1], offset |-> slots[i][2]]]]

\* Three pages: data, code, and code and data.
ImageKinds ==
    LET plain == [len |-> 6, headers |-> TRUE,
                  sections |-> <<Section(0, 2, FALSE), Section(2, 3, TRUE), Section(5, 1, FALSE)>>,
                  blocks |-> <<Block(<<<<"Dir64", 0>>, <<"Absolute", 0>>, <<"Dir64", 5>>>>, TRUE)>>]
    IN  [plain |-> plain,
         no_headers |-> [plain EXCEPT !.headers = FALSE],
         many_sections |-> [plain EXCEPT !.sections = Append(@, Section(4, 1, TRUE))],
         not_relocatable |-> [plain EXCEPT !.blocks = <<>>],
         outside |-> [plain EXCEPT !.blocks = Append(@, Block(<<<<"Dir64", 6>>>>, TRUE))],
         other_kind |-> [plain EXCEPT !.blocks = Append(@, Block(<<<<"High", 1>>>>, TRUE))],
         cut |-> [plain EXCEPT !.blocks = Append(@, Block(<<>>, FALSE))]]

ScreenKinds(limit) ==
    [none |-> [format |-> "BltOnly", start |-> 0, len |-> 0],
     low |-> [format |-> "Bgr", start |-> At(100), len |-> 3 * PAGE],
     high |-> [format |-> "Rgb", start |-> limit + PAGE, len |-> 3 * PAGE]]

\* What the firmware starts the boot loader with; `bounds` has the capacity of
\* a memory map and the end of the identity map.
Machine(memory, image, screen, ends, tells, tables, mode, bounds) ==
    [image |-> ImageKinds[image], loaded |-> At(TOP + 6), tells |-> tells, stack |-> At(TOP + 4),
     root |-> At(TOP), tables |-> tables, mode |-> mode, gop |-> ScreenKinds(bounds.limit)[screen],
     descriptors |-> Descriptors(memory, ends, bounds.capacity)]

Plain == {"NoExecute"}
Modes == {Plain, {}, {"NoExecute", "Pcid"}, {"NoExecute", "FiveLevelPaging"}}

\* How much memory there is, with an image that is relocated and one that is
\* not; then everything else with enough memory and with too little for all of
\* it; then the firmware's tables and paging mode.
MachinesWithin(bounds) ==
    {Machine(m, i, "low", e, k, Tables(TRUE, 0), Plain, bounds) :
        m \in Memories, i \in Images \cap {"plain", "not_relocatable"}, e \in Maps \cap {"whole"},
        k \in Telling}
    \cup {Machine(m, i, s, e, k, Tables(TRUE, 0), Plain, bounds) :
        m \in {20, TOP}, i \in Images, s \in Screens, e \in Maps, k \in Telling}
    \cup {Machine(20, "plain", s, e, k, Tables(l, i), mode, bounds) :
        s \in Screens, e \in Maps \cap {"whole"}, k \in Telling, l \in BOOLEAN, i \in {ENTRIES, 3}, mode \in Modes}
=============================================================================
