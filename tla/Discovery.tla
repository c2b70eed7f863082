----------------------------- MODULE Discovery -----------------------------
(***************************************************************************)
(* Finding out what machine this is, twice: the bootloader's inventory     *)
(* (boot/src/inventory.rs), written to the stick it was started from, and  *)
(* the kernel's search for its disk (kernel/src/lib.rs and the parts of    *)
(* devices/virtio_blk.rs that come before the device is spoken to).  Both  *)
(* read the bus with the operators of Pci.  One stick is carried from      *)
(* machine to machine, so a report may be written over another machine's.  *)
(*                                                                         *)
(* A machine is described by what is really in it; Space is what its       *)
(* configuration space then holds.  A line of the report is one unit of    *)
(* its ROOM.                                                               *)
(***************************************************************************)
EXTENDS Pci, FiniteSets

CONSTANTS
    Machines,       \* the machines the stick may be put into
    ROOM,           \* lines the report may have (16 KiB)
    KINDS,          \* kinds of memory it can list (20)
    MaxBoots        \* bound: boots in a behaviour

VARIABLES
    machine,    \* the machine being booted
    space,      \* its configuration space
    pc,         \* how far its boot has come
    boots,      \* boots so far
    report,     \* TEXT, the inventory
    stick,      \* the lines of INVENTORY.TXT
    wrote,      \* how writing it went
    devices,    \* the kernel's own scan
    shown,      \* BARs in the boot log
    disk,       \* what came of starting the disk
    mapped      \* pages of registers mapped

vars == <<machine, space, pc, boots, report, stick, wrote, devices, shown, disk, mapped>>

-----------------------------------------------------------------------------
(* The machine.  `functions` maps addresses to what is there; a device     *)
(* with `echo` has one function and answers for all of them.               *)

\* The address a read of `at` is really answered by.
Behind(functions, at) ==
    IF at \in DOMAIN functions THEN at ELSE [at EXCEPT !.function = 0]

Answers(functions, at) ==
    \/ at \in DOMAIN functions
    \/ Behind(functions, at) \in DOMAIN functions /\ functions[Behind(functions, at)].echo

\* A number below 2^31 as a dword.
Dword(n) == <<n % 256, (n \div 256) % 256, (n \div 65536) % 256, n \div 16777216>>

\* The six registers; a wide BAR's upper half is in the entry after its own.
BarDword(bars, i) ==
    IF i \in DOMAIN bars
    THEN Dword(bars[i].low + IF bars[i].space = "ports" THEN 1 ELSE IF bars[i].wide THEN 4 ELSE 0)
    ELSE IF i - 1 \in DOMAIN bars /\ bars[i - 1].wide THEN Dword(bars[i - 1].high) ELSE Zeros

\* The dwords of the k-th capability of a list.
CapabilityDword(caps, k, word, last) ==
    CASE word = 0 -> <<caps[k].id, IF k < Len(caps) THEN caps[k + 1].at ELSE last,
                       caps[k].bytes, caps[k].type>>
      [] word = 1 -> <<caps[k].bar, 0, 0, 0>>
      [] word = 2 -> Dword(caps[k].offset)
      [] word = 3 -> Dword(caps[k].length)
      [] OTHER -> Dword(caps[k].multiplier)

Config(f) ==
    [o \in {0, 4, 8, 12, 52} \cup {16 + 4 * i : i \in 0 .. 5} |->
        CASE o = 0 -> f.vendor \o f.device
          [] o = 4 -> <<7, 0, IF f.caps = <<>> THEN 0 ELSE 16, 0>>
          [] o = 8 -> <<0, 0, f.subclass, f.class>>
          [] o = 12 -> <<0, 0, IF f.multi THEN 128 ELSE 0, 0>>
          [] o = 52 -> <<IF f.caps = <<>> THEN 0 ELSE f.caps[1].at, 0, 0, 0>>
          [] OTHER -> BarDword(f.bars, (o - 16) \div 4)]
    @@ [o \in {f.caps[k].at + 4 * w : k \in DOMAIN f.caps, w \in 0 .. 4} |->
        LET k == CHOOSE k \in DOMAIN f.caps : o \in {f.caps[k].at + 4 * w : w \in 0 .. 4}
        IN  CapabilityDword(f.caps, k, (o - f.caps[k].at) \div 4, f.last)]

Space(functions) ==
    [at \in {a \in Address : Answers(functions, a)} |-> Config(functions[Behind(functions, at)])]

-----------------------------------------------------------------------------
(* The inventory.                                                          *)

Line(about, what) == [about |-> about, what |-> what]

EmptyReport == [lines |-> <<>>, truncated |-> FALSE]

\* What does not fit is dropped, and remembered as dropped.
write_str(out, lines) ==
    LET room == ROOM - Len(out.lines)
    IN  [lines |-> out.lines \o SubSeq(lines, 1, IF Len(lines) < room THEN Len(lines) ELSE room),
         truncated |-> out.truncated \/ Len(lines) > room]

\* One region of the firmware's map, counted under its kind.
CountKind(kinds, kind) ==
    IF \E i \in DOMAIN kinds : kinds[i][1] = kind
    THEN [i \in DOMAIN kinds |-> IF kinds[i][1] = kind THEN <<kind, kinds[i][2] + 1>> ELSE kinds[i]]
    ELSE IF Len(kinds) < KINDS THEN Append(kinds, <<kind, 1>>) ELSE kinds

\* The kinds, and "and more kinds than this list holds" when the list is full:
\* which is untrue of a map with exactly as many kinds as it holds.
KindLines(kinds) ==
    [i \in DOMAIN kinds |-> Line("kind", kinds[i])]
        \o IF Len(kinds) = KINDS THEN <<Line("more kinds", <<>>)>> ELSE <<>>

\* The firmware may refuse to give its map.
memory(map) ==
    IF map = None THEN <<Line("no map", <<>>)>>
    ELSE <<Line("regions", <<Len(map[1])>>)>> \o KindLines(FoldLeft(CountKind, <<>>, map[1]))

display(screen) == <<Line("display", <<IF screen THEN 1 ELSE 0>>)>>

\* The functions kept, how many they are, and how many more there were.
bus(list) ==
    [i \in DOMAIN list.found |->
        Line("pci", <<list.found[i].at.bus, list.found[i].at.device, list.found[i].at.function>>)]
        \o <<Line("functions", <<Len(list.found)>>)>>
        \o IF lost(list) > 0 THEN <<Line("not kept", <<lost(list)>>)>> ELSE <<>>

\* The last line says whether anything was dropped.
Finish(out) == write_str(out, <<Line(IF out.truncated THEN "cut short" ELSE "end", <<>>)>>)

gather(map) ==
    Finish(write_str(EmptyReport,
        <<Line("firmware", <<>>), Line("processor", <<>>)>> \o memory(map)
            \o display(machine.screen) \o bus(scan(space))))

\* The firmware's file: bytes go over what was there, and moving to a
\* position changes nothing.
WrittenOver(old, lines) == lines \o SubSeq(old, Len(lines) + 1, Len(old))

\* Opening the volume, its root or the file may fail, and so may the write,
\* after any part of it.
write_to_the_stick(lines) ==
    \/ wrote' = "not opened" /\ UNCHANGED stick
    \/ /\ wrote' = "failed"
       /\ \E k \in 0 .. Len(lines) : stick' = WrittenOver(stick, SubSeq(lines, 1, k))
    \/ wrote' = "written" /\ stick' = WrittenOver(stick, lines)

take ==
    /\ pc = "loader"
    /\ \E map \in {None, Some(machine.memory)} :
        /\ report' = gather(map)
        /\ write_to_the_stick(report'.lines)
    /\ pc' = "kernel"
    /\ UNCHANGED <<machine, space, boots, devices, shown, disk, mapped>>

-----------------------------------------------------------------------------
(* The kernel.                                                             *)

NoDisk == [why |-> "none", at |-> None, registers |-> <<0, 0>>, bell |-> <<0, 0>>]

MASS_STORAGE == 1

\* The registers of the first virtio storage device, whatever its id.
BarsShown(list) ==
    LET storage == SelectSeq(list.found, LAMBDA f : f.header.vendor = VENDOR
                                                    /\ f.header.class = MASS_STORAGE)
    IN  IF storage = <<>> THEN <<>> ELSE LoggedBars(storage[1].header.bars)

\* The scan, and the log of what it found.
Enumerate ==
    /\ pc = "kernel"
    /\ devices' = scan(space)
    /\ shown' = BarsShown(devices')
    /\ pc' = "start"
    /\ UNCHANGED <<machine, space, boots, report, stick, wrote, disk, mapped>>

PAGE_SIZE == 4096

\* The pages that hold `length` bytes from an address; as in the source the
\* last byte decides the last page.
PagesOf(high, low, length) ==
    {<<high, p>> : p \in low \div PAGE_SIZE .. (low + length - 1) \div PAGE_SIZE}

\* In order, until one cannot be mapped; one that is there already is fine.
map_registers(pages, done) ==
    /\ mapped' = mapped \cup done
    /\ done \subseteq pages
    /\ \A p \in done, q \in pages : q[2] <= p[2] => q \in done

\* Everything up to the mapping; None is a BAR that cannot be used.
Locate(location, bar) ==
    CASE location = None -> "NoCommonConfig"
      [] location # None /\ location[1].length < COMMON_CONFIG_BYTES -> "TooShort"
      [] location # None /\ location[1].length >= COMMON_CONFIG_BYTES /\ bar = None -> "NoSuchBar"
      [] location # None /\ location[1].length >= COMMON_CONFIG_BYTES /\ bar # None
            /\ bar[1].space = "ports" -> "NotMemory"
      [] OTHER -> "Located"

BarOf(header, location) == IF location = None THEN None ELSE decode_bar(header.bars, location[1].bar)

CannotStart(why, at) ==
    /\ disk' = [NoDisk EXCEPT !.why = why, !.at = at]
    /\ pc' = "done"
    /\ UNCHANGED mapped

\* Mapping the common configuration, which may fail.
MapCommon(at, location, bar) ==
    \E done \in SUBSET PagesOf(bar.high, bar.low + location.offset, location.length) :
        LET pages == PagesOf(bar.high, bar.low + location.offset, location.length)
        IN  /\ map_registers(pages, done)
            /\ disk' = [NoDisk EXCEPT !.why = IF done = pages THEN "Located" ELSE "Mapping",
                                      !.at = Some(at),
                                      !.registers = <<bar.high, bar.low + location.offset>>]
            /\ pc' = IF done = pages THEN "queue" ELSE "done"

StartAt(found, location, bar) ==
    IF Locate(location, bar) # "Located"
    THEN CannotStart(Locate(location, bar), Some(found.at))
    ELSE MapCommon(found.at, location[1], bar[1])

\* The device to start, by vendor and modern id.
Candidate(list) == find(list, VENDOR, DEVICE_BLOCK)

start ==
    /\ pc = "start"
    /\ \E found \in {Candidate(devices)} :
        IF found = None
        THEN CannotStart(IF find(devices, VENDOR, DEVICE_BLOCK_TRANSITIONAL) # None
                         THEN "Transitional" ELSE "NotFound", None)
        ELSE \E location \in {FirstLocation(locations(space, found[1].at),
                                            "Common")} :
                StartAt(found[1], location, BarOf(found[1].header, location))
    /\ UNCHANGED <<machine, space, boots, report, stick, wrote, devices, shown>>

\* Where the doorbell is: the queue's offset, times the multiplier of the
\* capability, or 0 if that had none.
Bell(location, bar, notify_offset) ==
    <<bar.high,
      bar.low + location.offset
        + notify_offset * IF location.notify_multiplier = None THEN 0
                          ELSE location.notify_multiplier[1]>>

NoBell ==
    /\ disk' = [disk EXCEPT !.why = "NoAnswer"]
    /\ UNCHANGED mapped

HangBell(location, bar) ==
    \E done \in SUBSET PagesOf(bar.high, bar.low + location.offset, location.length) :
        /\ map_registers(PagesOf(bar.high, bar.low + location.offset, location.length), done)
        /\ disk' = IF done = PagesOf(bar.high, bar.low + location.offset, location.length)
                   THEN [disk EXCEPT !.why = "Started",
                                     !.bell = Bell(location, bar,
                                                   machine.functions[disk.at[1]].notify_offset)]
                   ELSE [disk EXCEPT !.why = "NoAnswer"]

\* The part of `start_queue` that finds the doorbell.
start_queue ==
    /\ pc = "queue"
    /\ \E location \in {FirstLocation(locations(space, disk.at[1]), "Notify")},
          f \in {g \in Range(devices.found) : g.at = disk.at[1]} :
        LET bar == BarOf(f.header, location)
        IN  IF location = None \/ bar = None THEN NoBell
            ELSE IF bar[1].space = "ports" THEN NoBell
                 ELSE HangBell(location[1], bar[1])
    /\ pc' = "done"
    /\ UNCHANGED <<machine, space, boots, report, stick, wrote, devices, shown>>

\* The machine goes off and the stick into another one.
PowerOn ==
    /\ pc \in {"off", "done"}
    /\ boots < MaxBoots
    /\ boots' = boots + 1
    /\ machine' \in Machines /\ space' = Space(machine'.functions)
    /\ pc' = "loader"
    /\ report' = EmptyReport /\ wrote' = "not yet"
    /\ devices' = NoDevices /\ shown' = <<>> /\ disk' = NoDisk /\ mapped' = {}
    /\ UNCHANGED stick

Init ==
    /\ machine = CHOOSE m \in Machines : TRUE
    /\ space = <<>>
    /\ pc = "off" /\ boots = 0
    /\ report = EmptyReport /\ stick = <<>> /\ wrote = "not yet"
    /\ devices = NoDevices /\ shown = <<>> /\ disk = NoDisk /\ mapped = {}

Next == PowerOn \/ take \/ Enumerate \/ start \/ start_queue

Spec == Init /\ [][Next]_vars

-----------------------------------------------------------------------------
Before(a, b) ==
    \/ a[1] < b[1]
    \/ a[1] = b[1] /\ a[2] < b[2]
    \/ a[1] = b[1] /\ a[2] = b[2] /\ a[3] < b[3]

Triple(at) == <<at.bus, at.device, at.function>>

\* What the lines about one thing say.
Said(about) == LET lines == SelectSeq(report.lines, LAMBDA l : l.about = about)
               IN  [i \in DOMAIN lines |-> lines[i].what]

\* What the report says of a memory map. Every kind it lists has as many
\* regions as it says; one it does not list, it owns up to.
MapIsTold(map) ==
    LET kinds == Said("kind")
    IN  /\ Said("regions") = <<<<Len(map)>>>>
        /\ \A i \in DOMAIN kinds :
            /\ kinds[i][2] = Cardinality({r \in DOMAIN map : map[r] = kinds[i][1]})
            /\ kinds[i][2] > 0
            /\ \A j \in 1 .. i - 1 : kinds[j][1] # kinds[i][1]
        /\ Said("more kinds") = <<>> => Range(map) = {kinds[i][1] : i \in DOMAIN kinds}
        /\ Said("more kinds") # <<>> => Cardinality(Range(map)) >= KINDS

\* A whole inventory tells the truth about the bus: functions in bus order,
\* each one really there, none twice (a device that answers for functions it
\* does not have included), and those left out are counted. Of memory it
\* counts the regions of each kind it lists, and no kind is left out without
\* a word ("Said, not dropped quietly"). That word is also there when the
\* kinds just fill the list and none was left out, which is accepted here.
InventoryIsTrue ==
    (pc = "kernel" /\ ~report.truncated) =>
        /\ \A i \in DOMAIN Said("pci") :
            /\ \E at \in DOMAIN machine.functions : Said("pci")[i] = Triple(at)
            /\ i > 1 => Before(Said("pci")[i - 1], Said("pci")[i])
        /\ Cardinality(DOMAIN machine.functions) =
            Len(Said("pci")) + IF Said("not kept") = <<>> THEN 0 ELSE Said("not kept")[1][1]
        /\ Said("no map") = <<>> => MapIsTold(machine.memory)

ModernDisks ==
    {at \in DOMAIN machine.functions :
        machine.functions[at].vendor = VENDOR /\ machine.functions[at].device = DEVICE_BLOCK}

\* Where a structure really is.
Place(f, c) ==
    <<IF f.bars[c.bar].wide THEN f.bars[c.bar].high ELSE 0, f.bars[c.bar].low + c.offset>>

InMemory(f, c) ==
    /\ c.bar \in DOMAIN f.bars /\ f.bars[c.bar].space = "memory"
    /\ f.bars[c.bar].wide => c.bar < 5

Structures(f, type) ==
    {f.caps[k] : k \in {i \in DOMAIN f.caps : f.caps[i].id = CAPABILITY_ID
                                             /\ f.caps[i].type = type /\ f.caps[i].length > 0
                                             /\ f.caps[i].at + 16 <= 256}}

PagesHeld(f) ==
    UNION {PagesOf(Place(f, c)[1], Place(f, c)[2], c.length) :
            c \in {d \in Structures(f, 1) \cup Structures(f, 2) : InMemory(f, d)}}

\* Registers in use are those of the first modern disk on the bus: where one of
\* its common configurations really is, however its BAR is split and its
\* capabilities are chained; no page is mapped that none of its structures
\* is in; and the doorbell is the one its capability gives.  A capability
\* too short to have a multiplier is excepted: its doorbell is rung at the
\* start of the structure, where `notify_multiplier` has it that "guessing
\* would be worse than refusing to ring at all".
RightRegisters ==
    disk.why \in {"Mapping", "Located", "NoAnswer", "Started"} =>
        LET f == machine.functions[disk.at[1]]
        IN  /\ disk.at[1] \in ModernDisks
            /\ \A other \in ModernDisks \ {disk.at[1]} : Before(Triple(disk.at[1]), Triple(other))
            /\ \E c \in Structures(f, 1) :
                InMemory(f, c) /\ c.length >= COMMON_CONFIG_BYTES /\ disk.registers = Place(f, c)
            /\ mapped \subseteq PagesHeld(f)
            /\ disk.why = "Started" =>
                \E c \in Structures(f, 2) :
                    /\ InMemory(f, c)
                    /\ c.bytes >= NOTIFY_CAPABILITY_BYTES =>
                        disk.bell = [Place(f, c) EXCEPT ![2] = @ + f.notify_offset * c.multiplier]

\* When there is no disk, what is said of it is so: none found means none on
\* the part of the bus that was kept, and a disk that is refused lacks what
\* it is refused for.  The boot log shows a disk's BARs and no halves of
\* them.
RightRefusal ==
    /\ (disk.why \in {"NotFound", "Transitional"} /\ lost(devices) = 0) => ModernDisks = {}
    /\ disk.why = "NoCommonConfig" =>
        ~\E c \in Structures(machine.functions[disk.at[1]], 1) : c.bar < 6
    /\ disk.why \in {"TooShort", "NoSuchBar", "NotMemory"} =>
        \E c \in Structures(machine.functions[disk.at[1]], 1) :
            ~(InMemory(machine.functions[disk.at[1]], c) /\ c.length >= COMMON_CONFIG_BYTES)
    /\ \A i \in DOMAIN shown :
        \E at \in DOMAIN machine.functions :
            /\ shown[i].index \in DOMAIN machine.functions[at].bars
            /\ machine.functions[at].bars[shown[i].index].low = shown[i].bar.low

\* What the kernel drives, or says it cannot, is the disk the machine has:
\* the scan, the BARs and the capability lists put together.
DiskIsTheOneThere == RightRegisters /\ RightRefusal

\* INVENTORY.TXT is the report of this boot and nothing else: "the old one
\* may have been longer" and its tail must not stay on the end of the new.
ReportStandsAlone == wrote = "written" => stick = report.lines
=============================================================================
