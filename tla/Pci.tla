-------------------------------- MODULE Pci --------------------------------
(***************************************************************************)
(* What configuration space says: the walk of the bus, base address        *)
(* registers and capability lists of hal/src/pci.rs, read through the two  *)
(* ports of arch/x86_64/src/pci.rs, and on top of them the virtio          *)
(* structures of hal/src/virtio.rs.                                        *)
(*                                                                         *)
(* `space` gives, for each address where something answers, its dwords by  *)
(* offset.  A dword is its four bytes, lowest first.  An Option is a       *)
(* sequence of at most one element.                                        *)
(***************************************************************************)
EXTENDS Integers, Sequences, SequencesExt

CONSTANTS
    BUSES, DEVICES_PER_BUS, FUNCTIONS_PER_DEVICE,   \* 256, 32, 8
    MAX_DEVICES,        \* functions a scan keeps (96)
    CAPABILITY_LIMIT    \* entries of a list followed before it is a loop (48)

Address == [bus : 0 .. BUSES - 1, device : 0 .. DEVICES_PER_BUS - 1,
            function : 0 .. FUNCTIONS_PER_DEVICE - 1]

None == <<>>
Some(x) == <<x>>

Zeros == <<0, 0, 0, 0>>
Ones == <<255, 255, 255, 255>>

-----------------------------------------------------------------------------
(* The two ports.                                                          *)

\* What is written to 0xCF8, without the enable bit.
config_address(at, offset) ==
    at.bus * 65536 + at.device * 2048 + at.function * 256 + (offset - (offset % 4))

\* The function the host bridge takes that number to mean.
Selected(address) ==
    [bus |-> address \div 65536, device |-> (address \div 2048) % 32,
     function |-> (address \div 256) % 8]

\* What then comes back from 0xCFC: all ones where nothing answers.
Answer(space, address) ==
    IF Selected(address) \notin DOMAIN space THEN Ones
    ELSE IF address % 256 \in DOMAIN space[Selected(address)]
         THEN space[Selected(address)][address % 256]
         ELSE Zeros

read_dword(space, at, offset) == Answer(space, config_address(at, offset))

-----------------------------------------------------------------------------
(* Headers, and the scan.                                                  *)

NO_VENDOR == <<255, 255>>

from_config(words) ==
    [vendor |-> SubSeq(words[0], 1, 2), device |-> SubSeq(words[0], 3, 4),
     subclass |-> words[2][3], class |-> words[2][4],
     header_type |-> words[3][3],
     bars |-> [i \in 0 .. 5 |-> words[4 + i]]]

\* The vendor first, and the rest only if something answers.
read_header(space, at) ==
    IF SubSeq(read_dword(space, at, 0), 1, 2) = NO_VENDOR THEN None
    ELSE Some(from_config([i \in 0 .. 15 |-> read_dword(space, at, 4 * i)]))

\* Mutant: every device is asked about all its functions.
is_multifunction_always(header) == TRUE

is_multifunction(header) == header.header_type >= 128

NoDevices == [found |-> <<>>, seen |-> 0]

\* Counted in any case, kept while there is room.
add(devices, function) ==
    [found |-> IF Len(devices.found) < MAX_DEVICES
               THEN Append(devices.found, function) ELSE devices.found,
     seen |-> devices.seen + 1]

lost(devices) == devices.seen - Len(devices.found)

\* A function that is there is added; `header` is what was read of it.
AddHeader(devices, at, header) ==
    IF header = None THEN devices ELSE add(devices, [at |-> at, header |-> header[1]])

AddFunction(devices, space, at) == AddHeader(devices, at, read_header(space, at))

OthersOf(at) == [i \in 1 .. FUNCTIONS_PER_DEVICE - 1 |-> [at EXCEPT !.function = i]]

\* Function 0, which says whether the others are worth asking about.
AddDevice(devices, space, at, header) ==
    IF header = None THEN devices
    ELSE FoldLeft(LAMBDA so_far, other : AddFunction(so_far, space, other),
                  AddHeader(devices, at, header),
                  IF is_multifunction(header[1]) THEN OthersOf(at) ELSE <<>>)

Slots ==
    [i \in 1 .. BUSES * DEVICES_PER_BUS |->
        [bus |-> (i - 1) \div DEVICES_PER_BUS, device |-> (i - 1) % DEVICES_PER_BUS,
         function |-> 0]]

scan(space) ==
    FoldLeft(LAMBDA devices, at : AddDevice(devices, space, at, read_header(space, at)),
             NoDevices, Slots)

\* The first function kept with this vendor and this device id.
find(devices, vendor, device) ==
    LET matches == SelectSeq(devices.found, LAMBDA f : f.header.vendor = vendor
                                                       /\ f.header.device = device)
    IN  IF matches = <<>> THEN None ELSE Some(matches[1])

-----------------------------------------------------------------------------
(* Base address registers.  An address is its two halves.                  *)

Value(dword) == dword[1] + 256 * dword[2] + 65536 * dword[3] + 16777216 * dword[4]

\* Mutant: the upper half of a wide one is left out.
decode_memory_low(bars, index, raw) ==
    Some([space |-> "memory", wide |-> (raw[1] \div 2) % 4 = 2, high |-> 0,
          low |-> Value([raw EXCEPT ![1] = @ - (@ % 16)])])

\* A memory BAR; a wide one (bits 2:1 are 2) goes on in the next entry,
\* which the last of the six does not have.
decode_memory(bars, index, raw) ==
    LET wide == (raw[1] \div 2) % 4 = 2
    IN  IF wide /\ index + 1 >= 6 THEN None
        ELSE Some([space |-> "memory", wide |-> wide,
                   high |-> IF wide THEN Value(bars[index + 1]) ELSE 0,
                   low |-> Value([raw EXCEPT ![1] = @ - (@ % 16)])])

decode_bar(bars, index) ==
    IF index >= 6 \/ bars[index] = Zeros THEN None
    ELSE IF bars[index][1] % 2 # 0
         THEN Some([space |-> "ports", wide |-> FALSE, high |-> 0,
                    low |-> Value(<<bars[index][1] - (bars[index][1] % 4), bars[index][2], 0, 0>>)])
         ELSE decode_memory(bars, index, bars[index])

entries(bar) == IF bar.wide THEN 2 ELSE 1

\* The boot's walk over the six entries, for its log: which it shows.
LogBar(walk, index, bar) ==
    IF index < walk.next THEN walk
    ELSE IF bar = None THEN [walk EXCEPT !.next = index + 1]
         ELSE [next |-> index + entries(bar[1]),
               shown |-> Append(walk.shown, [index |-> index, bar |-> bar[1]])]

LoggedBars(bars) ==
    FoldLeft(LAMBDA walk, i : LogBar(walk, i - 1, decode_bar(bars, i - 1)),
             [next |-> 0, shown |-> <<>>], [i \in 1 .. 6 |-> i]).shown

-----------------------------------------------------------------------------
(* The capability list.                                                    *)

STATUS_DWORD == 4
CAPABILITY_POINTER == 52

HasCapabilities(status) == (status[3] \div 16) % 2 = 1

\* Offsets are dword-aligned: the two low bits are dropped.
Masked(offset) == offset - (offset % 4)

\* One entry; `header` is the dword at its offset.
Follow(walk, header) ==
    IF walk.offset = 0 THEN walk
    ELSE [offset |-> Masked(header[2]),
          list |-> Append(walk.list, [id |-> header[1], offset |-> walk.offset])]

capabilities(space, at) ==
    IF ~HasCapabilities(read_dword(space, at, STATUS_DWORD)) THEN <<>>
    ELSE FoldLeft(LAMBDA walk, i : Follow(walk, read_dword(space, at, walk.offset)),
                  [offset |-> Masked(read_dword(space, at, CAPABILITY_POINTER)[1]),
                   list |-> <<>>],
                  [i \in 1 .. CAPABILITY_LIMIT |-> i]).list

-----------------------------------------------------------------------------
(* Virtio's structures.                                                    *)

VENDOR == <<244, 26>>
DEVICE_BLOCK == <<66, 16>>
DEVICE_BLOCK_TRANSITIONAL == <<1, 16>>
CAPABILITY_ID == 9
NOTIFY_CAPABILITY_BYTES == 20
COMMON_CONFIG_BYTES == 56

from_cfg_type(cfg_type) ==
    CASE cfg_type = 1 -> "Common" [] cfg_type = 2 -> "Notify" [] cfg_type = 3 -> "Isr"
      [] cfg_type = 4 -> "Device" [] cfg_type = 5 -> "PciConfig" [] OTHER -> "Unknown"

decode_capability(words, fifth) ==
    IF words[1][1] # CAPABILITY_ID \/ words[2][1] >= 6 \/ Value(words[4]) = 0 THEN None
    ELSE Some([structure |-> from_cfg_type(words[1][4]), bar |-> words[2][1],
               offset |-> Value(words[3]), length |-> Value(words[4]),
               notify_multiplier |->
                    IF from_cfg_type(words[1][4]) = "Notify"
                       /\ words[1][3] >= NOTIFY_CAPABILITY_BYTES
                    THEN fifth ELSE None])

\* Four dwords, all of them below offset 256, and a fifth if that is too.
LocationAt(space, at, offset) ==
    IF offset + 12 > 255 THEN None
    ELSE decode_capability([i \in 1 .. 4 |-> read_dword(space, at, offset + 4 * (i - 1))],
                           IF offset + 16 > 255 THEN None
                           ELSE Some(Value(read_dword(space, at, offset + 16))))

AddLocation(list, space, at, capability) ==
    IF capability.id # CAPABILITY_ID THEN list
    ELSE list \o LocationAt(space, at, capability.offset)

locations(space, at) ==
    FoldLeft(LAMBDA list, capability : AddLocation(list, space, at, capability),
             <<>>, capabilities(space, at))

\* The first structure of a kind: the common configuration, or the doorbells.
FirstLocation(list, structure) ==
    LET matches == SelectSeq(list, LAMBDA l : l.structure = structure)
    IN  IF matches = <<>> THEN None ELSE Some(matches[1])
=============================================================================
