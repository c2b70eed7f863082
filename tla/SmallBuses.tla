----------------------------- MODULE SmallBuses ----------------------------
(* Two buses of two devices with three functions, of which three are kept.  *)
(* Disks that are usable, with narrow and wide BARs and lists in several     *)
(* orders, and disks that lack one thing each.                               *)
EXTENDS Pci

Function0(vendor, device, class, multi, echo) ==
    [vendor |-> vendor, device |-> device, class |-> class, subclass |-> 0, multi |-> multi,
     echo |-> echo, bars |-> <<>>, caps |-> <<>>, last |-> 0, notify_offset |-> 1]

Bridge == Function0(<<134, 128>>, <<1, 0>>, 6, FALSE, TRUE)
Ide == Function0(<<134, 128>>, <<2, 0>>, 1, TRUE, FALSE)
Usb == Function0(<<134, 128>>, <<3, 0>>, 12, FALSE, FALSE)
Legacy == [Function0(VENDOR, DEVICE_BLOCK_TRANSITIONAL, 1, FALSE, FALSE)
            EXCEPT !.bars = 0 :> [space |-> "ports", wide |-> FALSE, high |-> 0, low |-> 192]]

Memory(low) == [space |-> "memory", wide |-> FALSE, high |-> 0, low |-> low]
Wide(high, low) == [space |-> "memory", wide |-> TRUE, high |-> high, low |-> low]
Cap(at, id, type, bar, offset, length) ==
    [at |-> at, id |-> id, bytes |-> IF type = 2 THEN 20 ELSE 16, type |-> type, bar |-> bar,
     offset |-> offset, length |-> length, multiplier |-> IF type = 2 THEN 4 ELSE 0]

Disk(bars, caps) ==
    [Function0(VENDOR, DEVICE_BLOCK, 1, FALSE, TRUE) EXCEPT !.bars = bars, !.caps = caps]

Common == Cap(64, 9, 1, 1, 4064, 56)
Notify == Cap(84, 9, 2, 1, 8192, 8)
Other == Cap(104, 17, 0, 0, 0, 0)
Bars1 == 1 :> Memory(16384)

Disks ==
    {Disk(Bars1, <<Common, Notify>>),
     \* a wide BAR, and the structures behind something that is not virtio's
     Disk(4 :> Wide(1, 32768), <<Other, [Notify EXCEPT !.bar = 4], [Common EXCEPT !.bar = 4]>>),
     \* an empty structure, a second common one, a list that loops
     [Disk(0 :> Wide(2, 0) @@ 2 :> Memory(65536),
           <<[Common EXCEPT !.length = 0], [Notify EXCEPT !.bar = 2],
             Cap(104, 9, 1, 2, 0, 64), Cap(124, 9, 1, 0, 0, 64)>>) EXCEPT !.last = 64],
     \* at the end of configuration space, and no multiplier
     Disk(Bars1, <<[Notify EXCEPT !.bytes = 16], [Common EXCEPT !.at = 240]>>),
     Disk(Bars1, <<[Common EXCEPT !.at = 244], Notify>>),
     \* lacking one thing
     Disk(Bars1, <<>>),
     Disk(Bars1, <<Common>>),
     Disk(Bars1, <<[Common EXCEPT !.length = 24], Notify>>),
     Disk(Bars1, <<[Common EXCEPT !.bar = 2], Notify>>),
     Disk(Bars1, <<[Common EXCEPT !.bar = 6], Notify>>),
     Disk(Bars1 @@ 0 :> [space |-> "ports", wide |-> FALSE, high |-> 0, low |-> 192],
          <<[Common EXCEPT !.bar = 0], Notify>>),
     Disk(5 :> Wide(1, 32768), <<[Common EXCEPT !.bar = 5], Notify>>)}

At(b, d, f) == [bus |-> b, device |-> d, function |-> f]

\* What may be in a slot: functions by number.
Nothing == <<>>
Few == {Nothing, 0 :> Bridge, 0 :> Ide @@ 2 :> Usb}
Anything == Few \cup {0 :> Legacy} \cup {0 :> d : d \in Disks}

Filled(a, b, c) ==
    [at \in {At(0, 0, f) : f \in DOMAIN a} \cup {At(0, 1, f) : f \in DOMAIN b}
                \cup {At(1, 1, f) : f \in DOMAIN c} |->
        IF at.bus = 1 THEN c[at.function]
        ELSE IF at.device = 1 THEN b[at.function] ELSE a[at.function]]

\* Kinds of memory region: below, at and above what the list of two holds.
Maps == UNION {[1 .. n -> {0, 4, 7}] : n \in 1 .. 3} \cup {<<7, 4, 0, 7>>}

SmallBusMachines ==
    {[functions |-> Filled(a, b, c), memory |-> <<7, 7>>, screen |-> TRUE] :
        a \in Few, b \in Anything, c \in Few \cup {0 :> Legacy, 0 :> Disk(Bars1, <<Common, Notify>>)}}
    \cup {[functions |-> Filled(0 :> Bridge, b, b), memory |-> m, screen |-> FALSE] :
            b \in {Nothing, 0 :> Ide @@ 2 :> Usb}, m \in Maps}
=============================================================================
