------------------------------ MODULE Keyboard ------------------------------
(***************************************************************************)
(* From the keyboard controller to a key, arch/x86_64/src/keyboard.rs.     *)
(* The IRQ1 handler moves scan codes out of the controller's one-byte      *)
(* buffer into a ring of CAPACITY slots; whoever reads the console takes   *)
(* them out and feeds them to a decoder.  The ring has no lock: `tail` is  *)
(* written by the handler alone and `head` by the reader alone, both run   *)
(* free and wrap.  Every load and store of the ring that the other side    *)
(* can see is a step, and the two sides interleave freely: the source says *)
(* the ring is correct "whether the two run on one core, interrupting each *)
(* other, or on two".  Its Acquire and Release orders make each step see   *)
(* the stores before the index it loads.                                   *)
(*                                                                         *)
(* `arrived`, `taken` and `keys` only record what happened.                *)
(***************************************************************************)
EXTENDS Integers, Sequences, FiniteSets

CONSTANTS
    CAPACITY,       \* QUEUE_CAPACITY: slots of the ring (64)
    INDEXES,        \* values of an index before it wraps (2^64)
    DRAIN_LIMIT,    \* bytes one interrupt takes at most (16)
    Codes,          \* bound: the scan codes there are
    MaxCodes        \* bound: bytes the controller sends

VARIABLES
    output, irq, sent,                  \* the controller
    slots, head, tail,                  \* the ring
    producer, byte, drained, seen_head, \* the handler
    consumer, scancode,                 \* the reader
    decoder,                            \* its decoder
    arrived, taken, keys

ring == <<slots, head, tail>>
handler == <<producer, byte, drained, seen_head>>
reader == <<consumer, scancode, decoder>>
record == <<arrived, taken, keys>>
vars == <<output, irq, sent, ring, handler, reader, record>>

\* Scan codes: the prefix of an extended key, or a key and whether it was let
\* go.  `Letter` stands for the keys with a character, `Other` for those with
\* none.  Aux is a byte of the mouse.
Makes == {"LeftShift", "RightShift", "Letter", "Enter", "Other"}
PREFIX_EXTENDED == [make |-> "Prefix", released |-> FALSE]
ScanCodes == {PREFIX_EXTENDED} \cup [make : Makes, released : BOOLEAN]
Aux == [make |-> "Aux", released |-> FALSE]
NoByte == [make |-> "None", released |-> FALSE]

NoKey == "NoKey"

\* What the constants must satisfy.
KeyboardAssumption ==
    /\ {CAPACITY, DRAIN_LIMIT} \subseteq Nat \ {0} /\ MaxCodes \in Nat /\ Codes \subseteq ScanCodes
    /\ INDEXES \in Nat /\ INDEXES > CAPACITY /\ INDEXES % CAPACITY = 0

-----------------------------------------------------------------------------
(* The controller: a byte in the buffer raises the interrupt.              *)
Send ==
    /\ output = NoByte /\ sent < MaxCodes
    /\ \E code \in Codes \cup {Aux} : output' = code
    /\ irq' = TRUE
    /\ sent' = sent + 1
    /\ UNCHANGED <<ring, handler, reader, record>>

-----------------------------------------------------------------------------
(* `on_irq` and `push`.                                                    *)
on_irq ==
    /\ producer = "out" /\ irq
    /\ irq' = FALSE
    /\ producer' = "draining" /\ drained' = 0
    /\ UNCHANGED <<output, sent, ring, byte, seen_head, reader, record>>

\* The status register and, if it says so, the byte; those of the mouse are
\* read and forgotten.
Drain ==
    /\ producer = "draining"
    /\ \/ /\ output = NoByte \/ drained = DRAIN_LIMIT
          /\ producer' = "out" /\ drained' = 0
          /\ UNCHANGED <<output, byte>>
       \/ /\ output # NoByte /\ drained < DRAIN_LIMIT
          /\ output' = NoByte
          /\ drained' = drained + 1
          /\ IF output = Aux THEN UNCHANGED <<producer, byte>>
             ELSE producer' = "pushing" /\ byte' = output
    /\ UNCHANGED <<irq, sent, ring, seen_head, reader, record>>

PushLoads ==
    /\ producer = "pushing"
    /\ seen_head' = head
    /\ producer' = "checking"
    /\ UNCHANGED <<output, irq, sent, ring, byte, drained, reader, record>>

\* Mutant: the ring is full one too late.
Full_late == (tail - seen_head) % INDEXES = CAPACITY + 1

Full == (tail - seen_head) % INDEXES = CAPACITY

\* A full ring drops the code; otherwise it goes into its slot.
PushStores ==
    /\ producer = "checking"
    /\ producer' = IF Full THEN "draining" ELSE "publishing"
    /\ slots' = IF Full THEN slots ELSE [slots EXCEPT ![tail % CAPACITY] = byte]
    /\ byte' = IF Full THEN NoByte ELSE byte
    /\ seen_head' = 0
    /\ UNCHANGED <<output, irq, sent, head, tail, drained, reader, record>>

PushPublishes ==
    /\ producer = "publishing"
    /\ tail' = (tail + 1) % INDEXES
    /\ arrived' = Append(arrived, byte)
    /\ producer' = "draining" /\ byte' = NoByte
    /\ UNCHANGED <<output, irq, sent, slots, head, drained, seen_head, reader, taken, keys>>

-----------------------------------------------------------------------------
(* `read_key`, `pop` and `feed`.                                           *)
read_key ==
    /\ consumer = "out"
    /\ consumer' = "popping"
    /\ UNCHANGED <<output, irq, sent, ring, handler, scancode, decoder, record>>

PopLoads ==
    /\ consumer = "popping"
    /\ consumer' = IF head = tail THEN "out" ELSE "reading"
    /\ UNCHANGED <<output, irq, sent, ring, handler, scancode, decoder, record>>

PopReads ==
    /\ consumer = "reading"
    /\ scancode' = slots[head % CAPACITY]
    /\ consumer' = "feeding"
    /\ UNCHANGED <<output, irq, sent, ring, handler, decoder, record>>

\* Mutant: what comes after the prefix is a key like any other.
extended_never(d) == FALSE

extended(d) == d.expecting_extended

\* What a code does to the decoder, and the key it completes.
feed(d, code) ==
    LET plain == [d EXCEPT !.expecting_extended = FALSE]
        key == IF code.make = "Enter" THEN "Enter"
               ELSE IF code.make = "Other" THEN "Unknown"
               ELSE IF d.left_shift \/ d.right_shift THEN "Upper" ELSE "Lower"
    IN  IF code = PREFIX_EXTENDED
        THEN [decoder |-> [d EXCEPT !.expecting_extended = TRUE], key |-> NoKey]
        ELSE IF extended(d)
        THEN [decoder |-> plain, key |-> IF code.released THEN NoKey ELSE "Unknown"]
        ELSE CASE code.make = "LeftShift" ->
                    [decoder |-> [plain EXCEPT !.left_shift = ~code.released], key |-> NoKey]
               [] code.make = "RightShift" ->
                    [decoder |-> [plain EXCEPT !.right_shift = ~code.released], key |-> NoKey]
               [] OTHER -> [decoder |-> plain, key |-> IF code.released THEN NoKey ELSE key]

\* The slot is given up and the code fed; the loop ends with a key.
PopFeeds ==
    /\ consumer = "feeding"
    /\ head' = (head + 1) % INDEXES
    /\ LET fed == feed(decoder, scancode) IN
        /\ decoder' = fed.decoder
        /\ keys' = IF fed.key = NoKey THEN keys ELSE Append(keys, fed.key)
        /\ consumer' = IF fed.key = NoKey THEN "popping" ELSE "out"
    /\ scancode' = NoByte
    /\ taken' = taken + 1
    /\ UNCHANGED <<output, irq, sent, slots, tail, handler, arrived>>

-----------------------------------------------------------------------------
Init ==
    /\ output = NoByte /\ irq = FALSE /\ sent = 0
    /\ slots = [n \in 0 .. CAPACITY - 1 |-> NoByte]
    /\ head = 0 /\ tail = 0
    /\ producer = "out" /\ byte = NoByte /\ drained = 0 /\ seen_head = 0
    /\ consumer = "out" /\ scancode = NoByte
    /\ decoder = [left_shift |-> FALSE, right_shift |-> FALSE, expecting_extended |-> FALSE]
    /\ arrived = <<>> /\ taken = 0 /\ keys = <<>>

Next ==
    \/ Send
    \/ on_irq \/ Drain \/ PushLoads \/ PushStores \/ PushPublishes
    \/ read_key \/ PopLoads \/ PopReads \/ PopFeeds

Spec == Init /\ [][Next]_vars

-----------------------------------------------------------------------------
\* At every point between two loads or stores, and whichever way the indexes
\* have wrapped, the slots from `head` to `tail` hold what arrived and was
\* not yet taken, in order; and what the reader has in hand is the next.
RingHoldsWhatArrived ==
    LET waiting == SubSeq(arrived, taken + 1, Len(arrived)) IN
    /\ Len(waiting) <= CAPACITY
    /\ (tail - head) % INDEXES = Len(waiting)
    /\ \A n \in DOMAIN waiting : slots[(head + n - 1) % CAPACITY] = waiting[n]
    /\ consumer = "feeding" => scancode = waiting[1]

\* What a stream of codes means, by looking back from each code: it belongs
\* to an extended key if the prefix is just before it, and a letter is upper
\* case if of some shift the last plain code before it was not a release.
Extended(s, i) == i > 1 /\ s[i - 1] = PREFIX_EXTENDED

Held(s, i, shift) ==
    \E k \in 1 .. i - 1 :
        /\ s[k] = [make |-> shift, released |-> FALSE] /\ ~Extended(s, k)
        /\ \A l \in k + 1 .. i - 1 :
            s[l] = [make |-> shift, released |-> TRUE] => Extended(s, l)

Meaning(s, i) ==
    IF Extended(s, i) \/ s[i].make = "Other" THEN "Unknown"
    ELSE IF s[i].make = "Enter" THEN "Enter"
    ELSE IF Held(s, i, "LeftShift") \/ Held(s, i, "RightShift") THEN "Upper" ELSE "Lower"

Completes(s, i) ==
    /\ s[i] # PREFIX_EXTENDED /\ ~s[i].released
    /\ s[i].make \in {"LeftShift", "RightShift"} => Extended(s, i)

\* The codes among the first n that complete a key.
Completing(s, n) == {i \in 1 .. n : Completes(s, i)}

\* The keys that were read are what the codes that arrived mean, one for each
\* code that completes a key and in their order, however the codes were spread
\* over interrupts and calls of `read_key`: the decoder's three flags are
\* enough, and the pair of an extended key never counts as a shift.
KeysAreWhatWasTyped ==
    /\ Len(keys) = Cardinality(Completing(arrived, taken))
    /\ \A i \in Completing(arrived, taken) :
          keys[Cardinality(Completing(arrived, i))] = Meaning(arrived, i)
=============================================================================
