--------------------------- MODULE KeyboardProofs ---------------------------
(***************************************************************************)
(* Proofs about module Keyboard, for a ring of any size, any number of     *)
(* index values it divides and any stream of codes: the ring holds what    *)
(* arrived and was not taken, and the keys read are what the codes mean.   *)
(***************************************************************************)
EXTENDS Keyboard, NumberFacts, SequenceTheorems

Bytes == Codes \cup {Aux, NoByte}

\* The types the ring's argument needs.
RingType ==
  /\ output \in Bytes /\ byte \in Bytes /\ arrived \in Seq(Codes)
  /\ producer \in {"pushing", "checking", "publishing"} => byte \in Codes
  /\ slots \in [0 .. CAPACITY - 1 -> Bytes]
  /\ taken \in Nat /\ taken <= Len(arrived)

\* The indexes stand for how many codes were taken and put in, and the slots
\* between them hold the codes in between.
Stored ==
  /\ head = taken % INDEXES /\ tail = Len(arrived) % INDEXES
  /\ Len(arrived) - taken <= CAPACITY
  /\ \A i \in taken .. Len(arrived) - 1 : slots[i % CAPACITY] = arrived[i + 1]

\* The head the handler has loaded may be old: it stands for no more than was
\* taken, so what looks free to the handler is free.
Pushing ==
  /\ producer = "checking" =>
       \E h \in 0 .. taken : seen_head = h % INDEXES /\ Len(arrived) - h <= CAPACITY
  /\ producer = "publishing" =>
       Len(arrived) - taken < CAPACITY /\ slots[Len(arrived) % CAPACITY] = byte

Popping ==
  /\ consumer \in {"reading", "feeding"} => taken < Len(arrived)
  /\ consumer = "feeding" => scancode = arrived[taken + 1]

RingInv == RingType /\ Stored /\ Pushing /\ Popping

Flags == [left_shift : BOOLEAN, right_shift : BOOLEAN, expecting_extended : BOOLEAN]

\* The decoder's flags are what looking back from the next code finds.
Decoding ==
  /\ decoder \in Flags
  /\ decoder.expecting_extended <=> Extended(arrived, taken + 1)
  /\ decoder.left_shift <=> Held(arrived, taken + 1, "LeftShift")
  /\ decoder.right_shift <=> Held(arrived, taken + 1, "RightShift")
  /\ keys \in Seq({"Enter", "Unknown", "Upper", "Lower"})

KeyInv == RingInv /\ Decoding /\ KeysAreWhatWasTyped

-----------------------------------------------------------------------------
(* The ring.                                                               *)

\* What the assumption on the constants says of the ring's sizes.
LEMMA Sizes ==
  ASSUME KeyboardAssumption
  PROVE  /\ CAPACITY \in Nat \ {0} /\ INDEXES \in Nat \ {0}
         /\ INDEXES > CAPACITY /\ INDEXES % CAPACITY = 0
BY DEF KeyboardAssumption

\* Bytes of the mouse and the empty buffer are no scan codes.
LEMMA NoCodes ==
  ASSUME KeyboardAssumption
  PROVE  NoByte \notin Codes /\ Aux \notin Codes /\ NoByte # Aux
BY Zenon DEF KeyboardAssumption, NoByte, Aux, ScanCodes, PREFIX_EXTENDED, Makes

\* The ring starts empty.
LEMMA RingInit ==
  ASSUME KeyboardAssumption, Init
  PROVE  RingInv
<1>1. arrived = <<>> /\ Len(arrived) = 0 /\ arrived \in Seq(Codes)
  BY DEF Init
<1>2. RingType
  BY <1>1 DEF Init, RingType, Bytes
<1>3. 0 % INDEXES = 0
  <2>1. 0 = INDEXES * 0 + 0 /\ 0 \in 0 .. INDEXES - 1
    BY Sizes
  <2> QED
    BY <2>1, Sizes, ModUnique
<1>4. Stored
  BY <1>1, <1>3, Sizes DEF Init, Stored
<1>5. Pushing /\ Popping
  BY Zenon DEF Init, Pushing, Popping
<1> QED
  BY <1>2, <1>4, <1>5, Zenon DEF RingInv

\* A ring that does not look full to the handler has room, however old the
\* head is that it compares with: `push` of keyboard.rs.
LEMMA NotFullHasRoom ==
  ASSUME KeyboardAssumption, RingInv, producer = "checking", ~Full
  PROVE  Len(arrived) - taken < CAPACITY
<1>1. PICK h \in 0 .. taken : seen_head = h % INDEXES /\ Len(arrived) - h <= CAPACITY
  BY Zenon DEF RingInv, Pushing
<1>2. Len(arrived) \in Nat /\ taken \in Nat /\ taken <= Len(arrived)
  BY DEF RingInv, RingType
<1>3. Len(arrived) - h \in 0 .. INDEXES - 1
  BY <1>1, <1>2, Sizes
<1>4. (tail - seen_head) % INDEXES = Len(arrived) - h
  <2>1. INDEXES \in Nat \ {0} /\ Len(arrived) \in Int /\ h \in Int
    BY <1>1, <1>2, Sizes
  <2>2. ((Len(arrived) % INDEXES) - (h % INDEXES)) % INDEXES = Len(arrived) - h
    BY <1>3, <2>1, ModDistance, Zenon
  <2>3. tail = Len(arrived) % INDEXES
    BY Zenon DEF RingInv, Stored
  <2> QED
    BY <1>1, <2>2, <2>3, Zenon
<1>5. Len(arrived) - h # CAPACITY
  BY <1>4, Zenon DEF Full
<1> QED
  BY <1>1, <1>2, <1>5, Sizes

\* The slot a code is put in is none of those with a code in it.
LEMMA StoringKeepsTheRest ==
  ASSUME KeyboardAssumption, RingInv, Len(arrived) - taken < CAPACITY
  PROVE  \A i \in taken .. Len(arrived) - 1 : i % CAPACITY # Len(arrived) % CAPACITY
<1> TAKE i \in taken .. Len(arrived) - 1
<1>1. Len(arrived) \in Nat /\ taken \in Nat
  BY DEF RingInv, RingType
<1>2. Len(arrived) - i \in 1 .. CAPACITY - 1 /\ i \in Int
  BY <1>1, Sizes
<1> QED
  BY <1>1, <1>2, Sizes, ModApart

\* Everything but the four steps below leaves the ring, what arrived and what
\* was taken alone.
LEMMA ElsewhereKeepsRingInv ==
  ASSUME KeyboardAssumption, RingInv, Send \/ on_irq \/ Drain \/ read_key \/ UNCHANGED vars
  PROVE  RingInv'
<1> USE DEF RingInv
<1>0. UNCHANGED <<slots, head, tail, arrived, taken, scancode>>
  BY Zenon DEF Send, on_irq, Drain, read_key, vars, ring, handler, reader, record
<1>1. RingType'
  <2>1. CASE Send
    BY <2>1, <1>0, Zenon DEF Send, RingType, Bytes, handler
  <2>2. CASE on_irq
    BY <2>2, <1>0, Zenon DEF on_irq, RingType
  <2>3. CASE Drain
    BY <2>3, <1>0, Zenon DEF Drain, RingType, Bytes
  <2>4. CASE read_key
    BY <2>4, <1>0, Zenon DEF read_key, RingType, handler
  <2>5. CASE UNCHANGED vars
    BY <2>5, <1>0, Zenon DEF vars, handler, RingType
  <2> QED
    BY <2>1, <2>2, <2>3, <2>4, <2>5, Zenon
<1>2. Stored'
  BY <1>0, Zenon DEF Stored
<1>3. producer' = producer \/ producer' \notin {"checking", "publishing"}
  BY Zenon DEF Send, on_irq, Drain, read_key, vars, handler
<1>4. producer' = producer => (byte' = byte /\ seen_head' = seen_head) \/ producer = "draining"
  BY Zenon DEF Send, on_irq, Drain, read_key, vars, handler
<1>5. Pushing'
  BY <1>0, <1>3, <1>4, Zenon DEF Pushing
<1>6. consumer' = consumer \/ consumer' = "popping"
  BY Zenon DEF Send, on_irq, Drain, read_key, vars, reader
<1>7. Popping'
  BY <1>0, <1>6, Zenon DEF Popping
<1> QED
  BY <1>1, <1>2, <1>5, <1>7, Zenon

\* The handler's load of `head` changes nothing the ring holds.
LEMMA PushLoadsKeepsRingInv ==
  ASSUME KeyboardAssumption, RingInv, PushLoads
  PROVE  RingInv'
<1> USE DEF RingInv, PushLoads, ring, reader, record
<1>1. RingType'
  BY Zenon DEF RingType
<1>2. Stored' /\ Popping'
  BY Zenon DEF Stored, Popping
<1>3. Pushing'
  BY DEF Pushing, Stored, RingType
<1> QED
  BY <1>1, <1>2, <1>3, Zenon

\* The handler's store of a code goes to a slot the reader does not look at.
LEMMA PushStoresKeepsRingInv ==
  ASSUME KeyboardAssumption, RingInv, PushStores
  PROVE  RingInv'
<1>1. CASE Full
  <2> USE <1>1 DEF RingInv, PushStores, reader, record
  <2>1. RingType'
    BY Zenon DEF RingType, Bytes
  <2>2. Stored' /\ Pushing' /\ Popping'
    BY Zenon DEF Stored, Pushing, Popping
  <2> QED
    BY <2>1, <2>2, Zenon
<1>2. CASE ~Full
  <2>1. Len(arrived) - taken < CAPACITY
    BY <1>2, NotFullHasRoom, Zenon DEF PushStores
  <2>2. \A i \in taken .. Len(arrived) - 1 : i % CAPACITY # Len(arrived) % CAPACITY
    BY <2>1, StoringKeepsTheRest, Zenon
  <2>3. Len(arrived) \in Nat /\ taken \in Nat /\ byte \in Codes
    BY DEF RingInv, RingType, PushStores
  <2>4. tail % CAPACITY = Len(arrived) % CAPACITY
    <3>1. tail = Len(arrived) % INDEXES /\ Len(arrived) \in Int
      BY <2>3 DEF RingInv, Stored
    <3> QED
      BY <3>1, Sizes, ModOfMod, Zenon
  <2>5. \A i \in Int : i % CAPACITY \in 0 .. CAPACITY - 1
    BY Sizes, DivMod, Zenon
  <2>6. slots' = [slots EXCEPT ![Len(arrived) % CAPACITY] = byte]
    BY <1>2, <2>4, Zenon DEF PushStores
  <2> USE <1>2 DEF RingInv, PushStores, reader, record
  <2>7. RingType'
    BY <2>3, <2>6, Zenon DEF RingType, Bytes
  <2>8. Stored'
    <3>1. \A i \in taken .. Len(arrived) - 1 : slots'[i % CAPACITY] = slots[i % CAPACITY]
      BY <2>2, <2>3, <2>5, <2>6 DEF RingType
    <3> QED
      BY <3>1, Zenon DEF Stored
  <2>9. Pushing'
    BY <2>1, <2>3, <2>5, <2>6 DEF Pushing, RingType
  <2>10. Popping'
    BY Zenon DEF Popping
  <2> QED
    BY <2>7, <2>8, <2>9, <2>10, Zenon
<1> QED
  BY <1>1, <1>2, Zenon

\* An index that moves on stands for the next number.
LEMMA IndexMovesOn ==
  ASSUME KeyboardAssumption, NEW n \in Nat
  PROVE  ((n % INDEXES) + 1) % INDEXES = (n + 1) % INDEXES
<1>1. INDEXES \in Nat \ {0} /\ n \in Int /\ 1 \in Int
  BY Sizes
<1> QED
  BY <1>1, ModAdd, Zenon

\* The handler's store of `tail` hands exactly one code to the reader.
LEMMA PushPublishesKeepsRingInv ==
  ASSUME KeyboardAssumption, RingInv, PushPublishes
  PROVE  RingInv'
<1>1. byte \in Codes /\ arrived \in Seq(Codes) /\ taken \in Nat /\ taken <= Len(arrived)
  BY Zenon DEF RingInv, RingType, PushPublishes
<1>2. /\ arrived' \in Seq(Codes) /\ Len(arrived') = Len(arrived) + 1
      /\ \A i \in 1 .. Len(arrived) : arrived'[i] = arrived[i]
      /\ arrived'[Len(arrived) + 1] = byte
  BY <1>1 DEF PushPublishes
<1>3. Len(arrived) \in Nat
  BY <1>1
<1>4. tail' = Len(arrived') % INDEXES
  BY <1>2, <1>3, IndexMovesOn, Zenon DEF RingInv, Stored, PushPublishes
<1>5. /\ UNCHANGED <<slots, head, taken, consumer, scancode>>
      /\ output' = output /\ producer' = "draining" /\ byte' = NoByte
  BY Zenon DEF PushPublishes, reader
<1> USE <1>1, <1>2, <1>3, <1>5 DEF RingInv
<1>6. RingType'
  BY DEF RingType, Bytes
<1>7. Len(arrived) - taken < CAPACITY /\ slots[Len(arrived) % CAPACITY] = byte
  BY Zenon DEF Pushing, PushPublishes
<1>8. Stored'
  <2>1. \A i \in taken .. Len(arrived') - 1 : slots'[i % CAPACITY] = arrived'[i + 1]
    <3> TAKE i \in taken .. Len(arrived') - 1
    <3>1. CASE i = Len(arrived)
      BY <3>1, <1>7, Zenon
    <3>2. CASE i # Len(arrived)
      <4>1. i \in taken .. Len(arrived) - 1
        BY <3>2
      <4>2. slots[i % CAPACITY] = arrived[i + 1]
        BY <4>1, Zenon DEF Stored
      <4>3. arrived'[i + 1] = arrived[i + 1]
        BY <4>1
      <4> QED
        BY <4>2, <4>3, Zenon
    <3> QED
      BY <3>1, <3>2, Zenon
  <2>2. Len(arrived') - taken' <= CAPACITY
    BY <1>7, Sizes
  <2> QED
    BY <1>4, <2>1, <2>2, Zenon DEF Stored
<1>9. Pushing' /\ Popping'
  BY DEF Pushing, Popping
<1> QED
  BY <1>6, <1>8, <1>9, Zenon

\* The reader's loads of `head` and `tail` change nothing the ring holds.
LEMMA PopLoadsKeepsRingInv ==
  ASSUME KeyboardAssumption, RingInv, PopLoads
  PROVE  RingInv'
<1> USE DEF RingInv, PopLoads, ring, handler, record
<1>1. RingType' /\ Stored' /\ Pushing'
  BY Zenon DEF RingType, Stored, Pushing
<1>2. head # tail => taken < Len(arrived)
  BY DEF RingType, Stored
<1>3. Popping'
  BY <1>2, Zenon DEF Popping
<1> QED
  BY <1>1, <1>3, Zenon

\* The reader finds in the slot the oldest code it has not taken.
LEMMA PopReadsKeepsRingInv ==
  ASSUME KeyboardAssumption, RingInv, PopReads
  PROVE  RingInv'
<1> USE DEF RingInv, PopReads, ring, handler, record
<1>1. RingType' /\ Stored' /\ Pushing'
  BY Zenon DEF RingType, Stored, Pushing
<1>2. taken \in Nat /\ Len(arrived) \in Nat /\ taken < Len(arrived)
  BY DEF RingType, Popping
<1>3. slots[taken % CAPACITY] = arrived[taken + 1]
  <2>1. taken \in taken .. Len(arrived) - 1
    BY <1>2
  <2> QED
    BY <2>1, Zenon DEF Stored
<1>4. head % CAPACITY = taken % CAPACITY
  <2>1. head = taken % INDEXES /\ taken \in Int
    BY <1>2 DEF Stored
  <2> QED
    BY <2>1, Sizes, ModOfMod, Zenon
<1>5. Popping'
  BY <1>2, <1>3, <1>4, Zenon DEF Popping
<1> QED
  BY <1>1, <1>5, Zenon

\* The reader's store of `head` gives exactly that slot back.
LEMMA PopFeedsKeepsRingInv ==
  ASSUME KeyboardAssumption, RingInv, PopFeeds
  PROVE  RingInv'
<1>1. /\ UNCHANGED <<output, byte, producer, seen_head, arrived, slots, tail>>
      /\ taken' = taken + 1 /\ consumer' \in {"popping", "out"}
      /\ head' = (head + 1) % INDEXES
  BY Zenon DEF PopFeeds, handler
<1>2. taken \in Nat /\ Len(arrived) \in Nat /\ taken < Len(arrived)
  BY DEF RingInv, RingType, Popping, PopFeeds
<1>3. head' = taken' % INDEXES
  BY <1>1, <1>2, IndexMovesOn, Zenon DEF RingInv, Stored
<1> USE <1>1, <1>2 DEF RingInv
<1>4. RingType'
  BY DEF RingType
<1>5. Stored'
  <2>1. taken' .. Len(arrived') - 1 \subseteq taken .. Len(arrived) - 1
    OBVIOUS
  <2>2. \A i \in taken .. Len(arrived) - 1 : slots'[i % CAPACITY] = arrived'[i + 1]
    BY Zenon DEF Stored
  <2>3. \A i \in taken' .. Len(arrived') - 1 : slots'[i % CAPACITY] = arrived'[i + 1]
    BY <2>1, <2>2, Zenon
  <2>4. Len(arrived') - taken' <= CAPACITY
    BY Sizes DEF Stored
  <2> QED
    BY <1>3, <2>3, <2>4, Zenon DEF Stored
<1>6. Pushing'
  <2>1. CASE producer = "checking"
    <3>1. PICK h \in 0 .. taken : seen_head = h % INDEXES /\ Len(arrived) - h <= CAPACITY
      BY <2>1, Zenon DEF Pushing
    <3>2. h \in 0 .. taken'
      OBVIOUS
    <3> QED
      BY <2>1, <3>1, <3>2, Zenon DEF Pushing
  <2>2. CASE producer = "publishing"
    <3>1. Len(arrived) - taken' < CAPACITY
      BY <2>2, Sizes DEF Pushing
    <3> QED
      BY <2>2, <3>1, Zenon DEF Pushing
  <2> QED
    BY <2>1, <2>2, Zenon DEF Pushing
<1>7. Popping'
  BY Zenon DEF Popping
<1> QED
  BY <1>4, <1>5, <1>6, <1>7, Zenon

\* Every step keeps the ring's invariant.
LEMMA RingNext ==
  ASSUME KeyboardAssumption, RingInv, [Next]_vars
  PROVE  RingInv'
<1>1. CASE Send \/ on_irq \/ Drain \/ read_key \/ UNCHANGED vars
  BY <1>1, ElsewhereKeepsRingInv, Zenon
<1>2. CASE PushLoads
  BY <1>2, PushLoadsKeepsRingInv, Zenon
<1>3. CASE PushStores
  BY <1>3, PushStoresKeepsRingInv, Zenon
<1>4. CASE PushPublishes
  BY <1>4, PushPublishesKeepsRingInv, Zenon
<1>5. CASE PopLoads
  BY <1>5, PopLoadsKeepsRingInv, Zenon
<1>6. CASE PopReads
  BY <1>6, PopReadsKeepsRingInv, Zenon
<1>7. CASE PopFeeds
  BY <1>7, PopFeedsKeepsRingInv, Zenon
<1> QED
  BY <1>1, <1>2, <1>3, <1>4, <1>5, <1>6, <1>7, Zenon DEF Next

\* Counting slots from an index that wraps is counting them from the number
\* it stands for.
LEMMA SlotFromIndex ==
  ASSUME KeyboardAssumption, NEW t \in Int, NEW k \in Int
  PROVE  ((t % INDEXES) + k) % CAPACITY = (t + k) % CAPACITY
<1>1. CAPACITY \in Nat \ {0} /\ INDEXES \in Nat \ {0} /\ INDEXES % CAPACITY = 0
  BY Sizes, Zenon
<1>2. t % INDEXES \in Int
  BY <1>1, DivMod
<1>3. (((t % INDEXES) % CAPACITY) + k) % CAPACITY = ((t % INDEXES) + k) % CAPACITY
  BY <1>1, <1>2, ModAdd, Zenon
<1>4. (t % INDEXES) % CAPACITY = t % CAPACITY
  BY <1>1, ModOfMod, Zenon
<1>5. ((t % CAPACITY) + k) % CAPACITY = (t + k) % CAPACITY
  BY <1>1, ModAdd, Zenon
<1> QED
  BY <1>3, <1>4, <1>5, Zenon

\* The ring's invariant holds in every state.
LEMMA RingInvHolds ==
  ASSUME KeyboardAssumption, RingInv
  PROVE  RingHoldsWhatArrived
<1> DEFINE waiting == SubSeq(arrived, taken + 1, Len(arrived))
<1>1. arrived \in Seq(Codes) /\ taken \in Nat /\ Len(arrived) \in Nat /\ taken <= Len(arrived)
  BY DEF RingInv, RingType
<1>2. /\ waiting \in Seq(Codes) /\ Len(waiting) = Len(arrived) - taken
      /\ \A n \in 1 .. Len(arrived) - taken : waiting[n] = arrived[taken + n]
  <2>1. \A i \in taken + 1 .. Len(arrived) : arrived[i] \in Codes
    BY <1>1
  <2>2. taken + 1 \in Int /\ Len(arrived) \in Int
    BY <1>1
  <2>3. /\ waiting \in Seq(Codes)
        /\ Len(waiting) = IF taken + 1 <= Len(arrived) THEN Len(arrived) - (taken + 1) + 1 ELSE 0
        /\ \A i \in 1 .. Len(arrived) - (taken + 1) + 1 :
             waiting[i] = arrived[(taken + 1) + i - 1]
    BY <2>1, <2>2, SubSeqProperties
  <2> QED
    BY <1>1, <2>3
<1> HIDE DEF waiting
<1>3. Len(waiting) <= CAPACITY
  BY <1>2, Zenon DEF RingInv, Stored
<1>4. (tail - head) % INDEXES = Len(waiting)
  <2>1. INDEXES \in Nat \ {0} /\ Len(arrived) \in Int /\ taken \in Int
    BY <1>1, Sizes
  <2>2. Len(arrived) - taken \in 0 .. INDEXES - 1
    BY <1>1, Sizes DEF RingInv, Stored
  <2>3. ((Len(arrived) % INDEXES) - (taken % INDEXES)) % INDEXES = Len(arrived) - taken
    BY <2>1, <2>2, ModDistance, Zenon
  <2>4. tail = Len(arrived) % INDEXES /\ head = taken % INDEXES
    BY Zenon DEF RingInv, Stored
  <2> QED
    BY <1>2, <2>3, <2>4, Zenon
<1>5. \A n \in DOMAIN waiting : slots[(head + n - 1) % CAPACITY] = waiting[n]
  <2> SUFFICES ASSUME NEW n \in 1 .. Len(arrived) - taken
               PROVE  slots[(head + n - 1) % CAPACITY] = waiting[n]
    BY <1>2
  <2>1. taken + (n - 1) \in taken .. Len(arrived) - 1 /\ taken \in Int /\ n - 1 \in Int
    BY <1>1
  <2>2. slots[(taken + (n - 1)) % CAPACITY] = arrived[taken + (n - 1) + 1]
    BY <2>1, Zenon DEF RingInv, Stored
  <2>3. ((taken % INDEXES) + (n - 1)) % CAPACITY = (taken + (n - 1)) % CAPACITY
    BY <2>1, SlotFromIndex, Zenon
  <2>4. head + n - 1 = (taken % INDEXES) + (n - 1)
    <3>1. head = taken % INDEXES
      BY Zenon DEF RingInv, Stored
    <3>2. taken % INDEXES \in Int
      BY <2>1, Sizes, DivMod
    <3> QED
      BY <3>1, <3>2, Zenon
  <2>5. taken + (n - 1) + 1 = taken + n
    BY <1>1
  <2>6. waiting[n] = arrived[taken + n]
    BY <1>2, Zenon
  <2> QED
    BY <2>2, <2>3, <2>4, <2>5, <2>6, Zenon
<1>6. consumer = "feeding" => scancode = waiting[1]
  BY <1>1, <1>2 DEF RingInv, Popping
<1> QED
  BY <1>3, <1>4, <1>5, <1>6, Zenon DEF RingHoldsWhatArrived, waiting

\* For a ring of any size, whatever the two sides do between each other's
\* loads and stores and however often the indexes wrap: the slots from `head`
\* to `tail` hold what arrived and was not yet taken, in order, and what the
\* reader has in hand is the next (`push` and `pop` of keyboard.rs).
THEOREM TheRingIsSound ==
  ASSUME KeyboardAssumption
  PROVE  Spec => []RingHoldsWhatArrived
<1>1. Init => RingInv
  BY RingInit, Zenon
<1>2. RingInv /\ [Next]_vars => RingInv'
  BY RingNext, Zenon
<1>3. RingInv => RingHoldsWhatArrived
  BY RingInvHolds, Zenon
<1> QED
  BY <1>1, <1>2, <1>3, PTL DEF Spec

-----------------------------------------------------------------------------
(* The decoder.                                                            *)

Shifts == {"LeftShift", "RightShift"}

\* Whether a shift is held after one code more.
LEMMA HeldNext ==
  ASSUME NEW s \in Seq(ScanCodes), NEW i \in 1 .. Len(s), NEW shift \in Shifts
  PROVE  Held(s, i + 1, shift) <=> IF s[i].make = shift /\ ~Extended(s, i)
                                   THEN ~s[i].released ELSE Held(s, i, shift)
<1> DEFINE press == [make |-> shift, released |-> FALSE]
           release == [make |-> shift, released |-> TRUE]
<1>1. s[i] \in ScanCodes /\ i \in Nat /\ (i + 1) - 1 = i
  OBVIOUS
<1>2. /\ s[i] = press => s[i].make = shift /\ s[i].released = FALSE
      /\ s[i] = release => s[i].make = shift /\ s[i].released = TRUE
      /\ s[i].make = shift => s[i] \in {press, release}
  BY <1>1 DEF ScanCodes, PREFIX_EXTENDED, Shifts, Makes
<1>3. CASE s[i].make = shift /\ ~Extended(s, i) /\ s[i] = press
  <2>1. i \in 1 .. (i + 1) - 1 /\ \A l \in i + 1 .. (i + 1) - 1 : FALSE
    BY <1>1
  <2> QED
    BY <1>2, <1>3, <2>1, Zenon DEF Held
<1>4. CASE s[i].make = shift /\ ~Extended(s, i) /\ s[i] = release
  <2>1. SUFFICES ASSUME Held(s, i + 1, shift) PROVE FALSE
    BY <1>2, <1>4, Zenon
  <2>2. PICK k \in 1 .. (i + 1) - 1 :
           /\ s[k] = press /\ ~Extended(s, k)
           /\ \A l \in k + 1 .. (i + 1) - 1 : s[l] = release => Extended(s, l)
    BY <2>1, Zenon DEF Held
  <2>3. k # i
    BY <1>2, <1>4, <2>2, Zenon
  <2>4. i \in k + 1 .. (i + 1) - 1
    BY <1>1, <2>3
  <2> QED
    BY <1>4, <2>2, <2>4, Zenon
<1>5. CASE s[i].make # shift \/ Extended(s, i)
  <2>1. Held(s, i + 1, shift) => Held(s, i, shift)
    <3>1. SUFFICES ASSUME Held(s, i + 1, shift) PROVE Held(s, i, shift)
      BY Zenon
    <3>2. PICK k \in 1 .. (i + 1) - 1 :
             /\ s[k] = press /\ ~Extended(s, k)
             /\ \A l \in k + 1 .. (i + 1) - 1 : s[l] = release => Extended(s, l)
      BY <3>1, Zenon DEF Held
    <3>3. k # i
      BY <1>2, <1>5, <3>2, Zenon
    <3>4. k \in 1 .. i - 1 /\ \A l \in k + 1 .. i - 1 : l \in k + 1 .. (i + 1) - 1
      BY <1>1, <3>3
    <3> QED
      BY <3>2, <3>4, Zenon DEF Held
  <2>2. Held(s, i, shift) => Held(s, i + 1, shift)
    <3>1. SUFFICES ASSUME Held(s, i, shift) PROVE Held(s, i + 1, shift)
      BY Zenon
    <3>2. PICK k \in 1 .. i - 1 :
             /\ s[k] = press /\ ~Extended(s, k)
             /\ \A l \in k + 1 .. i - 1 : s[l] = release => Extended(s, l)
      BY <3>1, Zenon DEF Held
    <3>3. \A l \in k + 1 .. (i + 1) - 1 : l = i \/ l \in k + 1 .. i - 1
      BY <1>1
    <3>4. \A l \in k + 1 .. (i + 1) - 1 : s[l] = release => Extended(s, l)
      BY <1>2, <1>5, <3>2, <3>3, ZenonT(30)
    <3>5. k \in 1 .. (i + 1) - 1
      BY <1>1
    <3> QED
      BY <3>2, <3>4, <3>5, Zenon DEF Held
  <2> QED
    BY <1>5, <2>1, <2>2, Zenon
<1> QED
  BY <1>2, <1>3, <1>4, <1>5, Zenon

\* What the decoder makes of the next code, if its flags are what looking back
\* from that code finds: `feed` of keyboard.rs.
LEMMA FeedMeans ==
  ASSUME KeyboardAssumption, RingInv, Decoding, taken < Len(arrived)
  PROVE  LET i == taken + 1
             fed == feed(decoder, arrived[i])
         IN  /\ fed.decoder \in Flags
             /\ fed.decoder.expecting_extended <=> Extended(arrived, i + 1)
             /\ fed.decoder.left_shift <=> Held(arrived, i + 1, "LeftShift")
             /\ fed.decoder.right_shift <=> Held(arrived, i + 1, "RightShift")
             /\ fed.key = IF Completes(arrived, i) THEN Meaning(arrived, i) ELSE NoKey
<1> DEFINE i == taken + 1
           code == arrived[i]
           fed == feed(decoder, code)
<1>0. SUFFICES /\ fed.decoder \in Flags
               /\ fed.decoder.expecting_extended <=> Extended(arrived, i + 1)
               /\ fed.decoder.left_shift <=> Held(arrived, i + 1, "LeftShift")
               /\ fed.decoder.right_shift <=> Held(arrived, i + 1, "RightShift")
               /\ fed.key = IF Completes(arrived, i) THEN Meaning(arrived, i) ELSE NoKey
  BY Zenon
<1>1. /\ arrived \in Seq(ScanCodes) /\ i \in 1 .. Len(arrived) /\ i \in Nat
      /\ code \in ScanCodes
  BY DEF RingInv, RingType, KeyboardAssumption
<1>2. /\ code = PREFIX_EXTENDED <=> code.make = "Prefix"
      /\ code.make \in Makes \cup {"Prefix"} /\ code.released \in BOOLEAN
  <2>1. CASE code = PREFIX_EXTENDED
    BY <2>1 DEF PREFIX_EXTENDED
  <2>2. CASE code \in [make : Makes, released : BOOLEAN]
    <3>1. code.make \in Makes /\ code.released \in BOOLEAN
      BY <2>2, Zenon
    <3>2. "Prefix" \notin Makes
      BY Zenon DEF Makes
    <3> QED
      BY <3>1, <3>2 DEF PREFIX_EXTENDED
  <2> QED
    BY <1>1, <2>1, <2>2, Zenon DEF ScanCodes
<1>3. /\ Held(arrived, i + 1, "LeftShift") <=>
            IF code.make = "LeftShift" /\ ~Extended(arrived, i)
            THEN ~code.released ELSE Held(arrived, i, "LeftShift")
      /\ Held(arrived, i + 1, "RightShift") <=>
            IF code.make = "RightShift" /\ ~Extended(arrived, i)
            THEN ~code.released ELSE Held(arrived, i, "RightShift")
  BY <1>1, HeldNext, Zenon DEF Shifts
<1>4. Extended(arrived, i + 1) <=> code.make = "Prefix"
  BY <1>1, <1>2 DEF Extended
<1>5. /\ decoder \in Flags
      /\ decoder.expecting_extended <=> Extended(arrived, i)
      /\ decoder.left_shift <=> Held(arrived, i, "LeftShift")
      /\ decoder.right_shift <=> Held(arrived, i, "RightShift")
  BY Zenon DEF Decoding
<1> DEFINE plain == [decoder EXCEPT !.expecting_extended = FALSE]
<1>6. /\ plain \in Flags
      /\ plain.left_shift = decoder.left_shift /\ plain.right_shift = decoder.right_shift
      /\ plain.expecting_extended = FALSE
  BY <1>5, Zenon DEF Flags
<1>7. CASE code.make = "Prefix"
  <2>1. fed = [decoder |-> [decoder EXCEPT !.expecting_extended = TRUE], key |-> NoKey]
    BY <1>2, <1>7, Zenon DEF feed
  <2>2. ~Completes(arrived, i)
    BY <1>2, <1>7, Zenon DEF Completes
  <2> DEFINE after == [decoder EXCEPT !.expecting_extended = TRUE]
  <2>3. /\ after \in Flags
        /\ after.left_shift = decoder.left_shift /\ after.right_shift = decoder.right_shift
        /\ after.expecting_extended = TRUE
    BY <1>5, Zenon DEF Flags
  <2>4. fed.decoder = after /\ fed.key = NoKey
    BY <2>1
  <2> HIDE DEF after, fed
  <2> QED
    BY <1>3, <1>4, <1>5, <1>7, <2>2, <2>3, <2>4, Zenon
<1>8. CASE code.make # "Prefix" /\ Extended(arrived, i)
  <2>1. fed = [decoder |-> plain, key |-> IF code.released THEN NoKey ELSE "Unknown"]
    BY <1>2, <1>5, <1>8, Zenon DEF feed, extended
  <2>2. Completes(arrived, i) <=> ~code.released
    BY <1>2, <1>8, Zenon DEF Completes
  <2>3. Meaning(arrived, i) = "Unknown"
    BY <1>8, Zenon DEF Meaning
  <2>4. fed.decoder = plain /\ fed.key = IF code.released THEN NoKey ELSE "Unknown"
    BY <2>1, SMTT(30)
  <2> HIDE DEF plain, fed
  <2> QED
    BY <1>2, <1>3, <1>4, <1>5, <1>6, <1>8, <2>2, <2>3, <2>4, Zenon
<1>9. CASE code.make = "LeftShift" /\ ~Extended(arrived, i)
  <2>1. fed = [decoder |-> [plain EXCEPT !.left_shift = ~code.released], key |-> NoKey]
    BY <1>2, <1>5, <1>9, Zenon DEF feed, extended
  <2>2. ~Completes(arrived, i)
    BY <1>9, Zenon DEF Completes
  <2> DEFINE after == [plain EXCEPT !.left_shift = ~code.released]
  <2>3. /\ after \in Flags
        /\ after.left_shift <=> ~code.released
        /\ after.right_shift = decoder.right_shift /\ after.expecting_extended = FALSE
    BY <1>2, <1>6, Zenon DEF Flags
  <2>4. fed.decoder = after /\ fed.key = NoKey
    BY <2>1
  <2> HIDE DEF after, plain, fed
  <2> QED
    BY <1>3, <1>4, <1>5, <1>9, <2>2, <2>3, <2>4, Zenon
<1>10. CASE code.make = "RightShift" /\ ~Extended(arrived, i)
  <2>1. fed = [decoder |-> [plain EXCEPT !.right_shift = ~code.released], key |-> NoKey]
    BY <1>2, <1>5, <1>10, Zenon DEF feed, extended
  <2>2. ~Completes(arrived, i)
    BY <1>10, Zenon DEF Completes
  <2> DEFINE after == [plain EXCEPT !.right_shift = ~code.released]
  <2>3. /\ after \in Flags
        /\ after.right_shift <=> ~code.released
        /\ after.left_shift = decoder.left_shift /\ after.expecting_extended = FALSE
    BY <1>2, <1>6, ZenonT(30) DEF Flags
  <2>4. fed.decoder = after /\ fed.key = NoKey
    BY <2>1
  <2> HIDE DEF after, plain, fed
  <2> QED
    BY <1>3, <1>4, <1>5, <1>10, <2>2, <2>3, <2>4, Zenon
<1>11. CASE code.make \in {"Letter", "Enter", "Other"} /\ ~Extended(arrived, i)
  <2> DEFINE key == IF code.make = "Enter" THEN "Enter"
                    ELSE IF code.make = "Other" THEN "Unknown"
                    ELSE IF decoder.left_shift \/ decoder.right_shift THEN "Upper" ELSE "Lower"
  <2>1. fed = [decoder |-> plain, key |-> IF code.released THEN NoKey ELSE key]
    BY <1>2, <1>5, <1>11, Zenon DEF feed, extended
  <2>2. Completes(arrived, i) <=> ~code.released
    BY <1>2, <1>11, Zenon DEF Completes
  <2>3. Meaning(arrived, i) = key
    BY <1>5, <1>11, Zenon DEF Meaning
  <2>4. fed.decoder = plain /\ fed.key = IF code.released THEN NoKey ELSE key
    BY <2>1
  <2> HIDE DEF plain, fed, key
  <2> QED
    BY <1>2, <1>3, <1>4, <1>5, <1>6, <1>11, <2>2, <2>3, <2>4, Zenon
<1> QED
  BY <1>2, <1>7, <1>8, <1>9, <1>10, <1>11, Zenon DEF Makes

\* What a code means depends on it and on those before it.
LEMMA MeaningLooksBack ==
  ASSUME NEW s, NEW t, NEW n \in Nat, \A k \in 1 .. n : s[k] = t[k]
  PROVE  /\ \A i \in 1 .. n + 1 : Extended(s, i) <=> Extended(t, i)
         /\ \A i \in 1 .. n + 1, shift \in Shifts : Held(s, i, shift) <=> Held(t, i, shift)
         /\ \A i \in 1 .. n : Meaning(s, i) = Meaning(t, i)
         /\ \A i \in 0 .. n : Completing(s, i) = Completing(t, i)
<1>1. \A i \in 1 .. n + 1 : Extended(s, i) <=> Extended(t, i)
  <2> TAKE i \in 1 .. n + 1
  <2>1. i > 1 => i - 1 \in 1 .. n
    OBVIOUS
  <2> QED
    BY <2>1, Zenon DEF Extended
<1>2. \A i \in 1 .. n + 1, shift \in Shifts : Held(s, i, shift) <=> Held(t, i, shift)
  <2> TAKE i \in 1 .. n + 1, shift \in Shifts
  <2>1. \A k \in 1 .. i - 1 : k \in 1 .. n + 1 /\ s[k] = t[k]
    OBVIOUS
  <2>2. \A k \in 1 .. i - 1 : \A l \in k + 1 .. i - 1 : l \in 1 .. i - 1
    OBVIOUS
  <2>3. \A k \in 1 .. i - 1 : Extended(s, k) <=> Extended(t, k)
    BY <1>1, <2>1, Zenon
  <2> DEFINE pressed(q, k) == q[k] = [make |-> shift, released |-> FALSE] /\ ~Extended(q, k)
             released(q, l) == q[l] = [make |-> shift, released |-> TRUE] => Extended(q, l)
  <2>4. \A k \in 1 .. i - 1 : (pressed(s, k) <=> pressed(t, k)) /\ (released(s, k) <=> released(t, k))
    BY <2>1, <2>3, Zenon
  <2>5. /\ Held(s, i, shift) <=> \E k \in 1 .. i - 1 :
              pressed(s, k) /\ \A l \in k + 1 .. i - 1 : released(s, l)
        /\ Held(t, i, shift) <=> \E k \in 1 .. i - 1 :
              pressed(t, k) /\ \A l \in k + 1 .. i - 1 : released(t, l)
    BY Zenon DEF Held
  <2> HIDE DEF pressed, released
  <2> QED
    BY <2>2, <2>4, <2>5, Zenon
<1>3. \A i \in 1 .. n : Meaning(s, i) = Meaning(t, i)
  <2> TAKE i \in 1 .. n
  <2>1. i \in 1 .. n + 1 /\ s[i] = t[i]
    OBVIOUS
  <2>2. Extended(s, i) <=> Extended(t, i)
    BY <1>1, <2>1, Zenon
  <2>3. /\ Held(s, i, "LeftShift") <=> Held(t, i, "LeftShift")
        /\ Held(s, i, "RightShift") <=> Held(t, i, "RightShift")
    BY <1>2, <2>1, Zenon DEF Shifts
  <2> QED
    BY <2>1, <2>2, <2>3, Zenon DEF Meaning
<1>4. \A i \in 0 .. n : Completing(s, i) = Completing(t, i)
  <2> TAKE i \in 0 .. n
  <2>1. \A k \in 1 .. i : k \in 1 .. n + 1 /\ s[k] = t[k]
    OBVIOUS
  <2>2. \A k \in 1 .. i : Completes(s, k) <=> Completes(t, k)
    BY <1>1, <2>1, Zenon DEF Completes
  <2> QED
    BY <2>2, Zenon DEF Completing
<1> QED
  BY <1>1, <1>2, <1>3, <1>4, Zenon

\* One code more completes one key more, or none.
LEMMA CompletingNext ==
  ASSUME NEW s, NEW n \in Nat
  PROVE  /\ IsFiniteSet(Completing(s, n)) /\ Cardinality(Completing(s, n)) \in Nat
         /\ Completing(s, n + 1) = IF Completes(s, n + 1)
                                   THEN Completing(s, n) \cup {n + 1} ELSE Completing(s, n)
         /\ Cardinality(Completing(s, n + 1)) =
              Cardinality(Completing(s, n)) + IF Completes(s, n + 1) THEN 1 ELSE 0
<1>1. IsFiniteSet(1 .. n)
  BY FS_Interval
<1>2. IsFiniteSet(Completing(s, n)) /\ Cardinality(Completing(s, n)) \in Nat
  <2>1. Completing(s, n) \subseteq 1 .. n
    BY Zenon DEF Completing
  <2>2. IsFiniteSet(Completing(s, n))
    BY <1>1, <2>1, FS_Subset, Zenon
  <2> QED
    BY <2>2, FS_CardinalityType, Zenon
<1>3. Completing(s, n + 1) = IF Completes(s, n + 1)
                             THEN Completing(s, n) \cup {n + 1} ELSE Completing(s, n)
  <2>1. 1 .. n + 1 = (1 .. n) \cup {n + 1}
    OBVIOUS
  <2> QED
    BY <2>1, Zenon DEF Completing
<1>4. n + 1 \notin Completing(s, n)
  BY DEF Completing
<1>5. Cardinality(Completing(s, n) \cup {n + 1}) = Cardinality(Completing(s, n)) + 1
  BY <1>2, <1>4, FS_AddElement, Zenon
<1> QED
  BY <1>2, <1>3, <1>5

\* The flags and the keys stay what the codes mean when a code arrives, and
\* when one is taken.
LEMMA KeysNext ==
  ASSUME KeyboardAssumption, RingInv, Decoding, KeysAreWhatWasTyped, [Next]_vars
  PROVE  Decoding' /\ KeysAreWhatWasTyped'
<1>1. arrived \in Seq(Codes) /\ taken \in Nat /\ taken <= Len(arrived) /\ Len(arrived) \in Nat
  BY SMTT(30) DEF RingInv, RingType
<1>2. CASE UNCHANGED <<arrived, taken, decoder, keys>>
  BY <1>2, Zenon DEF Decoding, KeysAreWhatWasTyped
<1>3. CASE PushPublishes
  <2>1. UNCHANGED <<taken, decoder, keys>> /\ \A k \in 1 .. taken : arrived'[k] = arrived[k]
    BY <1>1, <1>3 DEF PushPublishes, reader
  <2>2. /\ \A i \in 1 .. taken + 1 : Extended(arrived', i) <=> Extended(arrived, i)
        /\ \A i \in 1 .. taken + 1, shift \in Shifts :
              Held(arrived', i, shift) <=> Held(arrived, i, shift)
        /\ \A i \in 1 .. taken : Meaning(arrived', i) = Meaning(arrived, i)
        /\ \A i \in 0 .. taken : Completing(arrived', i) = Completing(arrived, i)
    BY <1>1, <2>1, MeaningLooksBack, ZenonT(30)
  <2>3. taken + 1 \in 1 .. taken + 1 /\ taken \in 0 .. taken
    BY <1>1
  <2>4. Decoding'
    BY <2>1, <2>2, <2>3, Zenon DEF Decoding, Shifts
  <2>5. KeysAreWhatWasTyped'
    <3>1. Completing(arrived', taken') = Completing(arrived, taken)
      BY <2>1, <2>2, <2>3, Zenon
    <3>2. \A i \in Completing(arrived, taken) : i \in 1 .. taken /\ i \in 0 .. taken
      BY <1>1, SMTT(30) DEF Completing
    <3>3. \A i \in Completing(arrived, taken) :
            keys'[Cardinality(Completing(arrived', i))] = Meaning(arrived', i)
      BY <2>1, <2>2, <3>2, Zenon DEF KeysAreWhatWasTyped
    <3> QED
      BY <2>1, <3>1, <3>3, Zenon DEF KeysAreWhatWasTyped
  <2> QED
    BY <2>4, <2>5, Zenon
<1>4. CASE PopFeeds
  <2> DEFINE i == taken + 1
             fed == feed(decoder, arrived[i])
  <2>1. taken < Len(arrived) /\ scancode = arrived[i] /\ i \in Nat
    BY <1>1, <1>4 DEF PopFeeds, RingInv, Popping
  <2>2. /\ fed.decoder \in Flags
        /\ fed.decoder.expecting_extended <=> Extended(arrived, i + 1)
        /\ fed.decoder.left_shift <=> Held(arrived, i + 1, "LeftShift")
        /\ fed.decoder.right_shift <=> Held(arrived, i + 1, "RightShift")
        /\ fed.key = IF Completes(arrived, i) THEN Meaning(arrived, i) ELSE NoKey
    BY <2>1, FeedMeans, Zenon
  <2>3. /\ decoder' = fed.decoder /\ taken' = i /\ arrived' = arrived
        /\ keys' = IF fed.key = NoKey THEN keys ELSE Append(keys, fed.key)
    BY <1>4, <2>1, Zenon DEF PopFeeds
  <2> HIDE DEF fed
  <2>4. Meaning(arrived, i) \in {"Enter", "Unknown", "Upper", "Lower"}
    BY Zenon DEF Meaning
  <2>5. keys \in Seq({"Enter", "Unknown", "Upper", "Lower"})
    BY Zenon DEF Decoding
  <2>6. keys' = IF Completes(arrived, i) THEN Append(keys, Meaning(arrived, i)) ELSE keys
    BY <2>2, <2>3, <2>4, Zenon DEF NoKey
  <2>7. Decoding'
    <3>1. keys' \in Seq({"Enter", "Unknown", "Upper", "Lower"})
      BY <2>4, <2>5, <2>6
    <3> QED
      BY <2>2, <2>3, <3>1, Zenon DEF Decoding
  <2>8. KeysAreWhatWasTyped'
    <3> DEFINE C(n) == Completing(arrived, n)
    <3>1. /\ Cardinality(C(taken)) \in Nat
          /\ C(i) = IF Completes(arrived, i) THEN C(taken) \cup {i} ELSE C(taken)
          /\ Cardinality(C(i)) = Cardinality(C(taken)) + IF Completes(arrived, i) THEN 1 ELSE 0
      BY <1>1, CompletingNext, Zenon
    <3>2. Len(keys) = Cardinality(C(taken))
      BY Zenon DEF KeysAreWhatWasTyped
    <3>3. Len(keys') = Cardinality(C(i))
      BY <2>4, <2>5, <2>6, <3>1, <3>2
    <3>4. \A k \in C(taken) : keys'[Cardinality(C(k))] = Meaning(arrived, k)
      <4> TAKE k \in C(taken)
      <4>1. keys[Cardinality(C(k))] = Meaning(arrived, k)
        BY Zenon DEF KeysAreWhatWasTyped
      <4>2. Cardinality(C(k)) \in 1 .. Len(keys)
        <5>1. k \in 1 .. taken /\ k \in C(k) /\ C(k) \subseteq C(taken)
          BY <1>1 DEF Completing
        <5>2. IsFiniteSet(C(taken)) /\ IsFiniteSet(C(k))
          <6>1. k \in Nat
            BY <5>1
          <6>2. \A n \in Nat : IsFiniteSet(Completing(arrived, n))
            BY CompletingNext, Zenon
          <6> QED
            BY <1>1, <6>1, <6>2, Zenon
        <5>3. Cardinality(C(k)) <= Cardinality(C(taken)) /\ Cardinality(C(k)) \in Nat
          BY <5>1, <5>2, FS_Subset, FS_CardinalityType, Zenon
        <5>4. Cardinality(C(k)) # 0
          BY <5>1, <5>2, FS_EmptySet, Zenon
        <5> HIDE DEF C
        <5> QED
          BY <3>1, <3>2, <5>3, <5>4
      <4> QED
        BY <2>4, <2>5, <2>6, <4>1, <4>2, SMTT(30)
    <3>5. Completes(arrived, i) => keys'[Cardinality(C(i))] = Meaning(arrived, i)
      BY <2>4, <2>5, <2>6, <3>1, <3>2, SMTT(30)
    <3>6. \A k \in C(i) : keys'[Cardinality(C(k))] = Meaning(arrived, k)
      <4> HIDE DEF C, i
      <4> QED
        BY <3>1, <3>4, <3>5, Zenon
    <3> QED
      BY <2>3, <3>3, <3>6, Zenon DEF KeysAreWhatWasTyped
  <2> QED
    BY <2>7, <2>8, Zenon
<1>5. \/ UNCHANGED <<arrived, taken, decoder, keys>> \/ PushPublishes \/ PopFeeds
  BY Zenon DEF Next, vars, Send, on_irq, Drain, PushLoads, PushStores, read_key, PopLoads, PopReads,
         reader, record
<1> QED
  BY <1>2, <1>3, <1>4, <1>5, Zenon

\* Before any code the decoder has seen nothing and no key was read.
LEMMA KeysInit ==
  ASSUME KeyboardAssumption, Init
  PROVE  Decoding /\ KeysAreWhatWasTyped
<1>1. arrived = <<>> /\ taken = 0 /\ keys = <<>>
  BY Zenon DEF Init
<1>2. Decoding
  <2>1. ~Extended(arrived, 1)
    BY DEF Extended
  <2>2. ~Held(arrived, 1, "LeftShift") /\ ~Held(arrived, 1, "RightShift")
    BY DEF Held
  <2> QED
    BY <1>1, <2>1, <2>2 DEF Init, Decoding, Flags
<1>3. Completing(arrived, taken) = {}
  BY <1>1 DEF Completing
<1>4. Cardinality(Completing(arrived, taken)) = 0
  BY <1>3, FS_EmptySet, Zenon
<1>5. KeysAreWhatWasTyped
  BY <1>1, <1>3, <1>4, Zenon DEF KeysAreWhatWasTyped
<1> QED
  BY <1>2, <1>5, Zenon

\* For every stream of codes and every way it falls on interrupts and calls of
\* `read_key`: the keys that were read are what the codes mean by looking back
\* from each, so the decoder's three flags are enough, no key is lost, doubled
\* or moved, and a code after the prefix is never a shift (`pop`, `feed`).
THEOREM KeysAreRead ==
  ASSUME KeyboardAssumption
  PROVE  Spec => []KeysAreWhatWasTyped
<1>1. Init => KeyInv
  BY RingInit, KeysInit, Zenon DEF KeyInv
<1>2. KeyInv /\ [Next]_vars => KeyInv'
  BY RingNext, KeysNext, Zenon DEF KeyInv
<1>3. KeyInv => KeysAreWhatWasTyped
  BY Zenon DEF KeyInv
<1> QED
  BY <1>1, <1>2, <1>3, PTL DEF Spec
=============================================================================
