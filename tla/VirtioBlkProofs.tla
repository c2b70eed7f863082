--------------------------- MODULE VirtioBlkProofs ---------------------------
(***************************************************************************)
(* Proofs about module VirtioBlk, for any disk, queue size, number of ring *)
(* indexes and number of calls.                                            *)
(***************************************************************************)
EXTENDS VirtioBlk, NumberFacts, SequenceTheorems

Chain == [kind : Kinds, sector : SECTORS, moved : BOOLEAN, ok : BOOLEAN]

\* No call has been made, and the device has not been told of a queue.
Starting == pc \in {"start", "negotiate", "start_queue"} \/ (pc = "without disk" /\ requests = 0)

\* Filled in and not yet published.
Preparing == pc \in {"describe", "publish"}

\* The types, and what start-up leaves: the device has nothing to do until
\* there is a queue, and the queue has the size its driver thinks it has.
Shape ==
    /\ TypeOK
    /\ pc = "poll" => looks <= POLL_LIMIT
    /\ Starting => held = <<>> /\ ~doorbell /\ avail_idx = 0 /\ used_idx = 0 /\ requests = 0
    /\ pc = "start_queue" => seen_idx = 0
    /\ pc \in {"start", "negotiate", "start_queue"} => answer = "none"
    /\ ~Starting => size = QUEUE_SIZE
    /\ pc \in {"describe", "publish", "ring", "poll"} => requests > 0

\* Between the indexes are the chains the device holds and the w it has not
\* taken: at most one while no call began over another, and never more than
\* there were calls.
Counted(w) ==
    /\ seen_idx = wrapping_add(used_idx, Len(held))
    /\ avail_idx = wrapping_add(seen_idx, w)
    /\ Len(held) + w + (IF Preparing THEN 1 ELSE 0) <= IF overlap THEN requests ELSE 1
    /\ requests = 0 => Len(held) + w = 0

Count ==
    /\ ~Starting => \E w \in Nat : Counted(w)
    /\ overlap => requests \in 2 .. MaxOverlapping
    /\ pc \in {"ring", "poll"} => published = avail_idx

\* What the call being made, or last made, asked for is so.
Done == IF op.kind = "in" THEN frame.data = disk[op.sector] ELSE disk[op.sector] = op.data

\* What the frame, the chain in flight and the answer have to do with the call.
Meant ==
    /\ frame.kind = op.kind /\ frame.sector = op.sector
    /\ ~overlap /\ requests > 0 =>
        /\ op.kind = "out" => frame.data = op.data
        /\ \A i \in DOMAIN held : /\ held[i].kind = op.kind /\ held[i].sector = op.sector
                                  /\ held[i].moved /\ held[i].ok => Done
        /\ ~InFlight /\ frame.status = STATUS_OK => Done
    /\ ~overlap /\ pc = "idle" /\ answer = "Ok" =>
        /\ requests > 0 /\ ~InFlight
        /\ IF op.kind = "in" THEN got = disk[op.sector] ELSE disk[op.sector] = op.data

\* Nothing is written to a disk that is not known to be ours.
Ours ==
    /\ mounted # "ours" => op.kind = "in" /\ \A i \in DOMAIN held : held[i].kind = "in"
    /\ mounted = "none" => op.sector = BOOT

------------------------------------------------------------------------------
(* Ring indexes, and the chains the device holds *)

\* Adding to a 16-bit index one after another is adding the sum.
LEMMA WrapAdds ==
  ASSUME NEW x \in Indexes, NEW a \in Nat, NEW b \in Nat
  PROVE  /\ wrapping_add(x, a) \in Indexes /\ wrapping_add(x, 0) = x
         /\ wrapping_add(wrapping_add(x, a), b) = wrapping_add(x, a + b)
<1>1. INDEXES \in Nat \ {0}
  BY QueueAssumption
<1>2. x \in Int /\ a \in Int /\ b \in Int /\ x + a \in Int /\ x + 0 = x
      /\ x = INDEXES * 0 + x /\ x \in 0 .. INDEXES - 1 /\ (x + a) + b = x + (a + b)
  BY <1>1 DEF Indexes
<1>3. (x + a) % INDEXES \in 0 .. INDEXES - 1
  BY <1>1, <1>2, DivMod, Zenon
<1>4. (INDEXES * 0 + x) % INDEXES = x
  BY <1>1, <1>2, ModUnique
<1>5. (((x + a) % INDEXES) + b) % INDEXES = ((x + a) + b) % INDEXES
  BY <1>1, <1>2, ModAdd, Zenon
<1>6. x % INDEXES = x
  BY <1>2, <1>4, Zenon
<1>7. (x + 0) % INDEXES = x
  BY <1>2, <1>6, Zenon
<1>8. (((x + a) % INDEXES) + b) % INDEXES = (x + (a + b)) % INDEXES
  BY <1>2, <1>5, Zenon
<1> QED
  BY <1>3, <1>7, <1>8, Zenon DEF wrapping_add, Indexes

\* Fewer than INDEXES steps lead to another index.
LEMMA WrapLeaves ==
  ASSUME NEW x \in Indexes, NEW k \in Nat, k < INDEXES, wrapping_add(x, k) = x
  PROVE  k = 0
<1> SUFFICES ASSUME k # 0 PROVE FALSE
  BY Zenon
<1>1. INDEXES \in Nat \ {0} /\ x \in Int /\ x + k \in Int /\ (x + k) - x \in 1 .. INDEXES - 1
  BY QueueAssumption DEF Indexes
<1>2. (x + k) % INDEXES # x % INDEXES
  BY <1>1, ModApart, Zenon
<1>3. x = INDEXES * 0 + x /\ x \in 0 .. INDEXES - 1 /\ 0 \in Int
  BY <1>1 DEF Indexes
<1>4. x % INDEXES = x
  BY <1>1, <1>3, ModUnique, ZenonT(30)
<1> QED
  BY <1>2, <1>4, Zenon DEF wrapping_add

\* What is left of a sequence when one element is taken out.
LEMMA WithoutOne ==
  ASSUME NEW S, NEW s \in Seq(S), NEW i \in DOMAIN s
  PROVE  /\ Without(s, i) \in Seq(S) /\ Len(Without(s, i)) = Len(s) - 1
         /\ \A j \in DOMAIN Without(s, i) : \E k \in DOMAIN s : Without(s, i)[j] = s[k]
<1> DEFINE a == SubSeq(s, 1, i - 1)
           b == SubSeq(s, i + 1, Len(s))
<1>1. Len(s) \in Nat /\ i \in 1 .. Len(s) /\ DOMAIN s = 1 .. Len(s)
      /\ \A j \in 1 .. Len(s) : s[j] \in S
  BY LenProperties, Zenon
<1>2. /\ a \in Seq(S) /\ Len(a) = i - 1
      /\ \A j \in 1 .. i - 1 : a[j] = s[j]
  <2>1. \A j \in 1 .. i - 1 : s[j] \in S
    BY <1>1
  <2>2. /\ a \in Seq(S) /\ Len(a) = IF 1 <= i - 1 THEN (i - 1) - 1 + 1 ELSE 0
        /\ \A j \in 1 .. (i - 1) - 1 + 1 : a[j] = s[1 + j - 1]
    <3>1. 1 \in Int /\ i - 1 \in Int
      BY <1>1
    <3> QED
      BY <2>1, <3>1, SubSeqProperties
  <2> HIDE DEF a
  <2>3. \A j \in 1 .. i - 1 : 1 + j - 1 = j /\ j \in 1 .. (i - 1) - 1 + 1
    BY <1>1
  <2> QED
    BY <1>1, <2>2, <2>3
<1>3. /\ b \in Seq(S) /\ Len(b) = Len(s) - i
      /\ \A j \in 1 .. Len(s) - i : b[j] = s[i + j]
  <2>1. \A j \in i + 1 .. Len(s) : s[j] \in S
    BY <1>1
  <2>2. /\ b \in Seq(S) /\ Len(b) = IF i + 1 <= Len(s) THEN Len(s) - (i + 1) + 1 ELSE 0
        /\ \A j \in 1 .. Len(s) - (i + 1) + 1 : b[j] = s[(i + 1) + j - 1]
    <3>1. i + 1 \in Int /\ Len(s) \in Int
      BY <1>1
    <3> QED
      BY <2>1, <3>1, SubSeqProperties
  <2> HIDE DEF b
  <2>3. \A j \in 1 .. Len(s) - i : (i + 1) + j - 1 = i + j /\ j \in 1 .. Len(s) - (i + 1) + 1
    BY <1>1
  <2> QED
    BY <1>1, <2>2, <2>3
<1>4. Without(s, i) = a \o b
  BY Zenon DEF Without
<1> HIDE DEF a, b
<1>5. /\ a \o b \in Seq(S) /\ Len(a \o b) = Len(s) - 1
      /\ \A j \in 1 .. Len(s) - 1 : (a \o b)[j] = IF j <= i - 1 THEN a[j] ELSE b[j - (i - 1)]
  <2>1. Len(a) + Len(b) = Len(s) - 1
    BY <1>1, <1>2, <1>3
  <2>2. /\ a \o b \in Seq(S) /\ Len(a \o b) = Len(a) + Len(b)
        /\ \A j \in 1 .. Len(a) + Len(b) : (a \o b)[j] = IF j <= Len(a) THEN a[j] ELSE b[j - Len(a)]
    BY <1>2, <1>3, ConcatProperties, Zenon
  <2> QED
    BY <1>2, <2>1, <2>2, Zenon
<1>6. ASSUME NEW j \in 1 .. Len(s) - 1
      PROVE  \E k \in 1 .. Len(s) : (a \o b)[j] = s[k]
  <2>1. CASE j <= i - 1
    <3>1. (a \o b)[j] = s[j] /\ j \in 1 .. Len(s)
      BY <1>1, <1>2, <1>5, <2>1
    <3> QED
      BY <3>1, Zenon
  <2>2. CASE ~(j <= i - 1)
    <3>1. j - (i - 1) \in 1 .. Len(s) - i /\ i + (j - (i - 1)) = j + 1 /\ j + 1 \in 1 .. Len(s)
      BY <1>1, <2>2
    <3>2. (a \o b)[j] = b[j - (i - 1)]
      BY <1>5, <2>2, Zenon
    <3>3. b[j - (i - 1)] = s[j + 1]
      BY <1>3, <3>1, Zenon
    <3> QED
      BY <3>1, <3>2, <3>3, Zenon
  <2> QED
    BY <2>1, <2>2, Zenon
<1>7. DOMAIN (a \o b) = 1 .. Len(s) - 1
  BY <1>5, LenProperties, Zenon
<1> QED
  BY <1>1, <1>4, <1>5, <1>6, <1>7, Zenon

\* What the device's steps do to the chains it holds.
LEMMA TakingAdds ==
  ASSUME TypeOK, DeviceTakes
  PROVE  /\ held' \in Seq(Chain) /\ Len(held') = Len(held) + 1 /\ Len(held) \in Nat
         /\ held'[Len(held) + 1].kind = frame.kind /\ held'[Len(held) + 1].sector = frame.sector
         /\ ~held'[Len(held) + 1].moved
         /\ \A i \in 1 .. Len(held) : held'[i] = held[i]
         /\ DOMAIN held = 1 .. Len(held) /\ DOMAIN held' = 1 .. Len(held) + 1
<1> DEFINE c == [kind |-> frame.kind, sector |-> frame.sector, moved |-> FALSE,
                 ok |-> data_writable = (frame.kind = "in")]
<1>1. frame.kind \in Kinds /\ frame.sector \in SECTORS /\ held \in Seq(Chain)
  BY Zenon DEF TypeOK, Chain
<1>2. c \in Chain /\ c.kind = frame.kind /\ c.sector = frame.sector /\ ~c.moved
  BY <1>1, Zenon DEF Chain
<1>3. held' = Append(held, c)
  BY Zenon DEF DeviceTakes
<1> HIDE DEF c
<1>4. /\ Append(held, c) \in Seq(Chain) /\ Len(Append(held, c)) = Len(held) + 1
      /\ \A i \in 1 .. Len(held) : Append(held, c)[i] = held[i]
      /\ Append(held, c)[Len(held) + 1] = c
  BY <1>1, <1>2, AppendProperties
<1>5. Len(held) \in Nat /\ DOMAIN held = 1 .. Len(held)
  BY <1>1, LenProperties, Zenon
<1>6. DOMAIN held' = 1 .. Len(held')
  BY <1>3, <1>4, LenProperties, Zenon
<1> QED
  BY <1>2, <1>3, <1>4, <1>5, <1>6, Zenon

\* Marking one chain leaves the marks of all others.
LEMMA MovingMarks ==
  ASSUME TypeOK, NEW i \in DOMAIN held, NEW ok \in BOOLEAN,
         held' = [held EXCEPT ![i].moved = TRUE, ![i].ok = ok]
  PROVE  /\ held' \in Seq(Chain) /\ Len(held') = Len(held) /\ Len(held) \in Nat
         /\ DOMAIN held = 1 .. Len(held) /\ DOMAIN held' = DOMAIN held
         /\ \A j \in DOMAIN held : held'[j].kind = held[j].kind /\ held'[j].sector = held[j].sector
         /\ held'[i].ok <=> ok
<1> DEFINE c == [held[i] EXCEPT !.moved = TRUE, !.ok = ok]
<1>1. held \in Seq(Chain)
  BY Zenon DEF TypeOK, Chain
<1>2. Len(held) \in Nat /\ DOMAIN held = 1 .. Len(held) /\ held[i] \in Chain
  BY <1>1, LenProperties, Zenon
<1>3. c \in Chain /\ c.kind = held[i].kind /\ c.sector = held[i].sector /\ (c.ok <=> ok)
  BY <1>2, Zenon DEF Chain
<1>4. held' = [held EXCEPT ![i] = c]
  BY <1>2, Zenon
<1> HIDE DEF c
<1>5. /\ [held EXCEPT ![i] = c] \in Seq(Chain) /\ Len([held EXCEPT ![i] = c]) = Len(held)
      /\ \A j \in 1 .. Len(held) : [held EXCEPT ![i] = c][j] = IF j = i THEN c ELSE held[j]
  BY <1>1, <1>2, <1>3, ExceptSeq, Zenon
<1>6. DOMAIN held' = 1 .. Len(held')
  BY <1>4, <1>5, LenProperties, Zenon
<1> QED
  BY <1>2, <1>3, <1>4, <1>5, <1>6, Zenon

------------------------------------------------------------------------------
(* The shape *)

\* Driver, rings and device start in shape.
LEMMA ShapeInit == Init => Shape
<1> SUFFICES ASSUME Init PROVE Shape
  BY Zenon
<1>1. PICK zeros \in Values, contents \in Values :
        /\ disk = [s \in SECTORS |-> IF s = BOOT THEN contents ELSE zeros]
        /\ frame = [kind |-> "in", sector |-> BOOT, status |-> STATUS_OK, data |-> zeros]
        /\ got = zeros
  BY Zenon DEF Init
<1>2. disk \in [SECTORS -> Values] /\ got \in Values
  BY <1>1, Zenon
<1>3. frame \in [kind : Kinds, sector : SECTORS, status : Statuses, data : Values]
  BY <1>1, QueueAssumption, Zenon DEF Kinds, Statuses
<1>4. {avail_idx, used_idx, seen_idx, published} \subseteq Indexes
  BY QueueAssumption DEF Init, Indexes
<1>5. used_ring \in [0 .. QUEUE_SIZE - 1 -> [head : {HEAD}, written : {0, 1, SECTOR_BYTES + 1}]]
  BY Zenon DEF Init, HEAD
<1>6. held \in Seq([kind : Kinds, sector : SECTORS, moved : BOOLEAN, ok : BOOLEAN])
  BY EmptySeq, Zenon DEF Init
<1>7. op \in Calls
  BY QueueAssumption, Zenon DEF Init, Calls
<1>8. looks \in 0 .. POLL_LIMIT + 1 /\ requests \in 0 .. MaxRequests /\ dma \in 0 .. 2
  BY QueueAssumption DEF Init
<1>9. /\ data_writable \in BOOLEAN /\ doorbell \in BOOLEAN /\ overlap \in BOOLEAN
      /\ status \subseteq {ACKNOWLEDGE, DRIVER, FEATURES_OK, DRIVER_OK, FAILED}
      /\ size \in QueueSizes \cup {QUEUE_SIZE} /\ mounted \in {"none", "ours", "not ours"}
      /\ answer \in Answers
      /\ pc \in {"start", "negotiate", "start_queue", "without disk",
                 "idle", "describe", "publish", "ring", "poll"}
  BY Zenon DEF Init, Answers
<1>10. TypeOK
  BY <1>2, <1>3, <1>4, <1>5, <1>6, <1>7, <1>8, <1>9, Zenon DEF TypeOK
<1> QED
  BY <1>10, Zenon DEF Init, Shape, Starting

\* The driver's steps on its way to a queue.
LEMMA StartKeepsShape ==
  ASSUME Shape, start \/ Negotiate \/ start_queue
  PROVE  Shape'
<1> USE DEF WithoutDisk, boot, driver, registers, device, shared
<1>1. CASE start
  BY <1>1, ZenonT(30) DEF start, Shape, TypeOK, Starting, Answers
<1>2. CASE Negotiate
  <2>1. /\ pc = "negotiate" /\ seen_idx' = 0 /\ size' \in QueueSizes
        /\ UNCHANGED <<mounted, op, published, looks, got, requests, overlap, dma, disk,
                       used_idx, used_ring, held, frame, data_writable, avail_idx, doorbell>>
    BY <1>2, Zenon DEF Negotiate, Reset
  <2>2. /\ \/ pc' = "start_queue" /\ answer' = answer
           \/ pc' = "without disk" /\ answer' \in {"NoVersion1", "FeaturesRefused"}
        /\ status' \in {{FAILED}, {ACKNOWLEDGE, DRIVER, FEATURES_OK}}
    BY <1>2, Zenon DEF Negotiate
  <2>3. 0 \in Indexes
    BY QueueAssumption DEF Indexes
  <2>4. answer' \in Answers
    BY <2>2, Zenon DEF Shape, TypeOK, Answers
  <2>5. status' \subseteq {ACKNOWLEDGE, DRIVER, FEATURES_OK, DRIVER_OK, FAILED}
    BY <2>2, Zenon
  <2>6. {avail_idx', used_idx', seen_idx', published'} \subseteq Indexes
    BY <2>1, <2>3, Zenon DEF Shape, TypeOK
  <2>7. pc' \in {"start", "negotiate", "start_queue", "without disk",
                 "idle", "describe", "publish", "ring", "poll"}
    BY <2>2, Zenon
  <2>8. TypeOK'
    BY <2>1, <2>4, <2>5, <2>6, <2>7, Zenon DEF Shape, TypeOK
  <2>9. /\ held = <<>> /\ ~doorbell /\ avail_idx = 0 /\ used_idx = 0 /\ requests = 0
        /\ answer = "none"
    BY <2>1, Zenon DEF Shape, Starting
  <2>10. Starting'
    BY <2>1, <2>2, <2>9, Zenon DEF Starting
  <2>11. pc' \in {"start_queue", "without disk"} /\ (pc' = "start_queue" => answer' = "none")
    BY <2>2, <2>9, Zenon
  <2> QED
    BY <2>1, <2>8, <2>9, <2>10, <2>11, Zenon DEF Shape
<1>3. CASE start_queue
  <2>1. /\ pc = "start_queue" /\ Starting
        /\ UNCHANGED <<disk, used_idx, used_ring, seen_idx, held, frame, data_writable, avail_idx,
                      doorbell, mounted, op, published, looks, got, requests, overlap>>
    BY <1>3, Zenon DEF start_queue, Starting
  <2>2. /\ size' \in QueueSizes \cup {QUEUE_SIZE} /\ dma' \in 0 .. 2
        /\ status' \subseteq {ACKNOWLEDGE, DRIVER, FEATURES_OK, DRIVER_OK, FAILED}
    <3>1. /\ size \in QueueSizes \cup {QUEUE_SIZE} /\ dma \in 0 .. 2
          /\ status \subseteq {ACKNOWLEDGE, DRIVER, FEATURES_OK, DRIVER_OK, FAILED}
      BY Zenon DEF Shape, TypeOK
    <3>2. /\ size' \in {size, QUEUE_SIZE} /\ dma' \in {dma, 0, 1, 2}
          /\ status' \in {status, status \cup {DRIVER_OK}}
      BY <1>3, Zenon DEF start_queue
    <3> QED
      BY <3>1, <3>2
  <2>3. \/ pc' = "without disk" /\ answer' \in Answers
        \/ pc' = "idle" /\ answer' = answer /\ size' = QUEUE_SIZE
    BY <1>3, Zenon DEF start_queue, Answers
  <2>4. TypeOK'
    BY <2>1, <2>2, <2>3, Zenon DEF Shape, TypeOK
  <2> QED
    BY <2>1, <2>3, <2>4, Zenon DEF Shape, Starting
<1> QED
  BY <1>1, <1>2, <1>3, Zenon

\* The constants are numbers, and there is more than one index.
LEMMA Numbers ==
  /\ POLL_LIMIT \in Nat /\ MaxRequests \in Nat /\ MaxOverlapping \in Nat
  /\ MaxOverlapping <= MaxRequests /\ INDEXES \in Nat /\ INDEXES > 1
BY QueueAssumption

\* The driver's steps in a call.
LEMMA CallKeepsShape ==
  ASSUME Shape,
         adopt \/ Refuse \/ Fill \/ set_descriptor \/ publish \/ ring \/ LookAgain \/ Conclude
  PROVE  Shape'
<1> USE DEF boot, driver, registers, device, shared
<1>1. CASE adopt
  <2>1. /\ pc = "idle" /\ pc' \in {"idle", "without disk"} /\ requests = 1
        /\ mounted' \in {mounted, "ours", "not ours"}
        /\ UNCHANGED <<dma, op, published, looks, answer, got, requests, overlap, device, shared>>
    BY <1>1, Zenon DEF adopt
  <2>2. TypeOK'
    BY <2>1, Zenon DEF Shape, TypeOK
  <2>3. ~Starting /\ ~Starting'
    <3>1. pc = "idle" /\ pc' \in {"idle", "without disk"} /\ requests' = 1
      BY <2>1, Zenon
    <3>2. requests' # 0
      <4>1. 1 # 0
        OBVIOUS
      <4> QED
        BY <3>1, <4>1, Zenon
    <3> QED
      BY <3>1, <3>2, Zenon DEF Starting
  <2>4. /\ pc' \notin {"poll", "start", "negotiate", "start_queue", "describe", "publish", "ring"}
        /\ size' = QUEUE_SIZE
    BY <2>1, <2>3, Zenon DEF Shape
  <2> QED
    BY <2>2, <2>3, <2>4, Zenon DEF Shape
<1>2. CASE Refuse
  BY <1>2, Zenon DEF Refuse, Shape, TypeOK, Starting, Answers
<1>3. CASE Fill
  <2>1. PICK call \in MayCall :
          /\ op' = call
          /\ frame' = [kind |-> call.kind, sector |-> call.sector, status |-> STATUS_UNSET,
                       data |-> IF call.kind = "out" THEN call.data ELSE frame.data]
    BY <1>3, Zenon DEF Fill
  <2>2. call \in Calls
    BY Zenon DEF MayCall, Shape, TypeOK
  <2>3. call.kind \in Kinds /\ call.sector \in SECTORS /\ (call.kind = "out" => call.data \in Values)
    BY <2>2, QueueAssumption, Zenon DEF Calls, Kinds
  <2>4. frame.data \in Values
    BY Zenon DEF Shape, TypeOK
  <2>5. frame' \in [kind : Kinds, sector : SECTORS, status : Statuses, data : Values]
    BY <2>1, <2>3, <2>4, Zenon DEF Statuses
  <2>6. requests' \in 0 .. MaxRequests /\ requests' > 0
    <3>1. requests \in 0 .. MaxRequests
      BY Zenon DEF Shape, TypeOK
    <3>2. requests' = requests + 1 /\ (requests < MaxOverlapping \/ requests < MaxRequests)
      BY <1>3, Zenon DEF Fill
    <3> QED
      BY <3>1, <3>2, Numbers
  <2>7. overlap' \in BOOLEAN
    BY <1>3, Zenon DEF Fill, Shape, TypeOK
  <2>8. pc = "idle" /\ pc' = "describe" /\ UNCHANGED <<boot, device, data_writable, avail_idx,
          doorbell, published, looks, answer, got>>
    BY <1>3, Zenon DEF Fill
  <2>9. TypeOK'
    BY <2>1, <2>2, <2>5, <2>6, <2>7, <2>8, ZenonT(30) DEF Shape, TypeOK
  <2> QED
    BY <2>6, <2>8, <2>9, Zenon DEF Shape, Starting
<1>4. CASE set_descriptor
  BY <1>4, Zenon DEF set_descriptor, Shape, TypeOK, Starting
<1>5. CASE publish
  <2>1. avail_idx' \in Indexes
    BY <1>5, WrapAdds, Zenon DEF publish, Shape, TypeOK
  <2> QED
    BY <1>5, <2>1, ZenonT(30) DEF publish, Shape, TypeOK, Starting
<1>6. CASE ring
  <2>1. /\ pc = "ring" /\ pc' = "poll" /\ doorbell' = TRUE /\ looks' = 0
        /\ UNCHANGED <<boot, device, frame, data_writable, avail_idx, op, published, answer, got,
                      requests, overlap>>
    BY <1>6, Zenon DEF ring
  <2>2. looks' \in 0 .. POLL_LIMIT + 1 /\ looks' <= POLL_LIMIT
    BY <2>1, Numbers
  <2>3. TypeOK'
    BY <2>1, <2>2, Zenon DEF Shape, TypeOK
  <2> QED
    BY <2>1, <2>2, <2>3, Zenon DEF Shape, Starting
<1>7. CASE LookAgain
  <2>1. looks' \in 0 .. POLL_LIMIT + 1
    <3>1. looks \in 0 .. POLL_LIMIT + 1 /\ looks <= POLL_LIMIT /\ looks' = looks + 1
      BY <1>7, Zenon DEF LookAgain, Shape, TypeOK
    <3> QED
      BY <3>1, Numbers
  <2>2. pc' = "poll" => looks' <= POLL_LIMIT
    <3>1. looks' = looks + 1 /\ (looks + 1 > POLL_LIMIT => pc' = "idle")
      BY <1>7, Zenon DEF LookAgain, Return
    <3> QED
      BY <2>1, <3>1, Numbers
  <2>3. /\ pc = "poll" /\ pc' \in {"poll", "idle"} /\ answer' \in {answer, "NoAnswer"}
        /\ UNCHANGED <<device, shared, got, boot, op, published, requests, overlap>>
    BY <1>7, Zenon DEF LookAgain, Return
  <2>4. TypeOK'
    <3>1. answer' \in Answers
      BY <2>3, Zenon DEF Shape, TypeOK, Answers
    <3> QED
      BY <2>1, <2>3, <3>1, Zenon DEF Shape, TypeOK
  <2> QED
    BY <2>2, <2>3, <2>4, Zenon DEF Shape, Starting
<1>8. CASE Conclude
  <2>1. /\ pc = "poll" /\ pc' = "idle" /\ answer' \in Answers /\ got' \in {got, frame.data}
        /\ UNCHANGED <<device, shared, looks, boot, op, published, requests, overlap>>
    BY <1>8, Zenon DEF Conclude, Return, Answers
  <2>2. TypeOK'
    BY <2>1, Zenon DEF Shape, TypeOK
  <2> QED
    BY <2>1, <2>2, Zenon DEF Shape, Starting
<1> QED
  BY <1>1, <1>2, <1>3, <1>4, <1>5, <1>6, <1>7, <1>8, Zenon

\* No step of the device leaves the shape.
LEMMA DeviceKeepsShape ==
  ASSUME Shape, Device
  PROVE  Shape'
<1> USE DEF boot, driver, registers, device, shared
<1>0. ~Starting /\ held \in Seq(Chain)
  <2>1. held \in Seq(Chain)
    BY Zenon DEF Shape, TypeOK, Chain
  <2>2. DOMAIN held # {} => held # <<>>
    BY SMTT(30)
  <2>3. held # <<>> \/ doorbell
    BY <2>2, Zenon DEF Device, DeviceTakes, DeviceMoves, DeviceReturns
  <2> QED
    BY <2>1, <2>3, Zenon DEF Shape
<1>1. CASE DeviceTakes
  <2>1. held' \in Seq(Chain)
    BY <1>1, TakingAdds, Zenon DEF Shape
  <2>2. seen_idx' \in Indexes
    BY <1>1, WrapAdds, Zenon DEF DeviceTakes, Shape, TypeOK
  <2>3. doorbell' \in BOOLEAN
    BY <1>1, Zenon DEF DeviceTakes, Shape, TypeOK
  <2>4. UNCHANGED <<driver, disk, used_idx, used_ring, registers, frame, data_writable, avail_idx>>
    BY <1>1, Zenon DEF DeviceTakes
  <2>5. TypeOK'
    BY <2>1, <2>2, <2>3, <2>4, ZenonT(30) DEF Shape, TypeOK, Chain
  <2> QED
    BY <1>0, <2>4, <2>5, Zenon DEF Shape, Starting
<1>2. CASE DeviceMoves
  <2>1. PICK i \in DOMAIN held, ok \in BOOLEAN :
          /\ held' = [held EXCEPT ![i].moved = TRUE, ![i].ok = ok]
          /\ IF ok /\ held[i].kind = "in"
             THEN frame' = [frame EXCEPT !.data = disk[held[i].sector]]
             ELSE UNCHANGED frame
          /\ IF ok /\ held[i].kind = "out"
             THEN disk' = [disk EXCEPT ![held[i].sector] = frame.data]
             ELSE UNCHANGED disk
    BY <1>2, ZenonT(30) DEF DeviceMoves
  <2>2. held' \in Seq(Chain)
    BY <2>1, MovingMarks, Zenon DEF Shape
  <2>3. held[i] \in Chain /\ held[i].sector \in SECTORS
    <3>1. held[i] \in Chain
      BY <1>0, LenProperties, Zenon
    <3> QED
      BY <3>1, Zenon DEF Chain
  <2>4. disk' \in [SECTORS -> Values]
    BY <2>1, <2>3, ZenonT(30) DEF Shape, TypeOK
  <2>5. disk[held[i].sector] \in Values
    BY <2>3, Zenon DEF Shape, TypeOK
  <2>6. frame' \in [kind : Kinds, sector : SECTORS, status : Statuses, data : Values]
    BY <2>1, <2>5, Zenon DEF Shape, TypeOK
  <2>7. UNCHANGED <<driver, used_idx, used_ring, registers, seen_idx, data_writable, avail_idx, doorbell>>
    BY <1>2, Zenon DEF DeviceMoves
  <2>8. TypeOK'
    BY <2>2, <2>4, <2>6, <2>7, Zenon DEF Shape, TypeOK, Chain
  <2> QED
    BY <1>0, <2>7, <2>8, Zenon DEF Shape, Starting
<1>3. CASE DeviceReturns
  <2>1. PICK i \in DOMAIN held :
          /\ frame' = [frame EXCEPT !.status = IF held[i].ok THEN STATUS_OK ELSE STATUS_IO_ERROR]
          /\ used_ring' = [used_ring EXCEPT ![used_idx % size] =
                              [head |-> HEAD, written |-> Expected(held[i].kind)]]
          /\ held' = Without(held, i)
    BY <1>3, Zenon DEF DeviceReturns
  <2>2. held' \in Seq(Chain)
    BY <1>0, <2>1, WithoutOne, Zenon
  <2>3. frame' \in [kind : Kinds, sector : SECTORS, status : Statuses, data : Values]
    BY <2>1, Zenon DEF Shape, TypeOK, Statuses
  <2>4. used_ring' \in [0 .. QUEUE_SIZE - 1 -> [head : {HEAD}, written : {0, 1, SECTOR_BYTES + 1}]]
    BY <2>1, Zenon DEF Shape, TypeOK, Expected
  <2>5. used_idx' \in Indexes
    BY <1>3, WrapAdds, Zenon DEF DeviceReturns, Shape, TypeOK
  <2>6. UNCHANGED <<driver, disk, registers, seen_idx, data_writable, avail_idx, doorbell>>
    BY <1>3, Zenon DEF DeviceReturns
  <2>7. TypeOK'
    BY <2>2, <2>3, <2>4, <2>5, <2>6, ZenonT(30) DEF Shape, TypeOK, Chain
  <2> QED
    BY <1>0, <2>6, <2>7, Zenon DEF Shape, Starting
<1> QED
  BY <1>1, <1>2, <1>3, Zenon DEF Device

------------------------------------------------------------------------------
(* Counting the chains between the indexes *)

\* Before the first request nothing is counted.
LEMMA CountInit == Init => Count
BY Zenon DEF Init, Count, Starting

\* A step that touches neither the ring nor the number of calls.
LEMMA CountStays ==
  ASSUME Count, UNCHANGED <<avail_idx, used_idx, seen_idx, held, published, requests, overlap>>,
         Starting' <=> Starting, Preparing' <=> Preparing,
         pc' \in {"ring", "poll"} => pc \in {"ring", "poll"}
  PROVE  Count'
BY Zenon DEF Count, Counted

\* The driver publishes and sees one index at a time.
LEMMA DriverKeepsCount ==
  ASSUME Shape, Count, Driver
  PROVE  Count'
<1> USE DEF boot, driver, registers, device, shared
<1>0. /\ avail_idx \in Indexes /\ used_idx \in Indexes /\ seen_idx \in Indexes
      /\ held \in Seq(Chain) /\ Len(held) \in Nat /\ requests \in Nat /\ overlap \in BOOLEAN
  <2>1. held \in Seq(Chain)
    BY Zenon DEF Shape, TypeOK, Chain
  <2>2. requests \in Nat
    <3>1. requests \in 0 .. MaxRequests
      BY Zenon DEF Shape, TypeOK
    <3> QED
      BY <3>1, Numbers
  <2> QED
    BY <2>1, <2>2, LenProperties, Zenon DEF Shape, TypeOK
<1>1. CASE start
  <2>1. Starting'
    BY <1>1, Zenon DEF start, WithoutDisk, Starting, Shape
  <2>2. pc' \notin {"ring", "poll"} /\ ~overlap'
    <3>1. requests = 0 /\ overlap' = overlap /\ pc' \notin {"ring", "poll"}
      BY <1>1, Zenon DEF start, WithoutDisk, Starting, Shape
    <3>2. ~overlap
      BY <3>1, Numbers, SMTT(30) DEF Count
    <3> QED
      BY <3>1, <3>2, Zenon
  <2> QED
    BY <2>1, <2>2, Zenon DEF Count
<1>2. CASE Negotiate
  <2>1. Starting'
    BY <1>2, Zenon DEF Negotiate, WithoutDisk, Starting, Shape
  <2>2. pc' \notin {"ring", "poll"} /\ ~overlap'
    <3>1. requests = 0 /\ overlap' = overlap /\ pc' \notin {"ring", "poll"}
      BY <1>2, Zenon DEF Negotiate, WithoutDisk, Starting, Shape
    <3>2. ~overlap
      BY <3>1, Numbers DEF Count
    <3> QED
      BY <3>1, <3>2, Zenon
  <2> QED
    BY <2>1, <2>2, Zenon DEF Count
<1>3. CASE start_queue
  <2>1. /\ held = <<>> /\ avail_idx = 0 /\ used_idx = 0 /\ seen_idx = 0 /\ requests = 0
    BY <1>3, Zenon DEF start_queue, Starting, Shape
  <2>2. UNCHANGED <<used_idx, seen_idx, held, avail_idx, requests, overlap>>
    BY <1>3, Zenon DEF start_queue, WithoutDisk
  <2>3. pc' \in {"without disk", "idle"}
    BY <1>3, Zenon DEF start_queue, WithoutDisk
  <2>4. ~overlap'
    BY <2>1, <2>2, Numbers DEF Count
  <2>5. Len(held) = 0
    BY <2>1, EmptySeq, Zenon
  <2>6. wrapping_add(0, 0) = 0
    BY <1>0, <2>1, WrapAdds, Zenon
  <2>7. Counted(0)'
    <3>1. /\ seen_idx' = 0 /\ used_idx' = 0 /\ avail_idx' = 0 /\ Len(held)' = 0
          /\ ~Preparing'
      BY <2>1, <2>2, <2>3, <2>5, Zenon DEF Preparing
    <3> QED
      BY <2>4, <2>6, <3>1 DEF Counted
  <2>8. 0 \in Nat
    BY Zenon
  <2> QED
    BY <2>3, <2>4, <2>7, <2>8, ZenonT(30) DEF Count
<1>4. CASE adopt
  <2>1. /\ pc = "idle" /\ pc' \in {"idle", "without disk"} /\ requests = 1
        /\ UNCHANGED <<avail_idx, used_idx, seen_idx, held, published, requests, overlap>>
    BY <1>4, Zenon DEF adopt
  <2>2. requests' # 0
    <3>1. 1 # 0
      OBVIOUS
    <3> QED
      BY <2>1, <3>1, Zenon
  <2>3. ~Starting /\ ~Starting' /\ ~Preparing /\ ~Preparing' /\ pc' \notin {"ring", "poll"}
    BY <2>1, <2>2, Zenon DEF Starting, Preparing
  <2> QED
    BY <2>1, <2>3, CountStays, Zenon
<1>5. CASE Refuse
  BY <1>5, CountStays, Zenon DEF Refuse, Starting, Preparing
<1>6. CASE Fill
  <2>1. /\ pc = "idle" /\ pc' = "describe" /\ requests' = requests + 1
        /\ overlap' = (overlap \/ InFlight)
        /\ UNCHANGED <<used_idx, seen_idx, held, avail_idx, published>>
        /\ requests < IF overlap \/ InFlight THEN MaxOverlapping ELSE MaxRequests
    BY <1>6, Zenon DEF Fill
  <2>2. PICK w \in Nat : Counted(w)
    BY <2>1, Zenon DEF Count, Starting
  <2>3. avail_idx = wrapping_add(used_idx, Len(held) + w)
    BY <1>0, <2>2, WrapAdds, Zenon DEF Counted
  <2>4. /\ Len(held) + w <= IF overlap THEN requests ELSE 1
        /\ requests = 0 => Len(held) + w = 0
    BY <1>0, <2>1, <2>2 DEF Counted, Preparing
  <2>5. ~overlap /\ ~InFlight => Len(held) + w = 0
    <3> SUFFICES ASSUME ~overlap, ~InFlight PROVE Len(held) + w = 0
      BY Zenon
    <3>1. Len(held) + w \in Nat /\ Len(held) + w < INDEXES
      BY <1>0, <2>4, Numbers
    <3>2. wrapping_add(used_idx, Len(held) + w) = used_idx
      BY <2>3, Zenon DEF InFlight
    <3> QED
      BY <1>0, <3>1, <3>2, WrapLeaves, Zenon
  <2>6. InFlight => requests > 0
    <3> SUFFICES ASSUME InFlight, requests = 0 PROVE FALSE
      BY <1>0
    <3>1. avail_idx = wrapping_add(used_idx, 0)
      BY <2>3, <2>4, Zenon
    <3> QED
      BY <1>0, <3>1, WrapAdds, Zenon DEF InFlight
  <2>7. overlap' => requests' \in 2 .. MaxOverlapping
    BY <1>0, <2>1, <2>6, Numbers DEF Count
  <2>8. Len(held) + w + 1 <= IF overlap \/ InFlight THEN requests + 1 ELSE 1
    BY <1>0, <2>4, <2>5, <2>6
  <2>9. Counted(w)'
    <3>1. Preparing' /\ requests' # 0
      BY <1>0, <2>1 DEF Preparing
    <3>2. Len(held)' + w + 1 <= IF overlap' THEN requests' ELSE 1
      BY <2>1, <2>8, Zenon
    <3> QED
      BY <2>1, <2>2, <3>1, <3>2, Zenon DEF Counted
  <2> QED
    BY <2>1, <2>7, <2>9, Zenon DEF Count
<1>7. CASE set_descriptor
  BY <1>7, CountStays, Zenon DEF set_descriptor, Starting, Preparing
<1>8. CASE publish
  <2>1. /\ pc = "publish" /\ pc' = "ring" /\ avail_idx' = wrapping_add(avail_idx, 1)
        /\ published' = avail_idx' /\ UNCHANGED <<used_idx, seen_idx, held, requests, overlap>>
    BY <1>8, Zenon DEF publish
  <2>2. PICK w \in Nat : Counted(w)
    BY <2>1, Zenon DEF Count, Starting
  <2>3. Preparing /\ ~Preparing' /\ requests > 0
    BY <2>1, Zenon DEF Preparing, Shape
  <2>4. avail_idx' = wrapping_add(seen_idx, w + 1)
    BY <1>0, <2>1, <2>2, WrapAdds DEF Counted
  <2>5. Len(held) + w + 1 <= IF overlap THEN requests ELSE 1
    BY <2>2, <2>3, Zenon DEF Counted
  <2>6. Counted(w + 1)'
    <3>1. Len(held)' + (w + 1) + 0 <= IF overlap' THEN requests' ELSE 1
      BY <1>0, <2>1, <2>5
    <3>2. requests' # 0
      BY <2>1, <2>3
    <3> QED
      BY <2>1, <2>2, <2>3, <2>4, <3>1, <3>2, Zenon DEF Counted
  <2>7. w + 1 \in Nat
    OBVIOUS
  <2> QED
    BY <2>1, <2>6, <2>7, Zenon DEF Count
<1>9. CASE ring
  BY <1>9, CountStays, Zenon DEF ring, Starting, Preparing
<1>10. CASE LookAgain
  BY <1>10, CountStays, Zenon DEF LookAgain, Return, Starting, Preparing
<1>11. CASE Conclude
  BY <1>11, CountStays, Zenon DEF Conclude, Return, Starting, Preparing
<1> QED
  BY <1>1, <1>2, <1>3, <1>4, <1>5, <1>6, <1>7, <1>8, <1>9, <1>10, <1>11, Zenon DEF Driver

\* The device answers only what was published, each chain once.
LEMMA DeviceKeepsCount ==
  ASSUME Shape, Count, Device
  PROVE  Count'
<1> USE DEF boot, driver, registers, device, shared
<1>0. /\ avail_idx \in Indexes /\ used_idx \in Indexes /\ seen_idx \in Indexes
      /\ held \in Seq(Chain) /\ Len(held) \in Nat
  <2>1. held \in Seq(Chain)
    BY Zenon DEF Shape, TypeOK, Chain
  <2> QED
    BY <2>1, LenProperties, ZenonT(30) DEF Shape, TypeOK
<1>1. UNCHANGED <<pc, published, requests, overlap, avail_idx>>
  BY Zenon DEF Device, DeviceTakes, DeviceMoves, DeviceReturns
<1>2. DOMAIN held # {} => held # <<>>
  BY SMTT(30)
<1>3. ~Starting
  BY <1>2, Zenon DEF Device, DeviceTakes, DeviceMoves, DeviceReturns, Shape
<1>4. PICK w \in Nat : Counted(w)
  BY <1>3, Zenon DEF Count
<1>5. (Starting' <=> Starting) /\ (Preparing' <=> Preparing)
  BY <1>1, Zenon DEF Starting, Preparing
<1>6. CASE DeviceTakes
  <2>1. /\ seen_idx # avail_idx /\ seen_idx' = wrapping_add(seen_idx, 1) /\ used_idx' = used_idx
        /\ Len(held') = Len(held) + 1
    BY <1>6, TakingAdds, Zenon DEF DeviceTakes, Shape
  <2>2. w # 0
    BY <1>0, <1>4, <2>1, WrapAdds, Zenon DEF Counted
  <2>3. w - 1 \in Nat /\ 1 + (w - 1) = w /\ (Len(held) + 1) + (w - 1) = Len(held) + w
    BY <1>0, <2>2
  <2>4. avail_idx = wrapping_add(seen_idx', w - 1)
    BY <1>0, <1>4, <2>1, <2>3, WrapAdds DEF Counted
  <2>5. seen_idx' = wrapping_add(used_idx, Len(held) + 1)
    BY <1>0, <1>4, <2>1, WrapAdds, SMTT(30) DEF Counted
  <2>6. Counted(w - 1)'
    BY <1>0, <1>1, <1>4, <1>5, <2>1, <2>3, <2>4, <2>5, Zenon DEF Counted
  <2> QED
    BY <1>1, <2>3, <2>6, Zenon DEF Count
<1>7. CASE DeviceMoves
  <2>1. Len(held') = Len(held) /\ UNCHANGED <<used_idx, seen_idx>>
    BY <1>7, MovingMarks, Zenon DEF DeviceMoves, Shape
  <2>2. Counted(w)'
    BY <1>1, <1>4, <1>5, <2>1, Zenon DEF Counted
  <2> QED
    BY <1>1, <2>2, Zenon DEF Count
<1>8. CASE DeviceReturns
  <2>1. /\ Len(held') = Len(held) - 1 /\ seen_idx' = seen_idx /\ used_idx' = wrapping_add(used_idx, 1)
        /\ Len(held) # 0
    <3>1. PICK i \in DOMAIN held : held' = Without(held, i)
      BY <1>8, Zenon DEF DeviceReturns
    <3>2. DOMAIN held = 1 .. Len(held)
      BY <1>0, LenProperties, Zenon
    <3>3. Len(held) # 0
      BY <1>0, <3>1, <3>2
    <3> QED
      BY <1>0, <1>8, <3>1, <3>3, WithoutOne, Zenon DEF DeviceReturns
  <2>2. Len(held) - 1 \in Nat /\ 1 + (Len(held) - 1) = Len(held)
    BY <1>0, <2>1
  <2>3. seen_idx = wrapping_add(used_idx', Len(held) - 1)
    BY <1>0, <1>4, <2>1, <2>2, WrapAdds DEF Counted
  <2>4. requests = 0 => FALSE
    BY <1>0, <1>4, <2>1 DEF Counted
  <2>5. (Len(held) - 1) + w + (IF Preparing THEN 1 ELSE 0) <= IF overlap THEN requests ELSE 1
    <3>1. Len(held) + w + (IF Preparing THEN 1 ELSE 0) <= IF overlap THEN requests ELSE 1
      BY <1>4, Zenon DEF Counted
    <3>2. requests \in Nat
      <4>1. requests \in 0 .. MaxRequests
        BY Zenon DEF Shape, TypeOK
      <4> QED
        BY <4>1, Numbers, SMTT(30)
    <3> QED
      BY <1>0, <3>1, <3>2
  <2>6. Counted(w)'
    BY <1>1, <1>4, <1>5, <2>1, <2>3, <2>4, <2>5, Zenon DEF Counted
  <2> QED
    BY <1>1, <2>6, Zenon DEF Count
<1> QED
  BY <1>6, <1>7, <1>8, Zenon DEF Device

------------------------------------------------------------------------------
(* What the answers mean *)

\* A chain the device holds is in flight, and alone unless calls overlapped.
LEMMA HeldIsInFlight ==
  ASSUME Shape, Count, ~overlap, held # <<>>
  PROVE  InFlight /\ Len(held) = 1 /\ DOMAIN held = {1}
<1>1. /\ avail_idx \in Indexes /\ used_idx \in Indexes /\ seen_idx \in Indexes
      /\ held \in Seq(Chain)
  BY Zenon DEF Shape, TypeOK, Chain
<1>2. Len(held) \in Nat \ {0} /\ DOMAIN held = 1 .. Len(held)
  BY <1>1, EmptySeq, LenProperties, Zenon
<1>3. ~Starting
  BY Zenon DEF Shape
<1>4. PICK w \in Nat : Counted(w)
  BY <1>3, Zenon DEF Count
<1>5. Len(held) + w <= 1
  BY <1>2, <1>4 DEF Counted
<1>6. Len(held) = 1 /\ w = 0
  BY <1>2, <1>5
<1>7. avail_idx = wrapping_add(used_idx, 1)
  BY <1>1, <1>4, <1>6, WrapAdds, Zenon DEF Counted
<1>8. avail_idx # used_idx
  BY <1>1, <1>7, Numbers, WrapLeaves
<1>9. 1 .. 1 = {1}
  BY SMTT(30)
<1> QED
  BY <1>2, <1>6, <1>8, <1>9, Zenon DEF InFlight

\* Before the first request there is nothing to mean.
LEMMA MeantInit == Init => Meant /\ Ours
<1> SUFFICES ASSUME Init PROVE Meant /\ Ours
  BY Zenon
<1>1. frame.kind = op.kind /\ frame.sector = op.sector /\ op.kind = "in" /\ op.sector = BOOT
  BY SMTT(30) DEF Init
<1>2. requests = 0 /\ pc = "start" /\ DOMAIN held = {}
  BY SMTT(30) DEF Init
<1>3. ~(requests > 0) /\ pc # "idle"
  BY <1>2
<1>4. Meant
  BY <1>1, <1>3, Zenon DEF Meant
<1>5. Ours
  BY <1>1, <1>2, Zenon DEF Ours
<1> QED
  BY <1>4, <1>5, Zenon

\* A step of the driver that makes no call and returns none.
LEMMA MeantStays ==
  ASSUME Meant, UNCHANGED <<frame, op, overlap, requests, held, disk, avail_idx, used_idx, got>>,
         ~overlap /\ pc' = "idle" /\ answer' = "Ok" => pc = "idle" /\ answer = "Ok"
  PROVE  Meant'
BY Zenon DEF Meant, Done, InFlight

\* No step of the driver makes a request in flight mean something else,
\* as long as calls do not overlap.
LEMMA DriverKeepsMeant ==
  ASSUME Shape, Count, Meant, Driver
  PROVE  Meant'
<1> USE DEF boot, driver, registers, device, shared
<1>1. CASE start
  BY <1>1, MeantStays, Zenon DEF start, WithoutDisk
<1>2. CASE Negotiate
  BY <1>2, MeantStays, Zenon DEF Negotiate, WithoutDisk
<1>3. CASE start_queue
  <2>1. UNCHANGED <<frame, op, overlap, requests, held, disk, avail_idx, used_idx, got>>
    BY <1>3, Zenon DEF start_queue, WithoutDisk
  <2>2. ~(pc' = "idle" /\ answer' = "Ok")
    BY <1>3, Zenon DEF start_queue, WithoutDisk, Shape
  <2> QED
    BY <2>1, <2>2, MeantStays, Zenon
<1>4. CASE adopt
  BY <1>4, MeantStays, Zenon DEF adopt
<1>5. CASE Refuse
  BY <1>5, MeantStays, Zenon DEF Refuse
<1>6. CASE Fill
  <2>1. PICK call \in MayCall :
          /\ op' = call
          /\ frame' = [kind |-> call.kind, sector |-> call.sector, status |-> STATUS_UNSET,
                       data |-> IF call.kind = "out" THEN call.data ELSE frame.data]
    BY <1>6, Zenon DEF Fill
  <2>2. /\ frame'.kind = op'.kind /\ frame'.sector = op'.sector /\ frame'.status = STATUS_UNSET
        /\ op'.kind = "out" => frame'.data = op'.data
    BY <2>1, Zenon
  <2>3. pc' = "describe" /\ overlap' = (overlap \/ InFlight) /\ held' = held
    BY <1>6, Zenon DEF Fill
  <2>4. ~overlap' => held = <<>>
    BY <2>3, HeldIsInFlight, Zenon
  <2>5. ~overlap' => DOMAIN held' = {}
    BY <2>3, <2>4
  <2>6. STATUS_UNSET # STATUS_OK
    BY DEF STATUS_UNSET, STATUS_OK
  <2> QED
    BY <2>2, <2>3, <2>5, <2>6, Zenon DEF Meant
<1>7. CASE set_descriptor
  BY <1>7, MeantStays, Zenon DEF set_descriptor
<1>8. CASE publish
  <2>1. /\ pc' = "ring" /\ UNCHANGED <<frame, op, overlap, requests, held, disk, used_idx, got>>
        /\ avail_idx' = wrapping_add(avail_idx, 1) /\ pc = "publish"
    BY <1>8, Zenon DEF publish
  <2>2. avail_idx \in Indexes /\ used_idx \in Indexes /\ seen_idx \in Indexes /\ held \in Seq(Chain)
    BY Zenon DEF Shape, TypeOK, Chain
  <2>3. ~overlap => InFlight'
    <3> SUFFICES ASSUME ~overlap PROVE InFlight'
      BY Zenon
    <3>1. PICK w \in Nat : Counted(w)
      BY <2>1, Zenon DEF Count, Starting
    <3>2. Len(held) \in Nat
      BY <2>2, LenProperties, Zenon
    <3>3. Len(held) + w = 0
      BY <2>1, <3>1, <3>2 DEF Counted, Preparing
    <3>4. Len(held) = 0 /\ w = 0
      BY <3>2, <3>3
    <3>5. avail_idx = used_idx
      BY <2>2, <3>1, <3>4, WrapAdds, Zenon DEF Counted
    <3>6. wrapping_add(avail_idx, 1) # avail_idx
      BY <2>2, Numbers, WrapLeaves
    <3> QED
      BY <2>1, <3>5, <3>6, Zenon DEF InFlight
  <2> QED
    BY <2>1, <2>3, Zenon DEF Meant, Done
<1>9. CASE ring
  BY <1>9, MeantStays, Zenon DEF ring
<1>10. CASE LookAgain
  BY <1>10, MeantStays, Zenon DEF LookAgain, Return
<1>11. CASE Conclude
  <2>1. /\ pc = "poll" /\ used_idx = published /\ requests > 0 /\ published = avail_idx
        /\ UNCHANGED <<frame, op, overlap, requests, held, disk, avail_idx, used_idx>>
    BY <1>11, Zenon DEF Conclude, Return, Answered, Shape, Count
  <2>2. answer' = "Ok" => frame.status = STATUS_OK /\ (op.kind = "in" => got' = frame.data)
    BY <1>11, Zenon DEF Conclude, Return
  <2>3. ~InFlight /\ ~InFlight'
    BY <2>1, Zenon DEF InFlight
  <2>4. ~overlap /\ answer' = "Ok" => Done
    BY <2>1, <2>2, <2>3, Zenon DEF Meant
  <2> QED
    BY <2>1, <2>2, <2>3, <2>4, Zenon DEF Meant, Done, InFlight
<1> QED
  BY <1>1, <1>2, <1>3, <1>4, <1>5, <1>6, <1>7, <1>8, <1>9, <1>10, <1>11, Zenon DEF Driver

\* The device does what the frame says while it is still the call's.
LEMMA DeviceKeepsMeant ==
  ASSUME Shape, Count, Meant, Device
  PROVE  Meant'
<1> USE DEF boot, driver, registers, device, shared
<1>0. DOMAIN held # {} => held # <<>>
  BY SMTT(30)
<1>1. UNCHANGED <<pc, op, answer, got, requests, overlap, avail_idx>>
  BY ZenonT(30) DEF Device, DeviceTakes, DeviceMoves, DeviceReturns
<1>2. CASE DeviceTakes
  <2>1. UNCHANGED <<disk, used_idx, frame>>
    BY <1>2, Zenon DEF DeviceTakes
  <2>2. /\ Len(held) \in Nat /\ DOMAIN held = 1 .. Len(held) /\ DOMAIN held' = 1 .. Len(held) + 1
        /\ \A i \in 1 .. Len(held) : held'[i] = held[i]
        /\ held'[Len(held) + 1].kind = frame.kind /\ held'[Len(held) + 1].sector = frame.sector
        /\ ~held'[Len(held) + 1].moved
    BY <1>2, TakingAdds, Zenon DEF Shape
  <2>3. \A i \in DOMAIN held' : i \in DOMAIN held \/ i = Len(held) + 1
    BY <2>2, SMTT(30)
  <2>4. ASSUME ~overlap, requests > 0, NEW i \in DOMAIN held'
        PROVE  /\ held'[i].kind = op.kind /\ held'[i].sector = op.sector
               /\ held'[i].moved /\ held'[i].ok => Done
    <3>1. CASE i \in DOMAIN held
      BY <2>2, <2>4, <3>1, Zenon DEF Meant
    <3>2. CASE i = Len(held) + 1
      BY <2>2, <3>2, Zenon DEF Meant
    <3> QED
      BY <2>3, <3>1, <3>2, Zenon
  <2>5. Done' <=> Done
    BY <1>1, <2>1, Zenon DEF Done
  <2> QED
    BY <1>1, <2>1, <2>4, <2>5, Zenon DEF Meant, InFlight
<1>3. CASE DeviceMoves
  <2>1. PICK i \in DOMAIN held, ok \in BOOLEAN :
          /\ held' = [held EXCEPT ![i].moved = TRUE, ![i].ok = ok]
          /\ IF ok /\ held[i].kind = "in"
             THEN frame' = [frame EXCEPT !.data = disk[held[i].sector]]
             ELSE UNCHANGED frame
          /\ IF ok /\ held[i].kind = "out"
             THEN disk' = [disk EXCEPT ![held[i].sector] = frame.data]
             ELSE UNCHANGED disk
    BY <1>3, ZenonT(30) DEF DeviceMoves
  <2>2. /\ DOMAIN held' = DOMAIN held /\ (held'[i].ok <=> ok)
        /\ \A j \in DOMAIN held : held'[j].kind = held[j].kind /\ held'[j].sector = held[j].sector
    BY <2>1, MovingMarks, ZenonT(30) DEF Shape
  <2>3. /\ frame \in [kind : Kinds, sector : SECTORS, status : Statuses, data : Values]
        /\ disk \in [SECTORS -> Values] /\ op.sector \in SECTORS /\ op.kind \in Kinds
    BY Zenon DEF Shape, TypeOK, Calls, Kinds
  <2>4. /\ frame'.kind = frame.kind /\ frame'.sector = frame.sector /\ frame'.status = frame.status
        /\ held[i].kind # "in" => frame'.data = frame.data
        /\ ok /\ held[i].kind = "in" => frame'.data = disk[held[i].sector]
    BY <2>1, <2>3, Zenon
  <2>5. used_idx' = used_idx
    BY <1>3, Zenon DEF DeviceMoves
  <2>6. ASSUME ~overlap PROVE InFlight /\ DOMAIN held = {1} /\ i = 1
    BY <1>0, <2>1, <2>6, HeldIsInFlight
  <2>7. ASSUME ~overlap, requests > 0, ok PROVE Done'
    <3>1. held[i].kind = op.kind /\ held[i].sector = op.sector /\ (op.kind = "out" => frame.data = op.data)
      BY <2>7, Zenon DEF Meant
    <3>2. CASE op.kind = "in"
      <4>1. disk' = disk /\ frame'.data = disk[op.sector]
        BY <2>1, <2>4, <2>7, <3>1, <3>2, Zenon
      <4> QED
        BY <1>1, <3>2, <4>1, Zenon DEF Done
    <3>3. CASE op.kind = "out"
      <4>1. disk' = [disk EXCEPT ![op.sector] = op.data]
        BY <2>1, <2>7, <3>1, <3>3, Zenon
      <4>2. disk'[op.sector] = op.data
        BY <2>3, <4>1, Zenon
      <4> QED
        BY <1>1, <3>3, <4>2, Zenon DEF Done
    <3> QED
      BY <2>3, <3>2, <3>3, Zenon DEF Kinds
  <2>8. ASSUME ~overlap, requests > 0 PROVE op.kind = "out" => frame'.data = op.data
    <3>1. held[i].kind = op.kind /\ (op.kind = "out" => frame.data = op.data)
      BY <2>8, Zenon DEF Meant
    <3> QED
      BY <2>4, <3>1, Zenon
  <2>9. ASSUME ~overlap, requests > 0, NEW j \in DOMAIN held'
        PROVE  /\ held'[j].kind = op.kind /\ held'[j].sector = op.sector
               /\ held'[j].moved /\ held'[j].ok => Done'
    <3>1. j = i /\ j \in DOMAIN held
      BY <2>2, <2>6, <2>9, Zenon
    <3>2. held'[j].kind = op.kind /\ held'[j].sector = op.sector
      BY <2>2, <2>9, <3>1, Zenon DEF Meant
    <3> QED
      BY <2>2, <2>7, <2>9, <3>1, <3>2, Zenon
  <2>10. InFlight' <=> InFlight
    BY <1>1, <2>5, Zenon DEF InFlight
  <2> QED
    BY <1>1, <2>4, <2>6, <2>8, <2>9, <2>10, Zenon DEF Meant
<1>4. CASE DeviceReturns
  <2>1. PICK i \in DOMAIN held :
          /\ held[i].moved
          /\ frame' = [frame EXCEPT !.status = IF held[i].ok THEN STATUS_OK ELSE STATUS_IO_ERROR]
          /\ held' = Without(held, i)
    BY <1>4, Zenon DEF DeviceReturns
  <2>2. disk' = disk
    BY <1>4, Zenon DEF DeviceReturns
  <2>3. frame \in [kind : Kinds, sector : SECTORS, status : Statuses, data : Values]
        /\ held \in Seq(Chain)
    BY Zenon DEF Shape, TypeOK, Chain
  <2>4. /\ frame'.kind = frame.kind /\ frame'.sector = frame.sector /\ frame'.data = frame.data
        /\ frame'.status = IF held[i].ok THEN STATUS_OK ELSE STATUS_IO_ERROR
    BY <2>1, <2>3, Zenon
  <2>5. ~overlap => InFlight /\ DOMAIN held' = {}
    <3> SUFFICES ASSUME ~overlap PROVE InFlight /\ DOMAIN held' = {}
      BY Zenon
    <3>1. InFlight /\ Len(held) = 1
      BY <1>0, <2>1, HeldIsInFlight, Zenon
    <3>2. held' \in Seq(Chain) /\ Len(held') = 0
      BY <2>1, <2>3, <3>1, WithoutOne
    <3>3. DOMAIN held' = 1 .. 0
      BY <3>2, LenProperties, Zenon
    <3> QED
      BY <3>1, <3>3
  <2>6. Done' <=> Done
    BY <1>1, <2>2, <2>4, Zenon DEF Done
  <2>7. STATUS_IO_ERROR # STATUS_OK
    BY DEF STATUS_IO_ERROR, STATUS_OK
  <2>8. ~overlap /\ requests > 0 /\ frame'.status = STATUS_OK => Done
    BY <2>1, <2>4, <2>7, Zenon DEF Meant
  <2> QED
    BY <1>1, <2>2, <2>4, <2>5, <2>6, <2>8, Zenon DEF Meant
<1> QED
  BY <1>2, <1>3, <1>4, Zenon DEF Device

------------------------------------------------------------------------------
(* Whose disk it is *)

\* Only a volume whose first sector said it is ours is adopted as ours.
LEMMA NextKeepsOurs ==
  ASSUME Shape, Ours, Meant, Next
  PROVE  Ours'
<1> USE DEF boot, driver, registers, device, shared
<1>1. CASE start \/ Negotiate \/ start_queue \/ Refuse \/ set_descriptor \/ publish \/ ring
           \/ LookAgain \/ Conclude
  <2>1. UNCHANGED <<mounted, op, held>>
    BY <1>1, Zenon DEF start, Negotiate, start_queue, WithoutDisk, Refuse, set_descriptor, publish, ring,
                LookAgain, Conclude, Return
  <2> QED
    BY <2>1, Zenon DEF Ours
<1>2. CASE adopt
  <2>1. UNCHANGED <<op, held>> /\ mounted = "none" /\ mounted' \in {"none", "ours", "not ours"}
    BY <1>2, Zenon DEF adopt
  <2> QED
    BY <2>1, Zenon DEF Ours
<1>3. CASE Fill
  <2>1. op' \in MayCall /\ UNCHANGED <<mounted, held>>
    BY <1>3, Zenon DEF Fill
  <2>2. /\ mounted # "ours" => op'.kind = "in"
        /\ mounted = "none" => op'.sector = BOOT
    BY <2>1, Zenon DEF MayCall, Shape, TypeOK
  <2> QED
    BY <2>1, <2>2, Zenon DEF Ours
<1>4. CASE Device
  <2>1. UNCHANGED <<mounted, op>>
    BY <1>4, ZenonT(30) DEF Device, DeviceTakes, DeviceMoves, DeviceReturns
  <2>2. \A j \in DOMAIN held' : (\E k \in DOMAIN held : held'[j].kind = held[k].kind)
                                 \/ held'[j].kind = op.kind
    <3>1. held \in Seq(Chain)
      BY ZenonT(30) DEF Shape, TypeOK, Chain
    <3>2. CASE DeviceTakes
      <4>1. /\ Len(held) \in Nat /\ DOMAIN held = 1 .. Len(held) /\ DOMAIN held' = 1 .. Len(held) + 1
            /\ \A i \in 1 .. Len(held) : held'[i] = held[i]
            /\ held'[Len(held) + 1].kind = frame.kind
        BY <3>2, TakingAdds, Zenon DEF Shape
      <4>2. \A i \in DOMAIN held' : i \in DOMAIN held \/ i = Len(held) + 1
        BY <4>1, SMTT(30)
      <4> QED
        BY <4>1, <4>2, ZenonT(30) DEF Meant
    <3>3. CASE DeviceMoves
      BY <3>3, MovingMarks, ZenonT(30) DEF DeviceMoves, Shape
    <3>4. CASE DeviceReturns
      <4>1. PICK i \in DOMAIN held : held' = Without(held, i)
        BY <3>4, Zenon DEF DeviceReturns
      <4> QED
        BY <3>1, <4>1, WithoutOne, SMTT(30)
    <3> QED
      BY <1>4, <3>2, <3>3, <3>4, Zenon DEF Device
  <2> QED
    BY <2>1, <2>2, Zenon DEF Ours
<1> QED
  BY <1>1, <1>2, <1>3, <1>4, Zenon DEF Next, Driver

------------------------------------------------------------------------------
(* The theorems *)

Inv == Shape /\ Count /\ Meant /\ Ours

\* The invariant holds at the start.
LEMMA InvInit == Init => Inv
BY ShapeInit, CountInit, MeantInit, Zenon DEF Inv

\* Every step of driver and device keeps the invariant.
LEMMA InvStep == Inv /\ [Next]_vars => Inv'
<1> SUFFICES ASSUME Inv, [Next]_vars PROVE Inv'
  BY Zenon
<1>1. CASE Next
  <2>1. Shape'
    BY <1>1, StartKeepsShape, CallKeepsShape, DeviceKeepsShape, Zenon DEF Inv, Next, Driver
  <2>2. Count'
    BY <1>1, DriverKeepsCount, DeviceKeepsCount, Zenon DEF Inv, Next
  <2>3. Meant'
    BY <1>1, DriverKeepsMeant, DeviceKeepsMeant, Zenon DEF Inv, Next
  <2>4. Ours'
    BY <1>1, NextKeepsOurs, Zenon DEF Inv
  <2> QED
    BY <2>1, <2>2, <2>3, <2>4, Zenon DEF Inv
<1>2. CASE UNCHANGED vars
  <2>1. UNCHANGED <<pc, dma, mounted, op, published, looks, answer, got, requests, overlap, disk,
                    used_idx, used_ring, status, size, seen_idx, held, frame, data_writable,
                    avail_idx, doorbell>>
    BY <1>2, Zenon DEF vars, driver, device, shared, boot, registers
  <2>2. Shape'
    <3>1. TypeOK'
      BY <2>1, Zenon DEF Inv, Shape, TypeOK
    <3>2. Starting' = Starting
      BY <2>1, Zenon DEF Starting
    <3> QED
      BY <2>1, <3>1, <3>2, ZenonT(30) DEF Inv, Shape
  <2>3. Count'
    BY <2>1, Zenon DEF Inv, Count, Counted, Starting, Preparing
  <2>4. Meant' /\ Ours'
    BY <2>1, Zenon DEF Inv, Meant, Ours, Done, InFlight
  <2> QED
    BY <2>2, <2>3, <2>4, Zenon DEF Inv
<1> QED
  BY <1>1, <1>2, Zenon

\* Ok tells the truth as long as no call began over an unfinished one, for any
\* disk and any number of calls, also when earlier calls gave up and their
\* answers came late (`request` of virtio_blk.rs).
THEOREM OkTellsTheTruth == Spec => []OkIsTrue
<1>1. Inv => OkIsTrue
  BY Zenon DEF Inv, Shape, Meant, OkIsTrue
<1> QED
  BY <1>1, InvInit, InvStep, PTL DEF Spec

\* What one step may do to the disk.
Asked ==
    /\ (disk' # disk /\ ~overlap) => op.kind = "out" /\ disk' = [disk EXCEPT ![op.sector] = op.data]
    /\ disk' # disk => mounted = "ours"
    /\ (mounted' = "ours" /\ mounted # "ours") => disk[BOOT] \in OurVolumes

\* A step that changes the disk is a write the call asked for.
LEMMA StepIsAsked == Inv /\ [Next]_vars => [Asked]_vars
<1> USE DEF boot, driver, registers, device, shared
<1> SUFFICES ASSUME Inv, Next PROVE Asked
  BY Zenon
<1>1. CASE DeviceMoves
  <2>1. PICK i \in DOMAIN held :
          disk' # disk => held[i].kind = "out" /\ disk' = [disk EXCEPT ![held[i].sector] = frame.data]
    BY <1>1, Zenon DEF DeviceMoves
  <2>2. mounted' = mounted
    BY <1>1, Zenon DEF DeviceMoves
  <2>3. disk' # disk => mounted = "ours"
    BY <2>1, Zenon DEF Inv, Ours
  <2>4. ASSUME disk' # disk, ~overlap
        PROVE  op.kind = "out" /\ disk' = [disk EXCEPT ![op.sector] = op.data]
    <3>1. requests > 0
      <4>1. held # <<>>
        BY SMTT(30)
      <4>2. ~Starting /\ held \in Seq(Chain)
        BY <4>1, Zenon DEF Inv, Shape, TypeOK, Chain
      <4>3. PICK w \in Nat : Counted(w)
        BY <4>2, Zenon DEF Inv, Count
      <4>4. Len(held) \in Nat \ {0}
        BY <4>1, <4>2, EmptySeq, Zenon
      <4>5. requests # 0
        BY <4>3, <4>4, SMTT(30) DEF Counted
      <4>6. requests \in 0 .. MaxRequests
        BY Zenon DEF Inv, Shape, TypeOK
      <4> QED
        BY <4>5, <4>6, Numbers
    <3> QED
      BY <2>1, <2>4, <3>1, Zenon DEF Inv, Meant
  <2> QED
    BY <2>2, <2>3, <2>4, Zenon DEF Asked
<1>2. CASE adopt
  <2>1. disk' = disk /\ mounted = "none" /\ pc = "idle" /\ requests = 1
    BY <1>2, Zenon DEF adopt
  <2>2. mounted' = "ours" => answer = "Ok" /\ got \in OurVolumes
    BY <1>2, Zenon DEF adopt, is_ours
  <2>3. ~overlap
    <3>1. requests \notin 2 .. MaxOverlapping
      BY <2>1, Numbers, SMTT(30)
    <3> QED
      BY <3>1, Zenon DEF Inv, Count
  <2>4. op.kind = "in" /\ op.sector = BOOT
    BY <2>1, Zenon DEF Inv, Ours
  <2>5. answer = "Ok" => got = disk[BOOT]
    BY <2>1, <2>3, <2>4, Zenon DEF Inv, Meant
  <2> QED
    BY <2>1, <2>2, <2>5, Zenon DEF Asked
<1>3. CASE ~DeviceMoves /\ ~adopt
  <2>1. disk' = disk /\ mounted' = mounted
    BY <1>3, Zenon DEF Next, Driver, Device, start, Negotiate, start_queue, WithoutDisk, Refuse, Fill,
                set_descriptor, publish, ring, LookAgain, Conclude, Return, DeviceTakes, DeviceReturns
  <2> QED
    BY <2>1, Zenon DEF Asked
<1> QED
  BY <1>1, <1>2, <1>3, Zenon

\* The disk changes only as the call asked for, and only when it was found to
\* be ours, however late the device acts and whatever calls overlap
\* (`write_sector` of fs.rs, ADR 0033).
THEOREM TheDiskChangesAsAsked == Spec => OnlyWhatWasAsked
<1>1. [][Asked]_vars => OnlyWhatWasAsked
  BY PTL DEF Asked, OnlyWhatWasAsked
<1> QED
  BY <1>1, InvInit, InvStep, StepIsAsked, PTL DEF Spec

\* No call is answered before the first.
LEMMA FinishedInit == Init => AnsweredMeansFinished
BY Zenon DEF Init, AnsweredMeansFinished

\* As long as fewer calls overlap than there are ring indexes, the published
\* index is met only when nothing is between the two.
LEMMA FinishedStep ==
  ASSUME MaxOverlapping < INDEXES
  PROVE  Inv /\ AnsweredMeansFinished /\ [Next]_vars => AnsweredMeansFinished'
<1> USE DEF boot, driver, registers, device, shared
<1> SUFFICES ASSUME Inv, AnsweredMeansFinished, [Next]_vars PROVE AnsweredMeansFinished'
  BY Zenon
<1>0. Shape /\ Count /\ held \in Seq(Chain) /\ avail_idx \in Indexes /\ used_idx \in Indexes
      /\ seen_idx \in Indexes
  BY Zenon DEF Inv, Shape, TypeOK, Chain
<1>1. CASE Conclude
  <2>1. pc = "poll" /\ used_idx = avail_idx /\ UNCHANGED <<held, seen_idx, avail_idx>>
    BY <1>0, <1>1, Zenon DEF Conclude, Answered, Count
  <2>2. PICK w \in Nat : Counted(w)
    BY <1>0, <2>1, Zenon DEF Count, Starting
  <2>3. Len(held) \in Nat
    BY <1>0, LenProperties, Zenon
  <2>4. Len(held) + w < INDEXES
    <3>1. Len(held) + w <= IF overlap THEN requests ELSE 1
      BY <2>1, <2>2, <2>3, SMTT(30) DEF Counted, Preparing
    <3>2. overlap => requests \in 2 .. MaxOverlapping
      BY <1>0, Zenon DEF Count
    <3> QED
      BY <2>3, <3>1, <3>2, Numbers, SMTT(30)
  <2>5. wrapping_add(used_idx, Len(held) + w) = used_idx
    BY <1>0, <2>1, <2>2, <2>3, WrapAdds, Zenon DEF Counted
  <2>6. Len(held) + w = 0
    BY <1>0, <2>3, <2>4, <2>5, WrapLeaves, SMTT(30)
  <2>7. held = <<>> /\ w = 0
    BY <1>0, <2>3, <2>6, EmptySeq, SMTT(30)
  <2>8. avail_idx = seen_idx
    BY <1>0, <2>2, <2>7, WrapAdds, Zenon DEF Counted
  <2> QED
    BY <2>1, <2>7, <2>8, Zenon DEF AnsweredMeansFinished
<1>2. CASE start_queue
  <2>1. held = <<>> /\ seen_idx = 0 /\ avail_idx = 0 /\ UNCHANGED <<held, seen_idx, avail_idx>>
    BY <1>0, <1>2, Zenon DEF start_queue, Shape, Starting
  <2> QED
    BY <2>1, Zenon DEF AnsweredMeansFinished
<1>3. CASE Device
  <2>1. UNCHANGED <<pc, answer, avail_idx>>
    BY <1>3, Zenon DEF Device, DeviceTakes, DeviceMoves, DeviceReturns
  <2>2. DOMAIN held # {} => held # <<>>
    BY SMTT(30)
  <2>3. ~(held = <<>> /\ seen_idx = avail_idx)
    BY <1>3, <2>2, ZenonT(30) DEF Device, DeviceTakes, DeviceMoves, DeviceReturns
  <2> QED
    BY <2>1, <2>3, Zenon DEF AnsweredMeansFinished
<1>4. CASE start \/ Negotiate \/ Fill \/ set_descriptor \/ publish \/ ring \/ LookAgain \/ Refuse
  <2>1. pc' # "idle" \/ answer' \in {"NoAnswer", "NotOurDisk"}
    BY <1>4, Zenon DEF start, Negotiate, WithoutDisk, Fill, set_descriptor, publish, ring, LookAgain, Refuse,
                Return
  <2> QED
    BY <2>1, Zenon DEF AnsweredMeansFinished
<1>5. CASE adopt \/ UNCHANGED vars
  <2>1. pc' # "idle" \/ UNCHANGED <<pc, answer, held, seen_idx, avail_idx>>
    BY <1>5, Zenon DEF adopt, vars
  <2> QED
    BY <2>1, Zenon DEF AnsweredMeansFinished
<1> QED
  BY <1>1, <1>2, <1>3, <1>4, <1>5, Zenon DEF Next, Driver

\* A late answer is never taken for that of a later call, in any order the
\* device answers, unless as many calls overlap as there are ring indexes.
THEOREM AnsweredCallsAreFinished ==
  ASSUME MaxOverlapping < INDEXES
  PROVE  Spec => []AnsweredMeansFinished
<1>1. Inv /\ AnsweredMeansFinished /\ [Next]_vars => (Inv /\ AnsweredMeansFinished)'
  BY InvStep, FinishedStep, Zenon
<1> QED
  BY <1>1, InvInit, FinishedInit, PTL DEF Spec
==============================================================================
