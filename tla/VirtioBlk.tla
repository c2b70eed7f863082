----------------------------- MODULE VirtioBlk -----------------------------
(***************************************************************************)
(* The disk driver, kernel/src/devices/virtio_blk.rs, over the split queue *)
(* of hal/src/virtio.rs, from finding the device to the calls of the       *)
(* mounted volume (kernel/src/fs.rs).  The driver has one request frame    *)
(* (header, data, status byte) and one chain of three descriptors, and     *)
(* uses both again for every request.  The device reads and writes the     *)
(* same memory on its own, at its own pace; the driver polls the used ring *)
(* and gives up after POLL_LIMIT looks.                                    *)
(*                                                                         *)
(* Every chain starts at descriptor HEAD, so the slots of the available    *)
(* ring all hold the same number and only its index is kept.  A sector's   *)
(* 512 bytes are one value.                                                *)
(***************************************************************************)
EXTENDS Integers, Sequences, FiniteSets

CONSTANTS
    SECTORS,        \* the sectors of the disk
    BOOT,           \* the one with the boot sector
    Values,         \* what a sector may hold
    Volumes,        \* of these, boot sectors that `parse` accepts
    OurVolumes,     \* and of those, the ones with our label and serial
    Data,           \* bound: what calls write
    QueueSizes,     \* sizes a device may report for its queue
    QUEUE_SIZE,     \* descriptors in the queue, a power of two (4)
    INDEXES,        \* values of a ring index: 2^16 in the source
    POLL_LIMIT,     \* looks at the used ring before giving up (20,000,000)
    MaxRequests,    \* bound: requests made in a behaviour
    MaxOverlapping  \* bound: the same, once one began with another in flight

ASSUME QueueAssumption ==
    /\ QUEUE_SIZE \in Nat \ {0} /\ INDEXES \in Nat /\ INDEXES % QUEUE_SIZE = 0
    /\ INDEXES > QUEUE_SIZE
    /\ {POLL_LIMIT, MaxRequests} \subseteq Nat /\ MaxOverlapping \in 0 .. MaxRequests
    /\ BOOT \in SECTORS /\ QueueSizes \subseteq Nat \ {0}
    /\ OurVolumes \subseteq Volumes /\ Volumes \subseteq Values /\ Data \subseteq Values

VARIABLES
    disk,           \* what is on the platter
    frame,          \* the request frame, both views of it
    data_writable,  \* DESC_WRITE in the data descriptor
    avail_idx,      \* the available ring's index
    used_idx,       \* the used ring's index
    used_ring,      \* its entries: which chain, and how many bytes written
    doorbell,       \* the device has been rung since it last found nothing
    status,         \* device: its status register
    size,           \* device: descriptors it takes its queue to have
    seen_idx,       \* device: how far into the available ring it has read
    held,           \* device: chains taken and not yet returned
    pc,             \* driver: where it is in `start` or in `request`
    dma,            \* driver: frames it took for the device
    mounted,        \* fs: no volume, one that is ours, or one that is not
    op,             \* driver: the call being made, or the last one made
    published,      \* driver: the index `publish` answered
    looks,          \* driver: looks at the used ring so far
    answer,         \* driver: what the last call returned
    got,            \* driver: the bytes a read copied out
    requests,       \* how many calls have been made
    overlap         \* some call began with an earlier one still in flight

boot == <<dma, mounted>>
driver == <<pc, boot, op, published, looks, answer, got, requests, overlap>>
registers == <<status, size>>
device == <<disk, used_idx, used_ring, registers, seen_idx, held>>
shared == <<frame, data_writable, avail_idx, doorbell>>
vars == <<driver, device, shared>>

-----------------------------------------------------------------------------
HEAD == 0
STATUS_OK == 0
STATUS_IO_ERROR == 1
STATUS_UNSET == 255
SECTOR_BYTES == 512

Kinds == {"in", "out"}
\* A read has no data of its own.
Calls == [kind : {"in"}, sector : SECTORS, data : {"none"}]
            \cup [kind : {"out"}, sector : SECTORS, data : Data]

wrapping_add(index, n) == (index + n) % INDEXES

slot(index) == index % QUEUE_SIZE

\* What the device reports having written for a request of this kind: the
\* status byte, and the sector too when the data goes from it to memory.
Expected(kind) == IF kind = "out" THEN 1 ELSE SECTOR_BYTES + 1

InFlight == avail_idx # used_idx

-----------------------------------------------------------------------------
(* Starting: any failure leaves the kernel without a disk.                 *)

ACKNOWLEDGE == "ACKNOWLEDGE"
DRIVER == "DRIVER"
FEATURES_OK == "FEATURES_OK"
DRIVER_OK == "DRIVER_OK"
FAILED == "FAILED"

WithoutDisk(why) ==
    /\ answer' = why
    /\ pc' = "without disk"
    /\ UNCHANGED <<mounted, op, published, looks, got, requests, overlap>>

\* Finding the device, its common configuration and the BAR that is in, and
\* mapping the registers: what configuration space says is open.
start ==
    /\ pc = "start"
    /\ \/ \E why \in {"NotFound", "Transitional", "NoCommonConfig", "TooShort",
                       "NoSuchBar", "NotMemory", "Mapping"} : WithoutDisk(why)
       \/ /\ pc' = "negotiate"
          /\ UNCHANGED <<mounted, op, published, looks, answer, got, requests, overlap>>
    /\ UNCHANGED <<dma, device, shared>>

\* A status of zero resets the device, whatever the firmware left it doing.
Reset ==
    /\ seen_idx' = 0
    /\ size' \in QueueSizes

\* The handshake.  The device may not offer version 1, and may clear
\* FEATURES_OK again; both times it is told that the driver gave up.
Negotiate ==
    /\ pc = "negotiate"
    /\ Reset
    /\ \/ /\ \E why \in {"NoVersion1", "FeaturesRefused"} : WithoutDisk(why)
          /\ status' = {FAILED}
       \/ /\ status' = {ACKNOWLEDGE, DRIVER, FEATURES_OK}
          /\ pc' = "start_queue"
          /\ UNCHANGED <<mounted, op, published, looks, answer, got, requests, overlap>>
    /\ UNCHANGED <<dma, disk, used_idx, used_ring, held, shared>>

\* Two zeroed frames, the doorbell, and the queue if the device takes the
\* size it is asked to.  Frames taken before a failure are not given back,
\* and the device is not told.
start_queue ==
    /\ pc = "start_queue"
    /\ \/ size < 3 /\ WithoutDisk("QueueTooSmall") /\ UNCHANGED <<dma, registers>>
       \/ size >= 3 /\ WithoutDisk("OutOfMemory") /\ dma' \in {0, 1} /\ UNCHANGED registers
       \/ size >= 3 /\ WithoutDisk("NoAnswer") /\ dma' = 2 /\ UNCHANGED registers
       \/ /\ size >= 3 /\ dma' = 2
          /\ size' \in {size, QUEUE_SIZE}
          /\ IF size' # QUEUE_SIZE THEN WithoutDisk("SizeRefused") /\ UNCHANGED status
             ELSE /\ status' = status \cup {DRIVER_OK}
                  /\ pc' = "idle"
                  /\ UNCHANGED <<mounted, op, published, looks, answer, got, requests, overlap>>
    /\ UNCHANGED <<disk, used_idx, used_ring, seen_idx, held, shared>>

\* Mutant: the label and the serial are not compared.
is_ours_any(contents) == TRUE

is_ours(contents) == contents \in OurVolumes

\* What the boot does with the first sector it has read.
adopt ==
    /\ pc = "idle" /\ requests = 1 /\ mounted = "none"
    /\ IF answer = "Ok" /\ got \in Volumes
       THEN mounted' = IF is_ours(got) THEN "ours" ELSE "not ours"
       ELSE UNCHANGED mounted
    /\ pc' = IF answer = "Ok" /\ got \in Volumes THEN "idle" ELSE "without disk"
    /\ UNCHANGED <<dma, op, published, looks, answer, got, requests, overlap, device, shared>>

\* The calls that reach the driver: the boot's first, then those of the
\* volume, whose `write_sector` stops writes to a disk that is not ours.
MayCall ==
    CASE mounted = "none" ->
            IF requests = 0 THEN {call \in Calls : call.kind = "in" /\ call.sector = BOOT} ELSE {}
      [] mounted = "ours" -> Calls
      [] mounted = "not ours" -> {call \in Calls : call.kind = "in"}

Refuse ==
    /\ pc = "idle" /\ mounted = "not ours"
    /\ answer' = "NotOurDisk"
    /\ UNCHANGED <<pc, boot, op, published, looks, got, requests, overlap, device, shared>>

-----------------------------------------------------------------------------
(* The driver: `Reader::read_sector` and `write_sector` are one `request`. *)

\* The header, a status the device never writes, and for a write the data.
Fill ==
    /\ pc = "idle"
    /\ requests < IF overlap \/ InFlight THEN MaxOverlapping ELSE MaxRequests
    /\ \E call \in MayCall :
        /\ op' = call
        /\ frame' = [kind |-> call.kind, sector |-> call.sector,
                     status |-> STATUS_UNSET,
                     data |-> IF call.kind = "out" THEN call.data ELSE frame.data]
    /\ requests' = requests + 1
    /\ overlap' = (overlap \/ InFlight)
    /\ pc' = "describe"
    /\ UNCHANGED <<boot, device, data_writable, avail_idx, doorbell, published, looks, answer, got>>

\* The three descriptors; only the data one differs between requests.
set_descriptor ==
    /\ pc = "describe"
    /\ data_writable' = (op.kind = "in")
    /\ pc' = "publish"
    /\ UNCHANGED <<boot, device, frame, avail_idx, doorbell, op, published, looks, answer, got, requests, overlap>>

publish ==
    /\ pc = "publish"
    /\ avail_idx' = wrapping_add(avail_idx, 1)
    /\ published' = avail_idx'
    /\ pc' = "ring"
    /\ UNCHANGED <<boot, device, frame, data_writable, doorbell, op, looks, answer, got, requests, overlap>>

ring ==
    /\ pc = "ring"
    /\ doorbell' = TRUE
    /\ looks' = 0
    /\ pc' = "poll"
    /\ UNCHANGED <<boot, device, frame, data_writable, avail_idx, op, published, answer, got, requests, overlap>>

Return(result) ==
    /\ answer' = result
    /\ pc' = "idle"
    /\ UNCHANGED <<boot, op, published, requests, overlap>>

\* Mutant: any movement of the used index counts as the answer.
Answered_moved == used_idx # wrapping_add(published, INDEXES - 1)

Answered == used_idx = published

\* Mutant: the looks are not counted.
LookAgain_for_ever ==
    /\ pc = "poll" /\ ~Answered
    /\ UNCHANGED vars

\* One look at the used ring that does not find this request answered.
LookAgain ==
    /\ pc = "poll" /\ ~Answered
    /\ looks' = looks + 1
    /\ IF looks + 1 > POLL_LIMIT
       THEN Return("NoAnswer")
       ELSE UNCHANGED <<pc, boot, op, published, answer, requests, overlap>>
    /\ UNCHANGED <<device, shared, got>>

completion(index) == used_ring[slot(index)]

\* Mutant: the status byte is not looked at.
Conclude_without_status ==
    /\ pc = "poll" /\ Answered
    /\ LET done == completion(wrapping_add(published, INDEXES - 1))
           result == CASE done.head # HEAD -> "WrongChain"
                       [] done.written # Expected(op.kind) -> "ShortRead"
                       [] OTHER -> "Ok"
       IN  /\ Return(result)
           /\ got' = IF result = "Ok" /\ op.kind = "in" THEN frame.data ELSE got
    /\ UNCHANGED <<device, shared, looks>>

\* The look that does, and what is read after it.
Conclude ==
    /\ pc = "poll" /\ Answered
    /\ LET done == completion(wrapping_add(published, INDEXES - 1))
           result == CASE done.head # HEAD -> "WrongChain"
                       [] frame.status # STATUS_OK -> "Failed"
                       [] done.written # Expected(op.kind) -> "ShortRead"
                       [] OTHER -> "Ok"
       IN  /\ Return(result)
           /\ got' = IF result = "Ok" /\ op.kind = "in" THEN frame.data ELSE got
    /\ UNCHANGED <<device, shared, looks>>

Driver ==
    \/ start \/ Negotiate \/ start_queue \/ adopt \/ Refuse
    \/ Fill \/ set_descriptor \/ publish \/ ring \/ LookAgain \/ Conclude

-----------------------------------------------------------------------------
(* The device, as the driver relies on it (virtio 1.0, split queue).  It   *)
(* takes chains in order and may return them in any order.                 *)

\* It reads the next chain: the header and which way the data goes.
DeviceTakes ==
    /\ DRIVER_OK \in status
    /\ doorbell \/ held # <<>>
    /\ seen_idx # avail_idx
    /\ held' = Append(held, [kind |-> frame.kind, sector |-> frame.sector,
                             moved |-> FALSE,
                             ok |-> data_writable = (frame.kind = "in")])
    /\ seen_idx' = wrapping_add(seen_idx, 1)
    /\ doorbell' = (doorbell /\ seen_idx' # avail_idx)
    /\ UNCHANGED <<driver, disk, used_idx, used_ring, registers, frame, data_writable, avail_idx>>

\* It moves the data of one chain it holds, or fails to.
DeviceMoves ==
    /\ \E i \in DOMAIN held, ok \in BOOLEAN :
        /\ ~held[i].moved /\ (ok => held[i].ok)
        /\ held' = [held EXCEPT ![i].moved = TRUE, ![i].ok = ok]
        /\ IF ok /\ held[i].kind = "in"
           THEN frame' = [frame EXCEPT !.data = disk[held[i].sector]]
           ELSE UNCHANGED frame
        /\ IF ok /\ held[i].kind = "out"
           THEN disk' = [disk EXCEPT ![held[i].sector] = frame.data]
           ELSE UNCHANGED disk
    /\ UNCHANGED <<driver, used_idx, used_ring, registers, seen_idx, data_writable, avail_idx, doorbell>>

Without(seq, i) == SubSeq(seq, 1, i - 1) \o SubSeq(seq, i + 1, Len(seq))

\* It writes the status byte and the used entry, then the used index.
DeviceReturns ==
    /\ \E i \in DOMAIN held :
        /\ held[i].moved
        /\ frame' = [frame EXCEPT !.status = IF held[i].ok THEN STATUS_OK ELSE STATUS_IO_ERROR]
        /\ used_ring' = [used_ring EXCEPT ![used_idx % size] =
                            [head |-> HEAD, written |-> Expected(held[i].kind)]]
        /\ held' = Without(held, i)
    /\ used_idx' = wrapping_add(used_idx, 1)
    /\ UNCHANGED <<driver, disk, registers, seen_idx, data_writable, avail_idx, doorbell>>

Device == DeviceTakes \/ DeviceMoves \/ DeviceReturns

-----------------------------------------------------------------------------
\* Any disk, and a device as the firmware left it; the frames will be zeroed.
Init ==
    /\ \E zeros \in Values, contents \in Values :
        /\ zeros = CHOOSE v \in Values : TRUE
        /\ disk = [s \in SECTORS |-> IF s = BOOT THEN contents ELSE zeros]
        /\ frame = [kind |-> "in", sector |-> BOOT, status |-> STATUS_OK, data |-> zeros]
        /\ got = zeros
    /\ op = [kind |-> "in", sector |-> BOOT, data |-> "none"]
    /\ status \in {{}, {ACKNOWLEDGE, DRIVER, FEATURES_OK, DRIVER_OK}}
    /\ size \in QueueSizes /\ dma = 0 /\ mounted = "none"
    /\ data_writable = FALSE
    /\ avail_idx = 0 /\ used_idx = 0 /\ seen_idx \in {0, 1}
    /\ used_ring = [i \in 0 .. QUEUE_SIZE - 1 |-> [head |-> 0, written |-> 0]]
    /\ doorbell = FALSE
    /\ held = <<>>
    /\ pc = "start"
    /\ published = 0 /\ looks = 0
    /\ answer = "none"
    /\ requests = 0
    /\ overlap = FALSE

Next == Driver \/ Device

\* The driver runs with interrupts off and never waits for anything but its
\* own loop, so it keeps taking steps; nothing is assumed of the device.
Spec == Init /\ [][Next]_vars /\ WF_vars(Driver)

-----------------------------------------------------------------------------
Answers ==
    {"none", "Ok", "NoAnswer", "WrongChain", "Failed", "ShortRead", "NotOurDisk",
     "NotFound", "Transitional", "NoCommonConfig", "TooShort", "NoSuchBar", "NotMemory",
     "Mapping", "NoVersion1", "FeaturesRefused", "QueueTooSmall", "OutOfMemory", "SizeRefused"}
Indexes == 0 .. INDEXES - 1
Statuses == {STATUS_OK, STATUS_IO_ERROR, STATUS_UNSET}

\* Types: in particular, ring indexes stay 16-bit numbers and the slots they
\* select stay inside the ring.
TypeOK ==
    /\ disk \in [SECTORS -> Values]
    /\ frame \in [kind : Kinds, sector : SECTORS, status : Statuses,
                  data : Values]
    /\ data_writable \in BOOLEAN /\ doorbell \in BOOLEAN /\ overlap \in BOOLEAN
    /\ {avail_idx, used_idx, seen_idx, published} \subseteq Indexes
    /\ used_ring \in [0 .. QUEUE_SIZE - 1 ->
                        [head : {HEAD}, written : {0, 1, SECTOR_BYTES + 1}]]
    /\ held \in Seq([kind : Kinds, sector : SECTORS, moved : BOOLEAN, ok : BOOLEAN])
    /\ status \subseteq {ACKNOWLEDGE, DRIVER, FEATURES_OK, DRIVER_OK, FAILED}
    /\ size \in QueueSizes \cup {QUEUE_SIZE} /\ dma \in 0 .. 2
    /\ mounted \in {"none", "ours", "not ours"}
    /\ pc \in {"start", "negotiate", "start_queue", "without disk",
              "idle", "describe", "publish", "ring", "poll"}
    /\ op \in Calls /\ got \in Values /\ answer \in Answers
    /\ looks \in 0 .. POLL_LIMIT + 1
    /\ requests \in 0 .. MaxRequests

\* As long as no call began over an unfinished one, Ok tells the truth: a
\* read returned what is on the disk and a write is on the disk.  This holds
\* after calls that gave up, too, when their late answers came in between.
OkIsTrue ==
    /\ TypeOK
    /\ (pc = "idle" /\ answer = "Ok" /\ ~overlap) =>
        IF op.kind = "in" THEN got = disk[op.sector] ELSE disk[op.sector] = op.data

\* The disk changes only as the call being made, or last made, asked: one
\* sector, to the bytes given, however late the device acts.  Overlapping
\* or not, it never changes unless its own boot sector said, when it was
\* adopted, that it is ours (ADR 0033).
OnlyWhatWasAsked ==
    [][/\ (disk' # disk /\ ~overlap) =>
             op.kind = "out" /\ disk' = [disk EXCEPT ![op.sector] = op.data]
       /\ disk' # disk => mounted = "ours"
       /\ (mounted' = "ours" /\ mounted # "ours") => disk[BOOT] \in OurVolumes]_vars

\* A late answer is never taken for the answer to a later call: a call that
\* was answered leaves the device with nothing in hand, so
\* the request frame is the kernel's again, whatever was in flight when the
\* call began and in whatever order it came back.
AnsweredMeansFinished ==
    (pc = "idle" /\ answer \notin {"NoAnswer", "NotOurDisk"}) => (held = <<>> /\ seen_idx = avail_idx)

\* Starting comes to an end and every call returns, whatever the device does
\* or does not do.
EveryCallReturns == (pc # "idle") ~> (pc \in {"idle", "without disk"})
=============================================================================
