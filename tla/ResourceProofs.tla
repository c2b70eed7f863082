--------------------------- MODULE ResourceProofs ----------------------------
(***************************************************************************)
(* Proofs about what the kernel hands out and takes back.  First, open     *)
(* files (module OpenFiles), for any number of processes, names,           *)
(* descriptors, slots and places on the disk.  Second, page frames (module *)
(* FrameAllocator, here as Pool), for a bitmap of any size and any memory  *)
(* map: regions may overlap, need not be aligned, and may reach past the   *)
(* last address.                                                           *)
(***************************************************************************)
EXTENDS OpenFiles, NumberFacts

CONSTANTS WORDS, BITS_PER_WORD, FRAME_SIZE, ADDRESS_MAX, Maps, Uses
VARIABLES a, out

\* The page-frame allocator.
Pool == INSTANCE FrameAllocator

\* The shape of the state: as TypeOK, with the functions' domains.
Shape ==
  /\ dir \in [Slots -> Entries \cup {NeverUsed, Deleted}]
  /\ data \in [Chains -> 0 .. MaxWrites]
  /\ alive \subseteq Procs
  /\ open \in [Procs -> [Descriptors -> OpenFile \cup {Closed}]]
  /\ writes \in 0 .. MaxWrites
  /\ \A p \in Procs, d \in Descriptors : open[p][d] # Closed =>
       open[p][d].position <= open[p][d].entry.size

\* What every open descriptor copied is still in the directory, and its bytes
\* are where they were.
Kept ==
  \A p \in Procs, d \in Descriptors : open[p][d] # Closed =>
    /\ \E s \in FileSlots : dir[s] = open[p][d].entry
    /\ data[open[p][d].entry.chain] = open[p][d].version

\* A process that ended holds nothing.
Ended == \A p \in Procs \ alive : \A d \in Descriptors : open[p][d] = Closed

\* What a listing has still to show has an index it has not asked for yet.
Listings == [at : {"listing", "done", "cut"}, by : Procs, index : Nat, shown : SUBSET ShortNames,
             there : SUBSET ShortNames]

Listed ==
  \/ ls = NoListing
  \/ /\ ls \in Listings
     /\ ls.at = "done" => ls.there \subseteq ls.shown
     /\ \A n \in ls.there \ ls.shown :
          \E s \in FileSlots : dir[s].name = n /\ Cardinality(Before(s)) >= ls.index

------------------------------------------------------------------------------
(* The directory *)

\* The least member of a set of numbers that is not empty is one of them.
LEMMA LeastIsIn ==
  ASSUME NEW S \in SUBSET Nat, S # {}
  PROVE  Least(S) \in S /\ \A x \in S : Least(S) <= x
<1>1. \E x \in S : \A y \in S : x <= y
  BY LeastNatural, Zenon
<1> QED
  BY <1>1, Zenon DEF Least

\* An empty slot is no entry, and a closed descriptor no file.
LEMMA Apart ==
  /\ NeverUsed \notin Entries /\ Deleted \notin Entries /\ NeverUsed # Deleted
  /\ Closed \notin OpenFile
<1>1. \A r \in Entries : DOMAIN r = {"name", "chain", "size"}
  BY Zenon DEF Entries
<1>2. DOMAIN NeverUsed = {"name"} /\ DOMAIN Deleted = {"name"} /\ DOMAIN Closed = {"name"}
  BY Zenon DEF NeverUsed, Deleted, Closed
<1>3. {"name", "chain", "size"} # {"name"}
  BY "chain" # "name"
<1>4. \A r \in OpenFile : DOMAIN r = {"entry", "position", "version"}
  BY Zenon DEF OpenFile
<1>5. {"entry", "position", "version"} # {"name"}
  BY "entry" # "name"
<1>6. NeverUsed.name = "never" /\ Deleted.name = "deleted"
  BY Zenon DEF NeverUsed, Deleted
<1> QED
  BY <1>1, <1>2, <1>3, <1>4, <1>5, <1>6, Zenon

\* A file's slot holds an entry.
LEMMA FileSlotsHoldEntries ==
  ASSUME Shape
  PROVE  FileSlots \subseteq Slots /\ \A s \in FileSlots : dir[s] \in Entries
<1>1. \A s \in FileSlots : s \in Slots /\ dir[s] # NeverUsed /\ dir[s] # Deleted
  BY DEF FileSlots, Scanned, Slots
<1> QED
  BY <1>1, Zenon DEF Shape

\* What writing an entry does to the directory: it takes the slot of the file
\* of that name or one that has no file, every other file stays where it is,
\* and the new one is there (`directory_slot` of fs.rs).
LEMMA ReplacedKeepsTheRest ==
  ASSUME Shape, NEW e \in Entries, SlotsFor(e.name) # {}, dir' = Replaced(e.name, e)
  PROVE  /\ dir' \in [Slots -> Entries \cup {NeverUsed, Deleted}]
         /\ FileSlots \subseteq FileSlots'
         /\ \A s \in FileSlots : dir'[s].name = dir[s].name
         /\ \A s \in FileSlots : dir[s].name # e.name => dir'[s] = dir[s]
<1> DEFINE at == Least(SlotsFor(e.name))
<1>1. SlotsFor(e.name) \subseteq Slots
  BY Zenon DEF SlotsFor, FileSlots, Scanned
<1>2. at \in SlotsFor(e.name) /\ at \in Slots
  BY <1>1, LeastIsIn DEF Slots
<1>3. dir' = [dir EXCEPT ![at] = e]
  BY Zenon DEF Replaced
<1>4. at \in FileSlots => dir[at].name = e.name
  BY <1>2, Zenon DEF SlotsFor, FileSlots
<1> HIDE DEF at
<1>5. dir' \in [Slots -> Entries \cup {NeverUsed, Deleted}]
  BY <1>2, <1>3, Zenon DEF Shape
<1>6. \A s \in Slots : dir'[s] = IF s = at THEN e ELSE dir[s]
  BY <1>3, Zenon DEF Shape
<1>7. e # NeverUsed /\ e # Deleted
  BY Apart, Zenon
<1>8. FileSlots \subseteq FileSlots'
  <2> SUFFICES ASSUME NEW s \in FileSlots PROVE s \in FileSlots'
    BY Zenon
  <2>1. s \in Slots /\ dir[s] # Deleted /\ \A t \in 1 .. s : dir[t] # NeverUsed
    BY Zenon DEF FileSlots, Scanned
  <2>2. \A t \in 1 .. s : t \in Slots
    BY <2>1, OpenFilesAssumption DEF Slots
  <2>3. \A t \in 1 .. s : dir'[t] # NeverUsed
    BY <1>6, <1>7, <2>1, <2>2, Zenon
  <2>4. dir'[s] # Deleted
    BY <1>6, <1>7, <2>1, Zenon
  <2> QED
    BY <2>1, <2>3, <2>4, Zenon DEF FileSlots, Scanned
<1>9. \A s \in FileSlots : s \in Slots
  BY FileSlotsHoldEntries, Zenon
<1> QED
  BY <1>4, <1>5, <1>6, <1>8, <1>9, Zenon

------------------------------------------------------------------------------
(* The shape, and the open files *)

\* The volume and the tables of descriptors start in shape.
LEMMA ShapeInit == Init => Shape
<1> SUFFICES ASSUME Init PROVE Shape
  BY Zenon
<1>1. dir \in [Slots -> Entries \cup {NeverUsed, Deleted}]
  BY Zenon DEF Init
<1>2. data \in [Chains -> 0 .. MaxWrites] /\ writes \in 0 .. MaxWrites
  BY OpenFilesAssumption DEF Init
<1> QED
  BY <1>1, <1>2, Zenon DEF Init, Shape

\* The entry a call of `open` finds.
LEMMA FoundIsThere ==
  ASSUME Shape, NEW spelled \in Spellings, find(spelled) # {}
  PROVE  /\ Least(find(spelled)) \in FileSlots
         /\ dir[Least(find(spelled))] \in Entries
<1>1. find(spelled) \subseteq FileSlots /\ FileSlots \subseteq Nat
  BY FileSlotsHoldEntries DEF find, Slots
<1>2. Least(find(spelled)) \in find(spelled)
  BY <1>1, LeastIsIn, Zenon
<1> QED
  BY <1>1, <1>2, FileSlotsHoldEntries, Zenon

\* Opening fills one free descriptor of the caller with a copy of the entry.
LEMMA OpenKeeps ==
  ASSUME Shape, NEW p \in Procs, NEW spelled \in Spellings, Open(p, spelled)
  PROVE  Shape' /\ (Kept => Kept')
<1> DEFINE entry == dir[Least(find(spelled))]
           d == Least(FreeDescriptors(p))
           file == [entry |-> entry, position |-> 0, version |-> data[entry.chain]]
<1>1. Least(find(spelled)) \in FileSlots /\ entry \in Entries
  BY FoundIsThere, Zenon DEF Open
<1>2. d \in Descriptors /\ open[p][d] = Closed
  <2>1. FreeDescriptors(p) \in SUBSET Nat /\ FreeDescriptors(p) # {}
    BY DEF FreeDescriptors, Descriptors, Open
  <2>2. d \in FreeDescriptors(p)
    BY <2>1, LeastIsIn, Zenon
  <2> QED
    BY <2>2, Zenon DEF FreeDescriptors
<1>3. file \in OpenFile /\ file.position <= file.entry.size
  BY <1>1, OpenFilesAssumption DEF OpenFile, Entries, Shape
<1>4. open' = [open EXCEPT ![p][d] = file] /\ UNCHANGED <<dir, data, alive, writes>>
  BY Zenon DEF Open
<1>5. file.entry = entry /\ file.version = data[entry.chain]
  BY Zenon
<1> HIDE DEF d, file, entry
<1>6. \A q \in Procs, c \in Descriptors :
         open'[q][c] = IF q = p /\ c = d THEN file ELSE open[q][c]
  BY <1>2, <1>4, Zenon DEF Shape
<1>7. open' \in [Procs -> [Descriptors -> OpenFile \cup {Closed}]]
  BY <1>2, <1>3, <1>4, Zenon DEF Shape
<1>8. Shape'
  BY <1>3, <1>4, <1>6, <1>7, Zenon DEF Shape
<1>9. FileSlots' = FileSlots
  BY <1>4, Zenon DEF FileSlots, Scanned
<1>10. dir[Least(find(spelled))] = entry
  BY Zenon DEF entry
<1>11. Kept => Kept'
  BY <1>1, <1>4, <1>5, <1>6, <1>9, <1>10 DEF Kept
<1> QED
  BY <1>8, <1>11, Zenon

\* Reading moves the position of one descriptor and changes nothing else.
LEMMA ReadKeeps ==
  ASSUME Shape, NEW p \in Procs, NEW d \in Descriptors, NEW len \in 0 .. MaxSize, Read(p, d, len)
  PROVE  Shape' /\ (Kept => Kept')
<1> DEFINE file == open[p][d]
           left == file.entry.size - file.position
           moved == [file EXCEPT !.position = @ + IF len < left THEN len ELSE left]
<1>1. file \in OpenFile /\ file # Closed /\ file.position <= file.entry.size
  BY Zenon DEF Shape, Read
<1>2. file.position \in Nat /\ file.entry.size \in 0 .. MaxSize /\ MaxSize \in Nat
  BY <1>1, OpenFilesAssumption DEF OpenFile, Entries
<1>3. /\ moved \in OpenFile /\ moved.position <= moved.entry.size
      /\ moved.entry = file.entry /\ moved.version = file.version
  BY <1>1, <1>2 DEF OpenFile
<1>4. open' = [open EXCEPT ![p][d] = moved] /\ UNCHANGED <<dir, data, alive, writes>>
  BY Zenon DEF Read
<1> HIDE DEF moved
<1>6. \A q \in Procs, c \in Descriptors :
         open'[q][c] = IF q = p /\ c = d THEN moved ELSE open[q][c]
  BY <1>4, Zenon DEF Shape
<1>7. open' \in [Procs -> [Descriptors -> OpenFile \cup {Closed}]]
  BY <1>3, <1>4, Zenon DEF Shape
<1>8. Shape'
  BY <1>3, <1>4, <1>6, <1>7, Zenon DEF Shape
<1>9. FileSlots' = FileSlots
  BY <1>4, Zenon DEF FileSlots, Scanned
<1>10. Kept => Kept'
  BY <1>1, <1>3, <1>4, <1>6, <1>9 DEF Kept
<1> QED
  BY <1>8, <1>10, Zenon

\* Closing, ending and listing only close descriptors.
LEMMA ClosingKeeps ==
  ASSUME Shape, UNCHANGED <<dir, data, writes>>, alive' \subseteq alive,
         open' \in [Procs -> [Descriptors -> OpenFile \cup {Closed}]],
         \A p \in Procs, d \in Descriptors : open'[p][d] \in {open[p][d], Closed}
  PROVE  Shape' /\ (Kept => Kept')
<1>1. Shape'
  BY Zenon DEF Shape
<1>2. FileSlots' = FileSlots
  BY Zenon DEF FileSlots, Scanned
<1>3. Kept => Kept'
  BY <1>2 DEF Kept
<1> QED
  BY <1>1, <1>3, Zenon

\* A write goes where no file is, so with every name spelled as the directory
\* spells it, it changes no file anybody has open.
LEMMA WriteKeeps ==
  ASSUME Shape, NEW spelled \in Spellings, NEW size \in 0 .. MaxSize, NEW stops \in BOOLEAN,
         WriteFile(spelled, size, stops)
  PROVE  /\ Shape' /\ FileSlots \subseteq FileSlots'
         /\ \A s \in FileSlots : dir'[s].name = dir[s].name
         /\ ~spelled.dot /\ Kept => Kept'
<1> DEFINE c == Least(Unused)
           e == [name |-> spelled.name, chain |-> c, size |-> size]
<1>1. c \in Chains /\ c \in Unused
  <2>1. Unused \in SUBSET Nat /\ Unused # {}
    BY DEF Unused, Chains, WriteFile
  <2> QED
    BY <2>1, LeastIsIn, Zenon DEF Unused
<1>2. e \in Entries /\ e.name = spelled.name
  BY <1>1, Zenon DEF Entries, Spellings
<1>3. /\ data' = [data EXCEPT ![c] = writes + 1] /\ UNCHANGED <<alive, open>>
      /\ dir' = IF stops THEN dir ELSE Replaced(e.name, e)
      /\ SlotsFor(e.name) # {} /\ writes' = writes + 1 /\ writes < MaxWrites
      /\ ~anyone_has_open(spelled)
  BY <1>2, Zenon DEF WriteFile, encode_name
<1>4. \A s \in FileSlots : dir[s].chain # c
  BY <1>1, Zenon DEF Unused
<1> HIDE DEF c, e
<1>5. /\ dir' \in [Slots -> Entries \cup {NeverUsed, Deleted}] /\ FileSlots \subseteq FileSlots'
      /\ \A s \in FileSlots : dir'[s].name = dir[s].name
      /\ \A s \in FileSlots : dir[s].name # e.name => dir'[s] = dir[s]
  <2>1. CASE stops
    <3>1. dir' = dir
      BY <1>3, <2>1, Zenon
    <3>2. FileSlots' = FileSlots
      BY <3>1, Zenon DEF FileSlots, Scanned
    <3> QED
      BY <3>1, <3>2, Zenon DEF Shape
  <2>2. CASE ~stops
    BY <1>2, <1>3, <2>2, ReplacedKeepsTheRest, Zenon
  <2> QED
    BY <2>1, <2>2, Zenon
<1>6. writes + 1 \in 0 .. MaxWrites
  BY <1>3, OpenFilesAssumption DEF Shape
<1>7. Shape'
  BY <1>1, <1>3, <1>5, <1>6, Zenon DEF Shape
<1>8. ASSUME ~spelled.dot, Kept, NEW p \in Procs, NEW d \in Descriptors, open'[p][d] # Closed
      PROVE  /\ \E s \in FileSlots' : dir'[s] = open'[p][d].entry
             /\ data'[open'[p][d].entry.chain] = open'[p][d].version
  <2>1. PICK s \in FileSlots : dir[s] = open[p][d].entry
    BY <1>3, <1>8, Zenon DEF Kept
  <2>2. data[open[p][d].entry.chain] = open[p][d].version
    BY <1>3, <1>8, Zenon DEF Kept
  <2>3. open[p][d].entry.name # spelled.name
    BY <1>3, <1>8, Zenon DEF anyone_has_open, holds, is_named
  <2>4. dir'[s] = dir[s]
    BY <1>2, <1>5, <2>1, <2>3, Zenon
  <2>5. dir[s].chain # c
    BY <1>4, Zenon
  <2>6. data'[open[p][d].entry.chain] = data[open[p][d].entry.chain]
    BY <1>3, <2>1, <2>5 DEF Shape
  <2> QED
    BY <1>3, <1>5, <2>1, <2>2, <2>4, <2>6, Zenon
<1>9. ~spelled.dot /\ Kept => Kept'
  BY <1>8, Zenon DEF Kept
<1> QED
  BY <1>5, <1>7, <1>9, Zenon

------------------------------------------------------------------------------
(* Listing the directory by index *)

\* What a listing has passed is a finite set of slots.
LEMMA BeforeIsFinite ==
  ASSUME Shape, NEW s
  PROVE  IsFiniteSet(Before(s)) /\ Cardinality(Before(s)) \in Nat /\ Before(s) \subseteq FileSlots
<1>1. IsFiniteSet(Slots)
  BY OpenFilesAssumption, FS_Interval DEF Slots
<1>2. Before(s) \subseteq FileSlots /\ Before(s) \subseteq Slots
  BY FileSlotsHoldEntries, Zenon DEF Before
<1>3. IsFiniteSet(Before(s))
  BY <1>1, <1>2, FS_Subset, Zenon
<1> QED
  BY <1>2, <1>3, FS_CardinalityType, Zenon

\* `entry_at` finds an entry for every index up to that of any entry there is.
LEMMA EveryIndexIsFound ==
  ASSUME Shape, NEW k \in Nat, NEW f \in FileSlots, Cardinality(Before(f)) >= k
  PROVE  entry_at(k) # {}
<1> DEFINE T == {s \in FileSlots : Cardinality(Before(s)) >= k}
<1>1. FileSlots \subseteq Nat /\ FileSlots \subseteq 1 .. DIR_SLOTS /\ DIR_SLOTS \in Nat
  BY FileSlotsHoldEntries, OpenFilesAssumption DEF Slots
<1>2. T \in SUBSET Nat /\ T # {}
  BY <1>1, Zenon
<1>3. PICK s \in T : \A t \in T : s <= t
  BY <1>2, LeastNatural, Zenon
<1>4. s \in FileSlots /\ Cardinality(Before(s)) \in Nat /\ Cardinality(Before(s)) >= k
  BY <1>3, BeforeIsFinite, Zenon
<1>5. CASE Cardinality(Before(s)) = k
  BY <1>4, <1>5, Zenon DEF entry_at, Before
<1>6. CASE Cardinality(Before(s)) # k
  <2>1. Before(s) # {}
    BY <1>4, <1>6, FS_EmptySet
  <2>2. Before(s) \in SUBSET Nat /\ \A t \in Before(s) : t <= DIR_SLOTS
    <3>1. Before(s) \subseteq 1 .. DIR_SLOTS
      BY <1>1, BeforeIsFinite, Zenon
    <3> QED
      BY <1>1, <3>1
  <2>3. PICK u \in Before(s) : \A t \in Before(s) : t <= u
    BY <1>1, <2>1, <2>2, GreatestNatural, Zenon
  <2>4. u \in FileSlots /\ u < s /\ u \in Nat /\ s \in Nat
    BY <1>1, <1>4, <2>3, Zenon DEF Before
  <2>5. Before(u) = Before(s) \ {u}
    <3>1. ASSUME NEW t \in FileSlots PROVE t < u <=> (t < s /\ t # u)
      <4>1. t \in Nat
        BY <1>1, Zenon
      <4>2. t < s => t <= u
        BY <2>3, Zenon DEF Before
      <4> QED
        BY <2>4, <4>1, <4>2
    <3> QED
      BY <3>1, Zenon DEF Before
  <2>6. Cardinality(Before(u)) = Cardinality(Before(s)) - 1
    BY <2>3, <2>5, BeforeIsFinite, FS_RemoveElement, ZenonT(30)
  <2>7. u \in T
    BY <1>4, <1>6, <2>4, <2>6
  <2> QED
    BY <1>3, <2>4, <2>7
<1> QED
  BY <1>5, <1>6, Zenon

\* No file comes to a smaller index when a file is written.
LEMMA WritingKeepsListed ==
  ASSUME Shape, Shape', Listed, UNCHANGED ls, FileSlots \subseteq FileSlots',
         \A s \in FileSlots : dir'[s].name = dir[s].name
  PROVE  Listed'
<1>1. ASSUME NEW s \in FileSlots
      PROVE  Cardinality(Before(s)) <= Cardinality(Before(s)')
  <2>1. Before(s) \subseteq Before(s)'
    BY Zenon DEF Before
  <2>2. IsFiniteSet(Before(s)')
    <3>1. IsFiniteSet(Slots)
      BY OpenFilesAssumption, FS_Interval DEF Slots
    <3>2. Before(s)' \subseteq Slots
      BY Zenon DEF Before, FileSlots, Scanned
    <3> QED
      BY <3>1, <3>2, FS_Subset, Zenon
  <2> QED
    BY <2>1, <2>2, FS_Subset, Zenon
<1>2. \A s \in FileSlots : Cardinality(Before(s)) \in Nat /\ Cardinality(Before(s)') \in Nat
  <2> TAKE s \in FileSlots
  <2>1. IsFiniteSet(Slots)
    BY OpenFilesAssumption, FS_Interval DEF Slots
  <2>2. Before(s) \subseteq Slots /\ Before(s)' \subseteq Slots
    BY Zenon DEF Before, FileSlots, Scanned
  <2> QED
    BY <2>1, <2>2, FS_Subset, FS_CardinalityType, Zenon
<1>3. CASE ls = NoListing
  BY <1>3, Zenon DEF Listed
<1>4. CASE ls # NoListing
  <2>1. ls \in Listings /\ (ls.at = "done" => ls.there \subseteq ls.shown)
    BY <1>4, Zenon DEF Listed
  <2>2. ASSUME NEW n \in ls.there \ ls.shown
        PROVE  \E s \in FileSlots' : dir'[s].name = n /\ Cardinality(Before(s)') >= ls.index
    <3>1. PICK s \in FileSlots : dir[s].name = n /\ Cardinality(Before(s)) >= ls.index
      BY <1>4, <2>2, Zenon DEF Listed
    <3>2. Cardinality(Before(s)') >= ls.index
      BY <1>1, <1>2, <2>1, <3>1 DEF Listings
    <3> QED
      BY <3>1, <3>2, Zenon
  <2> QED
    BY <2>1, <2>2, Zenon DEF Listed
<1> QED
  BY <1>3, <1>4, Zenon

\* Starting a listing, and each call of it.
LEMMA ListingKeepsListed ==
  ASSUME Shape, Listed, NEW p \in Procs, NEW unreadable \in BOOLEAN,
         list_files(p) \/ List(p, unreadable)
  PROVE  Listed'
<1>1. UNCHANGED <<dir, data, alive, open, writes>>
  BY Zenon DEF list_files, List
<1>2. FileSlots' = FileSlots /\ \A s \in FileSlots : Before(s)' = Before(s)
  BY <1>1, Zenon DEF FileSlots, Scanned, Before
<1>3. \A s \in FileSlots : dir[s].name \in ShortNames /\ Cardinality(Before(s)) \in Nat
  BY FileSlotsHoldEntries, BeforeIsFinite, Zenon DEF Entries
<1>4. CASE list_files(p)
  <2> DEFINE new == [at |-> "listing", by |-> p, index |-> 0, shown |-> {},
                     there |-> {dir[s].name : s \in FileSlots}]
  <2>1. ls' = new
    BY <1>4, Zenon DEF list_files
  <2>2. ls' \in Listings
    BY <1>3, <2>1, Zenon DEF Listings
  <2>3. ls'.at = "listing" /\ ls'.index = 0 /\ ls'.there = {dir[s].name : s \in FileSlots}
    BY <2>1, Zenon
  <2>4. \A n \in ls'.there : \E s \in FileSlots : dir[s].name = n /\ Cardinality(Before(s)) >= 0
    BY <1>3, <2>3
  <2> QED
    BY <1>1, <1>2, <2>2, <2>3, <2>4, ZenonT(30) DEF Listed
<1>5. CASE List(p, unreadable)
  <2>1. ls # NoListing /\ ls.at = "listing"
    BY <1>5 DEF List, NoListing
  <2>2. ls \in Listings
    BY <2>1, Zenon DEF Listed
  <2>3. \A n \in ls.there \ ls.shown :
          \E s \in FileSlots : dir[s].name = n /\ Cardinality(Before(s)) >= ls.index
    BY <2>1, Zenon DEF Listed
  <2>4. CASE unreadable
    <3>1. ls' = [ls EXCEPT !.at = "cut"]
      BY <1>5, <2>4, Zenon DEF List
    <3>2. /\ ls' \in Listings /\ ls'.at = "cut" /\ ls'.there = ls.there
          /\ ls'.shown = ls.shown /\ ls'.index = ls.index
      BY <2>2, <3>1, Zenon DEF Listings
    <3> QED
      BY <1>1, <1>2, <2>3, <3>2, Zenon DEF Listed
  <2>5. CASE ~unreadable /\ entry_at(ls.index) = {}
    <3>1. ls' = [ls EXCEPT !.at = "done"]
      BY <1>5, <2>5, Zenon DEF List
    <3>2. ls' \in Listings /\ ls'.at = "done" /\ ls'.there = ls.there /\ ls'.shown = ls.shown
      BY <2>2, <3>1, Zenon DEF Listings
    <3>3. ls.index \in Nat
      BY <2>2, Zenon DEF Listings
    <3>4. ls.there \subseteq ls.shown
      BY <2>3, <2>5, <3>3, EveryIndexIsFound, Zenon
    <3> QED
      BY <3>2, <3>4, Zenon DEF Listed
  <2>6. CASE ~unreadable /\ entry_at(ls.index) # {}
    <3> DEFINE more == {dir[s].name : s \in entry_at(ls.index)}
    <3>1. ls' = [ls EXCEPT !.index = @ + 1, !.shown = @ \cup more]
      BY <1>5, <2>6, Zenon DEF List
    <3>2. more \subseteq ShortNames
      BY <1>3, Zenon DEF entry_at
    <3>3. \A s \in FileSlots : Cardinality(Before(s)) = ls.index => dir[s].name \in more
      BY Zenon DEF entry_at, Before
    <3> HIDE DEF more
    <3>4. /\ ls' \in Listings /\ ls'.at = "listing" /\ ls'.there = ls.there
          /\ ls'.index = ls.index + 1 /\ ls'.shown = ls.shown \cup more /\ ls.index \in Nat
      <4>1. ls.index \in Nat /\ ls.index + 1 \in Nat /\ ls.shown \cup more \in SUBSET ShortNames
        BY <2>2, <3>2 DEF Listings
      <4> DEFINE i == ls.index + 1
                 sh == ls.shown \cup more
      <4>2. ls' = [ls EXCEPT !.index = i, !.shown = sh]
        BY <3>1, Zenon
      <4>3. i \in Nat /\ sh \in SUBSET ShortNames
        BY <4>1, Zenon
      <4>4. i = ls.index + 1 /\ sh = ls.shown \cup more
        BY Zenon
      <4> HIDE DEF i, sh
      <4>5. /\ ls' \in Listings /\ ls'.at = "listing" /\ ls'.there = ls.there
            /\ ls'.index = i /\ ls'.shown = sh
        BY <2>1, <2>2, <4>2, <4>3, Zenon DEF Listings
      <4> QED
        BY <4>1, <4>4, <4>5, Zenon
    <3>5. ASSUME NEW n \in ls'.there \ ls'.shown
          PROVE  \E s \in FileSlots : dir[s].name = n /\ Cardinality(Before(s)) >= ls'.index
      <4>1. PICK s \in FileSlots : dir[s].name = n /\ Cardinality(Before(s)) >= ls.index
        BY <2>3, <3>4, <3>5, Zenon
      <4>2. Cardinality(Before(s)) # ls.index
        BY <3>3, <3>4, <3>5, <4>1, Zenon
      <4>3. Cardinality(Before(s)) >= ls'.index
        BY <1>3, <3>4, <4>1, <4>2
      <4> QED
        BY <4>1, <4>3, Zenon
    <3> QED
      BY <1>1, <1>2, <3>4, <3>5, Zenon DEF Listed
  <2> QED
    BY <2>4, <2>5, <2>6, Zenon
<1> QED
  BY <1>4, <1>5, Zenon

------------------------------------------------------------------------------
(* Every step *)

\* What each step keeps. Only keeping the open files as they are asks for
\* names spelled without a dot.
LEMMA NextKeeps ==
  ASSUME Shape, Ended, Listed, [Next]_vars
  PROVE  Shape' /\ Ended' /\ Listed' /\ (Dots \subseteq {FALSE} /\ Kept => Kept')
<1>1. CASE UNCHANGED vars
  <2>1. UNCHANGED <<dir, data, alive, open, ls, writes>>
    BY <1>1, Zenon DEF vars
  <2>2. FileSlots' = FileSlots /\ \A s \in FileSlots : Before(s)' = Before(s)
    BY <2>1, Zenon DEF FileSlots, Scanned, Before
  <2> QED
    BY <2>1, <2>2, ZenonT(30) DEF Shape, Ended, Listed, Kept
<1>2. ASSUME NEW p \in Procs, NEW spelled \in Spellings, Open(p, spelled)
      PROVE  Shape' /\ Ended' /\ Listed' /\ (Kept => Kept')
  <2>1. Shape' /\ (Kept => Kept')
    BY <1>2, OpenKeeps, Zenon
  <2>2. UNCHANGED <<dir, data, alive, ls, writes>> /\ p \in alive
    BY <1>2, Zenon DEF Open
  <2>3. \A q \in Procs \ alive : open'[q] = open[q]
    BY <1>2, <2>2, Zenon DEF Open, Shape
  <2>4. Ended'
    BY <2>2, <2>3 DEF Ended
  <2>5. FileSlots' = FileSlots
    BY <2>2, Zenon DEF FileSlots, Scanned
  <2> QED
    BY <2>1, <2>2, <2>4, <2>5, WritingKeepsListed, Zenon
<1>3. ASSUME NEW p \in Procs, NEW d \in Descriptors, NEW len \in 0 .. MaxSize, Read(p, d, len)
      PROVE  Shape' /\ Ended' /\ Listed' /\ (Kept => Kept')
  <2>1. Shape' /\ (Kept => Kept')
    BY <1>3, ReadKeeps, Zenon
  <2>2. UNCHANGED <<dir, data, alive, ls, writes>> /\ p \in alive
    BY <1>3, Zenon DEF Read
  <2>3. \A q \in Procs \ alive : open'[q] = open[q]
    BY <1>3, <2>2, Zenon DEF Read, Shape
  <2>4. Ended'
    BY <2>2, <2>3, Zenon DEF Ended
  <2>5. FileSlots' = FileSlots
    BY <2>2, Zenon DEF FileSlots, Scanned
  <2> QED
    BY <2>1, <2>2, <2>4, <2>5, WritingKeepsListed, Zenon
<1>4. ASSUME NEW p \in Procs, NEW d \in Descriptors, Close(p, d)
      PROVE  Shape' /\ Ended' /\ Listed' /\ (Kept => Kept')
  <2>1. UNCHANGED <<dir, data, alive, ls, writes>> /\ open' = [open EXCEPT ![p][d] = Closed]
    BY <1>4, Zenon DEF Close
  <2>2. /\ open' \in [Procs -> [Descriptors -> OpenFile \cup {Closed}]]
        /\ \A q \in Procs, c \in Descriptors : open'[q][c] \in {open[q][c], Closed}
    BY <2>1, Zenon DEF Shape
  <2>3. Shape' /\ (Kept => Kept')
    BY <2>1, <2>2, ClosingKeeps, Zenon
  <2>4. Ended'
    BY <2>1, <2>2, Zenon DEF Ended
  <2>5. FileSlots' = FileSlots
    BY <2>1, Zenon DEF FileSlots, Scanned
  <2> QED
    BY <2>1, <2>3, <2>4, <2>5, WritingKeepsListed, Zenon
<1>5. ASSUME NEW spelled \in Spellings, NEW size \in 0 .. MaxSize, NEW stops \in BOOLEAN,
             WriteFile(spelled, size, stops)
      PROVE  Shape' /\ Ended' /\ Listed' /\ (Dots \subseteq {FALSE} /\ Kept => Kept')
  <2>1. /\ Shape' /\ FileSlots \subseteq FileSlots'
        /\ \A s \in FileSlots : dir'[s].name = dir[s].name
        /\ ~spelled.dot /\ Kept => Kept'
    BY <1>5, WriteKeeps, Zenon
  <2>2. UNCHANGED <<alive, open, ls>>
    BY <1>5, Zenon DEF WriteFile
  <2>3. Dots \subseteq {FALSE} => ~spelled.dot
    BY Zenon DEF Spellings
  <2>4. Ended'
    BY <2>2, Zenon DEF Ended
  <2> QED
    BY <2>1, <2>2, <2>3, <2>4, WritingKeepsListed, Zenon
<1>6. ASSUME NEW p \in Procs, kill(p)
      PROVE  Shape' /\ Ended' /\ Listed' /\ (Kept => Kept')
  <2>1. /\ UNCHANGED <<dir, data, ls, writes>> /\ alive' = alive \ {p}
        /\ open' = [open EXCEPT ![p] = [d \in Descriptors |-> Closed]]
    BY <1>6, Zenon DEF kill
  <2>2. /\ open' \in [Procs -> [Descriptors -> OpenFile \cup {Closed}]]
        /\ \A q \in Procs, c \in Descriptors :
             open'[q][c] = IF q = p THEN Closed ELSE open[q][c]
    BY <2>1, Zenon DEF Shape
  <2>3. Shape' /\ (Kept => Kept')
    BY <2>1, <2>2, ClosingKeeps, Zenon
  <2>4. Ended'
    BY <2>1, <2>2, Zenon DEF Ended
  <2>5. FileSlots' = FileSlots
    BY <2>1, Zenon DEF FileSlots, Scanned
  <2> QED
    BY <2>1, <2>3, <2>4, <2>5, WritingKeepsListed, Zenon
<1>7. ASSUME NEW p \in Procs, NEW unreadable \in BOOLEAN,
             list_files(p) \/ List(p, unreadable)
      PROVE  Shape' /\ Ended' /\ Listed' /\ (Kept => Kept')
  <2>1. UNCHANGED <<dir, data, alive, open, writes>>
    BY <1>7, Zenon DEF list_files, List
  <2>2. Shape' /\ (Kept => Kept')
    BY <2>1, ClosingKeeps, Zenon DEF Shape
  <2>3. Ended'
    BY <2>1, Zenon DEF Ended
  <2> QED
    BY <1>7, <2>2, <2>3, ListingKeepsListed, Zenon
<1> QED
  BY <1>1, <1>2, <1>3, <1>4, <1>5, <1>6, <1>7, Zenon DEF Next

------------------------------------------------------------------------------
(* The theorems *)

\* At the start nothing is open, nobody has ended and no listing is under way.
LEMMA KeptInit == Init => Kept /\ Ended /\ Listed
BY DEF Init, Kept, Ended, Listed

\* A descriptor whose entry is still that of its file reads what it opened.
LEMMA KeptIsSafe == Shape /\ Kept => OpenFilesDoNotChange
<1> SUFFICES ASSUME Shape, Kept PROVE OpenFilesDoNotChange
  BY Zenon
<1>1. TypeOK
  BY Zenon DEF Shape, TypeOK
<1> QED
  BY <1>1, Zenon DEF Kept, OpenFilesDoNotChange

\* Whoever has a name open is alive.
LEMMA EndedIsSafe == Shape /\ Ended => OnlyTheLivingHoldFiles
BY Zenon DEF Shape, Ended, OnlyTheLivingHoldFiles, anyone_has_open, holds

\* The invariant of a listing gives the property.
LEMMA ListedIsSafe == Listed => ListingMissesNothing
BY Zenon DEF Listed, ListingMissesNothing

\* As long as names are spelled without a trailing dot, a descriptor reads the
\* bytes its file had when it was opened, however many processes open, write
\* and end meanwhile (`fs::write_file` refuses a name that is open).
THEOREM OpenFilesAreKept ==
  ASSUME Dots \subseteq {FALSE}
  PROVE  Spec => []OpenFilesDoNotChange
<1>1. Init => Shape /\ Kept /\ Ended /\ Listed
  BY ShapeInit, KeptInit, Zenon
<1>2. Shape /\ Kept /\ Ended /\ Listed /\ [Next]_vars => (Shape /\ Kept /\ Ended /\ Listed)'
  BY NextKeeps, Zenon
<1>3. Shape /\ Kept /\ Ended /\ Listed => OpenFilesDoNotChange
  BY KeptIsSafe, Zenon
<1> QED
  BY <1>1, <1>2, <1>3, PTL DEF Spec

\* A file is never kept unwritable by a process that has ended: `kill` closes
\* all of its descriptors.
THEOREM TheEndedHoldNothing == Spec => []OnlyTheLivingHoldFiles
<1>1. Init => Shape /\ Ended /\ Listed
  BY ShapeInit, KeptInit, Zenon
<1>2. Shape /\ Ended /\ Listed /\ [Next]_vars => (Shape /\ Ended /\ Listed)'
  BY NextKeeps, Zenon
<1>3. Shape /\ Ended /\ Listed => OnlyTheLivingHoldFiles
  BY EndedIsSafe, Zenon
<1> QED
  BY <1>1, <1>2, <1>3, PTL DEF Spec

\* A listing by index passes over no file that was there when it began,
\* although files are written between its calls: one that ends for want of an
\* index has shown them all, one that a read error ends has shown all that come
\* before (`entry_at` of fs.rs, `list_files` of the shell).
THEOREM ListingsAreComplete == Spec => []ListingMissesNothing
<1>1. Init => Shape /\ Ended /\ Listed
  BY ShapeInit, KeptInit, Zenon
<1>2. Shape /\ Ended /\ Listed /\ [Next]_vars => (Shape /\ Ended /\ Listed)'
  BY NextKeeps, Zenon
<1>3. Shape /\ Ended /\ Listed => ListingMissesNothing
  BY ListedIsSafe, Zenon
<1> QED
  BY <1>1, <1>2, <1>3, PTL DEF Spec

-----------------------------------------------------------------------------
(* Page frames.                                                            *)

\* The allocator as a record.
Allocators ==
    [map : Maps, held : SUBSET Pool!Frames, free : Nat, next_word : 0 .. WORDS - 1,
     reclaimed : BOOLEAN, tracking : BOOLEAN,
     purposes : [Pool!Frames -> Pool!Purposes \cup {Pool!NoPurpose}]]

\* What a step has to keep.
PoolInv ==
    /\ a \in Allocators /\ out \subseteq Pool!Frames
    /\ Pool!PoolIsAllowed /\ Pool!BooksBalance /\ Pool!LabelsFollowHolders

Regions == [start : Nat, pages : Nat, kind : Pool!Kinds]

\* The instance counts as FiniteSets does.
LEMMA SameCount == \A S : Pool!Cardinality(S) = Cardinality(S)
BY Zenon DEF Pool!Cardinality, Cardinality

------------------------------------------------------------------------------
(* Frames, and the regions they lie in *)

\* The frames of the bitmap are finitely many, as are any of them.
LEMMA FramesAreFinite ==
  ASSUME Pool!PoolAssumption
  PROVE  /\ IsFiniteSet(Pool!Frames) /\ Pool!Frames \subseteq Nat
         /\ Cardinality(Pool!Frames) \in Nat /\ Pool!NoFrame \notin Pool!Frames
<1>1. WORDS * BITS_PER_WORD - 1 \in Int
  BY DEF Pool!PoolAssumption, Pool!BitmapAssumption
<1>2. IsFiniteSet(Pool!Frames)
  BY <1>1, FS_Interval DEF Pool!Frames
<1> QED
  BY <1>1, <1>2, FS_CardinalityType DEF Pool!Frames, Pool!NoFrame

\* The end of a region, saturating as in the source.
LEMMA RegionEnd ==
  ASSUME Pool!PoolAssumption, NEW r \in Regions
  PROVE  /\ Pool!region_end(r) \in Nat
         /\ Pool!region_end(r) = ADDRESS_MAX \/ Pool!region_end(r) = r.start + r.pages * FRAME_SIZE
<1>1. r.start \in Nat /\ r.pages \in Nat /\ FRAME_SIZE \in Nat /\ ADDRESS_MAX \in Nat
  BY Zenon DEF Regions, Pool!PoolAssumption, Pool!BitmapAssumption
<1> DEFINE bytes == r.pages * FRAME_SIZE
<1>2. bytes \in Nat
  BY <1>1
<1>3. Pool!region_end(r) = Pool!saturating(r.start + Pool!saturating(bytes))
  BY Zenon DEF Pool!region_end
<1> HIDE DEF bytes
<1>4. /\ Pool!region_end(r) \in Nat
      /\ Pool!region_end(r) = ADDRESS_MAX \/ Pool!region_end(r) = r.start + bytes
  BY <1>1, <1>2, <1>3 DEF Pool!saturating
<1> QED
  BY <1>4, Zenon DEF bytes

\* A frame inside a region is touched by it; and the other way round if the
\* region starts at a frame.
LEMMA InsideIsTouched ==
  ASSUME Pool!PoolAssumption, NEW r \in Regions
  PROVE  /\ Pool!inward_frames(r) \subseteq Pool!outward_frames(r)
         /\ r.start % FRAME_SIZE = 0 => Pool!inward_frames(r) = Pool!outward_frames(r)
<1> DEFINE F == FRAME_SIZE
           s == r.start
           e == Pool!region_end(r)
           N == WORDS * BITS_PER_WORD
<1>1. F \in Nat \ {0} /\ s \in Nat /\ e \in Nat /\ N \in Nat /\ ADDRESS_MAX \in Nat
      /\ F * N <= ADDRESS_MAX
  BY RegionEnd DEF Regions, Pool!PoolAssumption, Pool!BitmapAssumption
<1>2. e = ADDRESS_MAX \/ e = s + r.pages * F
  BY RegionEnd, Zenon
<1>3. r.pages \in Nat
  BY Zenon DEF Regions
<1>4. Pool!inward_frames(r) = {n \in Pool!Frames : (s + F - 1) \div F <= n /\ n < e \div F}
  BY Zenon DEF Pool!inward_frames, Pool!div_ceil
<1>5. Pool!outward_frames(r) = {n \in Pool!Frames : s \div F <= n /\ n < (e + F - 1) \div F}
  BY Zenon DEF Pool!outward_frames, Pool!div_ceil
<1>6. \A n \in Pool!Frames : n \in Nat /\ n < N
  BY <1>1 DEF Pool!Frames
<1> HIDE DEF F, s, e, N
<1>7. /\ s \in Int /\ e \in Int /\ s + F - 1 \in Int /\ e + F - 1 \in Int
      /\ s <= s + F - 1 /\ e <= e + F - 1
  BY <1>1
<1>8. s \div F \in Int /\ (s + F - 1) \div F \in Int /\ e \div F \in Int /\ (e + F - 1) \div F \in Int
  BY <1>1, <1>7, DivMod, Zenon
<1>9. s \div F <= (s + F - 1) \div F /\ e \div F <= (e + F - 1) \div F
  BY <1>1, <1>7, DivMonotone, Zenon
<1>10. Pool!inward_frames(r) \subseteq Pool!outward_frames(r)
  <2> DEFINE w == (s + F - 1) \div F
             x == s \div F
             y == e \div F
             z == (e + F - 1) \div F
  <2>1. w \in Int /\ x \in Int /\ y \in Int /\ z \in Int /\ x <= w /\ y <= z
    BY <1>8, <1>9, Zenon
  <2>2. /\ Pool!inward_frames(r) = {n \in Pool!Frames : w <= n /\ n < y}
        /\ Pool!outward_frames(r) = {n \in Pool!Frames : x <= n /\ n < z}
    BY <1>4, <1>5, Zenon
  <2> HIDE DEF w, x, y, z
  <2> QED
    BY <1>6, <2>1, <2>2
<1>11. ASSUME NEW t \in Nat, t % F = 0 PROVE (t + F - 1) \div F = t \div F
  <2>1. t \div F \in Int /\ t = F * (t \div F) + (t % F)
    BY <1>1, DivMod
  <2> DEFINE q == t \div F
  <2>2. q \in Int /\ t = F * q
    BY <1>1, <1>11, <2>1
  <2> HIDE DEF q
  <2>3. F - 1 \in 0 .. F - 1 /\ F * q + (F - 1) = t + F - 1
    BY <1>1, <2>2
  <2>4. (F * q + (F - 1)) \div F = q
    BY <1>1, <2>2, <2>3, DivUnique, Zenon
  <2>5. (t + F - 1) \div F = q
    BY <2>3, <2>4, Zenon
  <2> QED
    BY <2>5, Zenon DEF q
<1>12. ASSUME s % F = 0 PROVE Pool!outward_frames(r) \subseteq Pool!inward_frames(r)
  <2>1. (s + F - 1) \div F = s \div F
    BY <1>1, <1>11, <1>12, Zenon
  <2>2. CASE e = s + r.pages * F
    <3>1. e % F = 0
      <4>1. s + F * r.pages = e /\ s \in Int /\ r.pages \in Int
        BY <1>1, <1>3, <2>2
      <4>2. (s + F * r.pages) % F = s % F
        BY <1>1, <4>1, ModShift, Zenon
      <4> QED
        BY <1>12, <4>1, <4>2, Zenon
    <3>2. (e + F - 1) \div F = e \div F
      BY <1>1, <1>11, <3>1, Zenon
    <3> QED
      BY <1>4, <1>5, <2>1, <3>2, Zenon
  <2>3. CASE e = ADDRESS_MAX
    <3>1. F * N + 0 = F * N /\ F * N \in Int /\ 0 \in 0 .. F - 1 /\ N \in Int
      BY <1>1
    <3>2. (F * N + 0) \div F = N
      BY <1>1, <3>1, DivUnique, Zenon
    <3>3. (F * N) \div F = N
      BY <3>1, <3>2, Zenon
    <3>4. F * N <= e
      BY <1>1, <2>3, Zenon
    <3>5. (F * N) \div F <= e \div F
      BY <1>1, <1>7, <3>1, <3>4, DivMonotone, Zenon
    <3>6. N <= e \div F
      BY <3>3, <3>5, Zenon
    <3> DEFINE y == e \div F
    <3>7. y \in Int /\ N <= y /\ Pool!inward_frames(r) = {n \in Pool!Frames : s \div F <= n /\ n < y}
      BY <1>4, <1>8, <2>1, <3>6, Zenon
    <3> HIDE DEF y
    <3>8. \A n \in Pool!Frames : n < y
      BY <1>1, <1>6, <3>7
    <3> QED
      BY <1>5, <3>7, <3>8, Zenon
  <2> QED
    BY <1>2, <2>2, <2>3, Zenon
<1>13. s % F = 0 => Pool!outward_frames(r) \subseteq Pool!inward_frames(r)
  BY <1>12, Zenon
<1> QED
  BY <1>10, <1>13, Zenon DEF s, F

------------------------------------------------------------------------------
(* Which frames are managed *)

\* Every region of a map the firmware may hand over is one `new` can read.
LEMMA RegionsOfMap ==
  ASSUME Pool!PoolAssumption, NEW map \in Maps, NEW r \in map
  PROVE  r \in Regions
BY Zenon DEF Pool!PoolAssumption, Regions

\* Being managed depends on the map and on what was reclaimed.
LEMMA ManagedSame ==
  ASSUME NEW b, NEW c, b.map = c.map, b.reclaimed = c.reclaimed, NEW n
  PROVE  Pool!manages(b, n) <=> Pool!manages(c, n)
BY Zenon DEF Pool!manages, Pool!allocatable

\* Reclaiming boot-services memory takes no frame out of the pool.
LEMMA ReclaimingAdds ==
  ASSUME NEW b, NEW c, b.map = c.map, ~b.reclaimed, c.reclaimed, NEW n, Pool!manages(b, n)
  PROVE  Pool!manages(c, n)
BY Zenon DEF Pool!manages, Pool!allocatable

\* No frame managed before is inside a boot-services region.
LEMMA ManagedIsNotBoot ==
  ASSUME Pool!PoolAssumption, NEW b, b.map \in Maps, ~b.reclaimed, NEW n, Pool!manages(b, n),
         NEW r \in b.map, r.kind = "BootServices"
  PROVE  n \notin Pool!inward_frames(r)
<1>1. r \in Regions
  BY RegionsOfMap, Zenon
<1>2. ~Pool!allocatable(b, r.kind)
  BY Zenon DEF Pool!allocatable
<1>3. n \notin Pool!outward_frames(r)
  BY <1>2, Zenon DEF Pool!manages
<1> QED
  BY <1>1, <1>3, InsideIsTouched, Zenon

\* In an aligned map, a frame managed once boot-services memory is reclaimed
\* and inside no such region was managed before.
LEMMA NotBootWasManaged ==
  ASSUME Pool!PoolAssumption, NEW b, NEW c, b.map \in Maps, b.map = c.map, ~b.reclaimed, c.reclaimed,
         NEW n, Pool!manages(c, n), \A r \in b.map : r.start % FRAME_SIZE = 0,
         \A r \in b.map : r.kind = "BootServices" => n \notin Pool!inward_frames(r)
  PROVE  Pool!manages(b, n)
<1>1. PICK r \in b.map : Pool!allocatable(c, r.kind) /\ n \in Pool!inward_frames(r)
  BY Zenon DEF Pool!manages
<1>2. r.kind = "Usable"
  BY <1>1, Zenon DEF Pool!allocatable
<1>3. ASSUME NEW q \in b.map, ~Pool!allocatable(b, q.kind) PROVE n \notin Pool!outward_frames(q)
  <2>1. q \in Regions
    BY RegionsOfMap, Zenon
  <2>2. CASE q.kind = "BootServices"
    <3>1. Pool!inward_frames(q) = Pool!outward_frames(q)
      BY <2>1, InsideIsTouched, Zenon
    <3> QED
      BY <2>2, <3>1, Zenon
  <2>3. CASE q.kind # "BootServices"
    <3>1. ~Pool!allocatable(c, q.kind)
      BY <1>3, <2>3, Zenon DEF Pool!allocatable
    <3> QED
      BY <3>1, Zenon DEF Pool!manages
  <2> QED
    BY <2>2, <2>3, Zenon
<1>4. n # 0 /\ n \in Pool!Frames
  BY Zenon DEF Pool!manages
<1> QED
  BY <1>1, <1>2, <1>3, <1>4, Zenon DEF Pool!manages, Pool!allocatable

------------------------------------------------------------------------------
(* The steps *)

\* The frame `allocate` finds is clear.
LEMMA AllocateFindsClear ==
  ASSUME Pool!PoolAssumption, a \in Allocators
  PROVE  \/ Pool!allocate(a) = Pool!NoFrame
         \/ /\ Pool!allocate(a) \in Pool!Frames \ a.held
            /\ Pool!allocate(a) \div BITS_PER_WORD \in 0 .. WORDS - 1
<1> DEFINE clear == Pool!Frames \ a.held
<1>1. CASE a.free = 0 \/ clear = {}
  BY <1>1, Zenon DEF Pool!allocate
<1>2. CASE ~(a.free = 0 \/ clear = {})
  <2>1. /\ WORDS \in Nat \ {0} /\ BITS_PER_WORD \in Nat \ {0} /\ a.next_word \in 0 .. WORDS - 1
    BY Zenon DEF Pool!PoolAssumption, Pool!BitmapAssumption, Allocators
  <2>2. ASSUME NEW n \in Pool!Frames PROVE Pool!Distance(a, n) \in Nat
    <3>1. n \in Int
      BY FramesAreFinite
    <3>2. n \div BITS_PER_WORD \in Int /\ n % BITS_PER_WORD \in 0 .. BITS_PER_WORD - 1
      BY <2>1, <3>1, DivMod, Zenon
    <3> DEFINE d == n \div BITS_PER_WORD - a.next_word
    <3>3. d \in Int
      BY <2>1, <3>2
    <3> HIDE DEF d
    <3>4. d % WORDS \in 0 .. WORDS - 1
      BY <2>1, <3>3, DivMod, Zenon
    <3>5. Pool!Distance(a, n) = (d % WORDS) * BITS_PER_WORD + (n % BITS_PER_WORD)
      BY Zenon DEF Pool!Distance, d
    <3> DEFINE x == d % WORDS
               y == n % BITS_PER_WORD
    <3>6. x \in Nat /\ y \in Nat
      BY <2>1, <3>2, <3>4
    <3>7. Pool!Distance(a, n) = x * BITS_PER_WORD + y
      BY <3>5, Zenon
    <3> HIDE DEF x, y
    <3> QED
      BY <2>1, <3>6, <3>7
  <2> DEFINE T == {Pool!Distance(a, n) : n \in clear}
  <2>3. T \in SUBSET Nat /\ T # {}
    BY <1>2, <2>2, Zenon
  <2>4. PICK x \in T : \A y \in T : x <= y
    BY <2>3, LeastNatural, Zenon
  <2>5. \E n \in clear : \A m \in clear : Pool!Distance(a, n) <= Pool!Distance(a, m)
    BY <2>4, Zenon
  <2>6. Pool!allocate(a) =
          CHOOSE n \in clear : \A m \in clear : Pool!Distance(a, n) <= Pool!Distance(a, m)
    BY <1>2, Zenon DEF Pool!allocate
  <2>7. Pool!allocate(a) \in clear
    BY <2>5, <2>6, Zenon
  <2>8. Pool!allocate(a) \in 0 .. WORDS * BITS_PER_WORD - 1
    BY <2>7, Zenon DEF Pool!Frames
  <2>9. Pool!allocate(a) \div BITS_PER_WORD \in 0 .. WORDS - 1
    BY <2>1, <2>8, DivBelow, Zenon
  <2> QED
    BY <2>7, <2>9, Zenon
<1> QED
  BY <1>1, <1>2, Zenon

\* Aligned, before and after a step that leaves the map.
LEMMA AlignedSame ==
  ASSUME a'.map = a.map
  PROVE  Pool!Aligned' <=> Pool!Aligned
BY Zenon DEF Pool!Aligned

\* `new` leaves an allocator whose count is the number of clear bits.
LEMMA InitIsSound ==
  ASSUME Pool!PoolAssumption
  PROVE  Pool!Init => PoolInv
<1> SUFFICES ASSUME Pool!Init PROVE PoolInv
  BY Zenon
<1>1. PICK map \in Maps : a = Pool!new(map)
  BY Zenon DEF Pool!Init
<1> DEFINE usable == UNION {Pool!inward_frames(r) : r \in {q \in map : q.kind = "Usable"}}
           withheld == UNION {Pool!outward_frames(r) : r \in {q \in map : q.kind # "Usable"}}
           clear == usable \ (withheld \cup {0})
<1>2. a = [map |-> map, held |-> Pool!Frames \ clear, free |-> Cardinality(clear),
           next_word |-> 0, reclaimed |-> FALSE, tracking |-> FALSE,
           purposes |-> [n \in Pool!Frames |-> Pool!NoPurpose]]
  BY <1>1, SameCount, Zenon DEF Pool!new
<1>3. usable \subseteq Pool!Frames
  BY Zenon DEF Pool!inward_frames
<1>4. clear \subseteq Pool!Frames /\ IsFiniteSet(clear) /\ Cardinality(clear) \in Nat
  BY <1>3, FramesAreFinite, FS_Subset, FS_CardinalityType, Zenon
<1>5. \A n \in Pool!Frames : n \in clear <=> Pool!manages(a, n)
  <2> TAKE n \in Pool!Frames
  <2>1. a.map = map /\ ~a.reclaimed
    BY <1>2, Zenon
  <2>2. \A kind : Pool!allocatable(a, kind) <=> kind = "Usable"
    BY <2>1, Zenon DEF Pool!allocatable
  <2>3. n \in usable <=> \E r \in map : r.kind = "Usable" /\ n \in Pool!inward_frames(r)
    BY Zenon
  <2>4. n \in withheld <=> \E r \in map : r.kind # "Usable" /\ n \in Pool!outward_frames(r)
    BY Zenon
  <2>5. n \in clear <=> n \in usable /\ n \notin withheld /\ n # 0
    BY Zenon
  <2> HIDE DEF usable, withheld, clear
  <2> QED
    BY <2>1, <2>2, <2>3, <2>4, <2>5, Zenon DEF Pool!manages
<1> HIDE DEF usable, withheld, clear
<1>6. 0 \in 0 .. WORDS - 1
  BY DEF Pool!PoolAssumption, Pool!BitmapAssumption
<1>7. a \in Allocators
  BY <1>2, <1>4, <1>6, Zenon DEF Allocators
<1>8. a.held = Pool!Frames \ clear /\ a.free = Cardinality(clear) /\ ~a.tracking
  BY <1>2, Zenon
<1>9. Pool!Frames \ a.held = clear
  BY <1>4, <1>8, Zenon
<1>10. {n \in a.held : Pool!manages(a, n)} = {}
  BY <1>5, <1>8, Zenon
<1>11. Pool!PoolIsAllowed
  BY <1>5, <1>9, Zenon DEF Pool!PoolIsAllowed
<1>12. Pool!BooksBalance
  BY <1>8, <1>9, <1>10, SameCount, Zenon DEF Pool!BooksBalance, Pool!Init
<1> QED
  BY <1>7, <1>8, <1>11, <1>12, Zenon DEF PoolInv, Pool!LabelsFollowHolders, Pool!Init

\* Writing a purpose down changes nothing else.
LEMMA PurposeOnly ==
  ASSUME NEW b \in Allocators, NEW f \in Pool!Frames, NEW p \in Pool!Purposes \cup {Pool!NoPurpose}
  PROVE  LET c == Pool!set_purpose(b, f, p) IN
         /\ c \in Allocators
         /\ c.map = b.map /\ c.held = b.held /\ c.free = b.free /\ c.next_word = b.next_word
         /\ c.reclaimed = b.reclaimed /\ c.tracking = b.tracking
         /\ b.tracking => \A n \in Pool!Frames : c.purposes[n] = IF n = f THEN p ELSE b.purposes[n]
<1>1. CASE b.tracking
  <2> DEFINE q == [b.purposes EXCEPT ![f] = p]
  <2>1. q \in [Pool!Frames -> Pool!Purposes \cup {Pool!NoPurpose}]
        /\ \A n \in Pool!Frames : q[n] = IF n = f THEN p ELSE b.purposes[n]
    BY Zenon DEF Allocators
  <2>2. Pool!set_purpose(b, f, p) = [b EXCEPT !.purposes = q]
    BY <1>1, Zenon DEF Pool!set_purpose
  <2> HIDE DEF q
  <2> QED
    BY <2>1, <2>2, Zenon DEF Allocators
<1>2. CASE ~b.tracking
  BY <1>2, Zenon DEF Pool!set_purpose
<1> QED
  BY <1>1, <1>2, Zenon

\* A frame nobody holds has no purpose a caller could name.
LEMMA NoPurposeIsNone == Pool!NoPurpose \notin Pool!Purposes
BY Zenon DEF Pool!NoPurpose, Pool!Purposes

\* `allocate_for`: a clear bit is set, counted and given its purpose.
LEMMA AllocateKeepsInv ==
  ASSUME Pool!PoolAssumption, PoolInv, NEW purpose \in Uses, Pool!AllocateFor(purpose)
  PROVE  PoolInv'
<1> DEFINE f == Pool!allocate(a)
           w == f \div BITS_PER_WORD
<1>1. a' = Pool!HandOut(a, f, w, purpose) /\ out' = out \cup ({f} \ {Pool!NoFrame})
  BY Zenon DEF Pool!AllocateFor, Pool!allocate_for
<1>2. f = Pool!NoFrame \/ (f \in Pool!Frames \ a.held /\ w \in 0 .. WORDS - 1)
  BY AllocateFindsClear, Zenon DEF PoolInv
<1>3. purpose \in Pool!Purposes /\ purpose # Pool!NoPurpose
  BY NoPurposeIsNone, Zenon DEF Pool!PoolAssumption
<1> HIDE DEF f, w
<1>4. CASE f = Pool!NoFrame
  <2>1. a' = a /\ out' = out
    BY <1>1, <1>4, Zenon DEF Pool!HandOut
  <2> QED
    BY <2>1, Zenon
    DEF PoolInv, Pool!PoolIsAllowed, Pool!BooksBalance, Pool!LabelsFollowHolders, Pool!Aligned,
        Pool!manages, Pool!allocatable
<1>5. CASE f # Pool!NoFrame
  <2> DEFINE b == [a EXCEPT !.held = @ \cup {f}, !.free = @ - 1, !.next_word = w]
  <2>1. f \in Pool!Frames /\ f \notin a.held /\ w \in 0 .. WORDS - 1 /\ out' = out \cup {f}
    BY <1>1, <1>2, <1>5, Zenon
  <2>2. a.free = Cardinality(Pool!Frames \ a.held) /\ a \in Allocators
    BY SameCount, Zenon DEF PoolInv, Pool!BooksBalance
  <2>3. /\ IsFiniteSet(Pool!Frames \ a.held)
        /\ Cardinality((Pool!Frames \ a.held) \ {f}) = a.free - 1
        /\ Cardinality((Pool!Frames \ a.held) \ {f}) \in Nat
    <3>1. IsFiniteSet(Pool!Frames \ a.held)
      BY FramesAreFinite, FS_Subset, Zenon
    <3> QED
      BY <2>1, <2>2, <3>1, FS_RemoveElement, FS_CardinalityType, Zenon
  <2> DEFINE h == a.held \cup {f}
             k == a.free - 1
  <2>4. h \in SUBSET Pool!Frames /\ k \in Nat /\ Pool!Frames \ h = (Pool!Frames \ a.held) \ {f}
    BY <2>1, <2>2, <2>3, Zenon DEF Allocators
  <2>5. b = [a EXCEPT !.held = h, !.free = k, !.next_word = w]
    BY Zenon
  <2> HIDE DEF h, k
  <2>6. /\ b \in Allocators /\ b.map = a.map /\ b.held = h /\ b.free = k
        /\ b.reclaimed = a.reclaimed /\ b.tracking = a.tracking /\ b.purposes = a.purposes
    BY <2>1, <2>2, <2>4, <2>5, Zenon DEF Allocators
  <2>7. a' = Pool!set_purpose(b, f, purpose)
    BY <1>1, <1>5, Zenon DEF Pool!HandOut
  <2> HIDE DEF b
  <2>8. /\ a' \in Allocators /\ a'.map = a.map /\ a'.held = h /\ a'.free = k
        /\ a'.reclaimed = a.reclaimed /\ a'.tracking = a.tracking
        /\ a.tracking => \A n \in Pool!Frames :
             a'.purposes[n] = IF n = f THEN purpose ELSE a.purposes[n]
    BY <1>3, <2>1, <2>6, <2>7, PurposeOnly
  <2>9. \A n : Pool!manages(a', n) <=> Pool!manages(a, n)
    BY <2>8, ManagedSame, Zenon
  <2>10. h = a.held \cup {f} /\ a'.free = Cardinality(Pool!Frames \ h) /\ Pool!manages(a, f)
    BY <2>1, <2>2, <2>3, <2>4, <2>8, Zenon DEF h, k, PoolInv, Pool!PoolIsAllowed
  <2>11. Pool!PoolIsAllowed'
    BY <2>8, <2>9, <2>10, Zenon DEF PoolInv, Pool!PoolIsAllowed
  <2>12. Pool!Aligned' <=> Pool!Aligned
    BY <2>8, AlignedSame, Zenon
  <2>13. {n \in a'.held : Pool!manages(a', n)} = {n \in a.held : Pool!manages(a, n)} \cup {f}
    BY <2>8, <2>9, <2>10, Zenon
  <2>14. Pool!BooksBalance'
    BY <2>1, <2>8, <2>10, <2>12, <2>13, SameCount, Zenon DEF PoolInv, Pool!BooksBalance
  <2>15. a.tracking => {n \in Pool!Frames : a'.purposes[n] # Pool!NoPurpose}
                       = {n \in Pool!Frames : a.purposes[n] # Pool!NoPurpose} \cup {f}
    BY <1>3, <2>1, <2>8, Zenon
  <2>16. Pool!LabelsFollowHolders'
    BY <2>1, <2>8, <2>12, <2>15, Zenon DEF PoolInv, Pool!LabelsFollowHolders
  <2> QED
    BY <2>1, <2>8, <2>11, <2>14, <2>16, Zenon DEF PoolInv
<1> QED
  BY <1>4, <1>5, Zenon

\* `deallocate_as`: only a frame that is out, for that purpose, comes back.
LEMMA DeallocateKeepsInv ==
  ASSUME Pool!PoolAssumption, PoolInv, NEW f \in Pool!Frames, NEW purpose \in Uses,
         Pool!DeallocateAs(f, purpose)
  PROVE  PoolInv'
<1>1. CASE ~Pool!MayGiveBack(a, f, purpose)
  <2>1. a' = a /\ out' = out
    BY <1>1, Zenon DEF Pool!DeallocateAs, Pool!deallocate_as
  <2> QED
    BY <2>1, Zenon
    DEF PoolInv, Pool!PoolIsAllowed, Pool!BooksBalance, Pool!LabelsFollowHolders, Pool!Aligned,
        Pool!manages, Pool!allocatable
<1>2. CASE Pool!MayGiveBack(a, f, purpose)
  <2> DEFINE h == a.held \ {f}
             k == a.free + 1
             b == [a EXCEPT !.held = h, !.free = k]
  <2>1. Pool!manages(a, f) /\ f \in a.held /\ out' = out \ {f}
    BY <1>2, Zenon DEF Pool!MayGiveBack, Pool!DeallocateAs
  <2>2. a.free = Cardinality(Pool!Frames \ a.held) /\ a \in Allocators
    BY SameCount, Zenon DEF PoolInv, Pool!BooksBalance
  <2>3. Cardinality((Pool!Frames \ a.held) \cup {f}) = a.free + 1 /\ a.free \in Nat
    <3>1. IsFiniteSet(Pool!Frames \ a.held)
      BY FramesAreFinite, FS_Subset, Zenon
    <3>2. f \notin Pool!Frames \ a.held
      BY <2>1, Zenon
    <3>3. Cardinality((Pool!Frames \ a.held) \cup {f}) = Cardinality(Pool!Frames \ a.held) + 1
      BY <3>1, <3>2, FS_AddElement, Zenon
    <3> QED
      BY <2>2, <3>1, <3>3, FS_CardinalityType, Zenon
  <2>4. h \in SUBSET Pool!Frames /\ k \in Nat /\ Pool!Frames \ h = (Pool!Frames \ a.held) \cup {f}
    BY <2>1, <2>2, <2>3 DEF Allocators
  <2>5. a' = Pool!set_purpose(b, f, Pool!NoPurpose)
    BY <1>2, Zenon DEF Pool!DeallocateAs, Pool!deallocate_as
  <2>6. h = a.held \ {f} /\ k = Cardinality(Pool!Frames \ h)
    BY <2>3, <2>4, Zenon
  <2> HIDE DEF h, k
  <2>7. /\ b \in Allocators /\ b.map = a.map /\ b.held = h /\ b.free = k
        /\ b.reclaimed = a.reclaimed /\ b.tracking = a.tracking /\ b.purposes = a.purposes
    BY <2>2, <2>4, Zenon DEF Allocators
  <2> HIDE DEF b
  <2>8. /\ a' \in Allocators /\ a'.map = a.map /\ a'.held = h /\ a'.free = k
        /\ a'.reclaimed = a.reclaimed /\ a'.tracking = a.tracking
        /\ a.tracking => \A n \in Pool!Frames :
             a'.purposes[n] = IF n = f THEN Pool!NoPurpose ELSE a.purposes[n]
    BY <2>5, <2>7, PurposeOnly
  <2>9. \A n : Pool!manages(a', n) <=> Pool!manages(a, n)
    BY <2>8, ManagedSame, Zenon
  <2>10. Pool!PoolIsAllowed'
    BY <2>1, <2>4, <2>8, <2>9, Zenon DEF PoolInv, Pool!PoolIsAllowed
  <2>11. Pool!Aligned' <=> Pool!Aligned
    BY <2>8, AlignedSame, Zenon
  <2>12. {n \in a'.held : Pool!manages(a', n)} = {n \in a.held : Pool!manages(a, n)} \ {f}
    BY <2>6, <2>8, <2>9, Zenon
  <2>13. Pool!BooksBalance'
    BY <2>1, <2>6, <2>8, <2>11, <2>12, SameCount, Zenon DEF PoolInv, Pool!BooksBalance
  <2>14. a.tracking => {n \in Pool!Frames : a'.purposes[n] # Pool!NoPurpose}
                       = {n \in Pool!Frames : a.purposes[n] # Pool!NoPurpose} \ {f}
    BY <2>8, Zenon
  <2>15. Pool!LabelsFollowHolders'
    BY <2>1, <2>8, <2>11, <2>14, Zenon DEF PoolInv, Pool!LabelsFollowHolders
  <2> QED
    BY <2>1, <2>8, <2>10, <2>13, <2>15, Zenon DEF PoolInv
<1> QED
  BY <1>1, <1>2, Zenon

\* `label` changes what a frame that is out is said to be for, and no bit.
LEMMA LabelKeepsInv ==
  ASSUME Pool!PoolAssumption, PoolInv, NEW f \in Pool!Frames, NEW purpose \in Uses,
         Pool!Label(f, purpose)
  PROVE  PoolInv'
<1>1. CASE ~(Pool!manages(a, f) /\ f \in a.held)
  <2>1. a' = a /\ out' = out
    BY <1>1, Zenon DEF Pool!Label, Pool!label
  <2> QED
    BY <2>1, Zenon
    DEF PoolInv, Pool!PoolIsAllowed, Pool!BooksBalance, Pool!LabelsFollowHolders, Pool!Aligned,
        Pool!manages, Pool!allocatable
<1>2. CASE Pool!manages(a, f) /\ f \in a.held
  <2>1. a' = Pool!set_purpose(a, f, purpose) /\ out' = out
    BY <1>2, Zenon DEF Pool!Label, Pool!label
  <2>2. purpose \in Pool!Purposes /\ purpose # Pool!NoPurpose /\ a \in Allocators
    BY NoPurposeIsNone, Zenon DEF Pool!PoolAssumption, PoolInv
  <2>3. /\ a' \in Allocators /\ a'.map = a.map /\ a'.held = a.held /\ a'.free = a.free
        /\ a'.reclaimed = a.reclaimed /\ a'.tracking = a.tracking
        /\ a.tracking => \A n \in Pool!Frames :
             a'.purposes[n] = IF n = f THEN purpose ELSE a.purposes[n]
    BY <2>1, <2>2, PurposeOnly
  <2>4. \A n : Pool!manages(a', n) <=> Pool!manages(a, n)
    BY <2>3, ManagedSame, Zenon
  <2>5. Pool!Aligned' <=> Pool!Aligned
    BY <2>3, AlignedSame, Zenon
  <2>6. Pool!PoolIsAllowed' /\ Pool!BooksBalance'
    BY <2>1, <2>3, <2>4, <2>5, SameCount, Zenon DEF PoolInv, Pool!PoolIsAllowed, Pool!BooksBalance
  <2>7. a.tracking => {n \in Pool!Frames : a'.purposes[n] # Pool!NoPurpose}
                      = {n \in Pool!Frames : a.purposes[n] # Pool!NoPurpose} \cup {f}
    BY <2>2, <2>3, Zenon
  <2>8. Pool!Aligned => f \in out
    BY <1>2, SameCount, Zenon DEF PoolInv, Pool!BooksBalance
  <2>9. Pool!LabelsFollowHolders'
    BY <2>1, <2>3, <2>5, <2>7, <2>8, Zenon DEF PoolInv, Pool!LabelsFollowHolders
  <2> QED
    BY <2>1, <2>3, <2>6, <2>9, Zenon DEF PoolInv
<1> QED
  BY <1>1, <1>2, Zenon

\* `with_purposes` starts the books over the same bitmap.
LEMMA MoveKeepsInv ==
  ASSUME Pool!PoolAssumption, PoolInv, Pool!MoveOffFirmwareMemory
  PROVE  PoolInv'
<1> DEFINE p == [n \in Pool!Frames |->
                   IF n \in a.held /\ Pool!manages(a, n) THEN "Boot" ELSE Pool!NoPurpose]
           k == Cardinality(Pool!Frames \ a.held)
<1>1. a' = [a EXCEPT !.next_word = 0, !.tracking = TRUE, !.free = k, !.purposes = p] /\ out' = out
  BY SameCount, Zenon DEF Pool!MoveOffFirmwareMemory, Pool!with_purposes
<1>2. p \in [Pool!Frames -> Pool!Purposes \cup {Pool!NoPurpose}]
  BY Zenon DEF Pool!Purposes
<1>3. k \in Nat /\ 0 \in 0 .. WORDS - 1 /\ a \in Allocators
  <2>1. IsFiniteSet(Pool!Frames \ a.held)
    BY FramesAreFinite, FS_Subset, Zenon
  <2> QED
    BY <2>1, FS_CardinalityType DEF Pool!PoolAssumption, Pool!BitmapAssumption, PoolInv
<1>4. \A n \in Pool!Frames : p[n] # Pool!NoPurpose <=> n \in a.held /\ Pool!manages(a, n)
  BY Zenon DEF Pool!NoPurpose
<1>5. k = Cardinality(Pool!Frames \ a.held)
  BY Zenon
<1> HIDE DEF p, k
<1>6. /\ a' \in Allocators /\ a'.map = a.map /\ a'.held = a.held /\ a'.free = k
      /\ a'.reclaimed = a.reclaimed /\ a'.purposes = p
  BY <1>1, <1>2, <1>3, Zenon DEF Allocators
<1>7. \A n : Pool!manages(a', n) <=> Pool!manages(a, n)
  BY <1>6, ManagedSame, Zenon
<1>8. Pool!Aligned' <=> Pool!Aligned
  BY <1>6, AlignedSame, Zenon
<1>9. Pool!PoolIsAllowed' /\ Pool!BooksBalance'
  BY <1>1, <1>5, <1>6, <1>7, <1>8, SameCount, Zenon DEF PoolInv, Pool!PoolIsAllowed, Pool!BooksBalance
<1>10. {n \in Pool!Frames : a'.purposes[n] # Pool!NoPurpose} = {n \in a.held : Pool!manages(a, n)}
  BY <1>3, <1>4, <1>6, Zenon DEF Allocators
<1>11. Pool!LabelsFollowHolders'
  BY <1>1, <1>8, <1>10, SameCount, Zenon DEF PoolInv, Pool!BooksBalance, Pool!LabelsFollowHolders
<1> QED
  BY <1>1, <1>6, <1>9, <1>11, Zenon DEF PoolInv

\* `reclaim_boot_services` clears only bits of memory the map gives up, and
\* counts each of them once.
LEMMA ReclaimKeepsInv ==
  ASSUME Pool!PoolAssumption, PoolInv, Pool!ReclaimBootServices
  PROVE  PoolInv'
<1>1. CASE a.reclaimed
  <2>1. a' = a /\ out' = out
    BY <1>1, SameCount, Zenon DEF Pool!ReclaimBootServices, Pool!reclaim_boot_services
  <2> QED
    BY <2>1, Zenon
    DEF PoolInv, Pool!PoolIsAllowed, Pool!BooksBalance, Pool!LabelsFollowHolders, Pool!Aligned,
        Pool!manages, Pool!allocatable
<1>2. CASE ~a.reclaimed
  <2> DEFINE now == [a EXCEPT !.reclaimed = TRUE]
             all == UNION {Pool!inward_frames(r) : r \in {q \in a.map : q.kind = "BootServices"}}
             added == {n \in all : Pool!manages(now, n) /\ n \in a.held}
             h == a.held \ added
             k == a.free + Cardinality(added)
  <2>1. a' = [now EXCEPT !.held = h, !.free = k] /\ out' = out
    BY <1>2, SameCount, Zenon
    DEF Pool!ReclaimBootServices, Pool!reclaim_boot_services, PoolInv, Allocators
  <2>2. a \in Allocators /\ a.map \in Maps /\ a.held \subseteq Pool!Frames
        /\ a.free = Cardinality(Pool!Frames \ a.held)
    BY SameCount, Zenon DEF PoolInv, Pool!BooksBalance, Allocators
  <2>3. now \in Allocators /\ now.map = a.map /\ now.reclaimed /\ now.tracking = a.tracking
        /\ now.purposes = a.purposes /\ now.held = a.held
    BY <2>2, Zenon DEF Allocators
  <2>4. \A n : n \in all <=> \E r \in a.map : r.kind = "BootServices" /\ n \in Pool!inward_frames(r)
    BY Zenon
  <2> HIDE DEF now, all
  <2>5. added \subseteq a.held /\ \A n \in added : Pool!manages(now, n)
    BY Zenon
  <2>6. k \in Nat /\ k = Cardinality((Pool!Frames \ a.held) \cup added)
    <3>1. IsFiniteSet(Pool!Frames \ a.held) /\ IsFiniteSet(added)
      BY <2>2, <2>5, FramesAreFinite, FS_Subset, Zenon
    <3>2. (Pool!Frames \ a.held) \cap added = {}
      BY <2>5, Zenon
    <3>3. Cardinality((Pool!Frames \ a.held) \cup added)
            = Cardinality(Pool!Frames \ a.held) + Cardinality(added)
                - Cardinality((Pool!Frames \ a.held) \cap added)
      BY <3>1, FS_Union, Zenon
    <3>4. Cardinality((Pool!Frames \ a.held) \cap added) = 0
      BY <3>2, FS_EmptySet, Zenon
    <3>5. Cardinality(Pool!Frames \ a.held) \in Nat /\ Cardinality(added) \in Nat
      BY <3>1, FS_CardinalityType, Zenon
    <3> QED
      BY <2>2, <3>3, <3>4, <3>5
  <2>7. h \in SUBSET Pool!Frames /\ Pool!Frames \ h = (Pool!Frames \ a.held) \cup added
    BY <2>2, <2>5, Zenon
  <2>8. \A n : n \in h <=> n \in a.held /\ n \notin added
    BY Zenon
  <2>9. \A n : n \in added <=> n \in all /\ Pool!manages(now, n) /\ n \in a.held
    BY Zenon
  <2> HIDE DEF added, h, k
  <2>10. /\ a' \in Allocators /\ a'.map = a.map /\ a'.held = h /\ a'.free = k /\ a'.reclaimed
         /\ a'.tracking = a.tracking /\ a'.purposes = a.purposes
    BY <2>1, <2>3, <2>6, <2>7, Zenon DEF Allocators
  <2>11. \A n : Pool!manages(a', n) <=> Pool!manages(now, n)
    <3>1. a'.reclaimed = now.reclaimed
      BY <2>3, <2>10, Zenon DEF Allocators
    <3> QED
      BY <2>3, <2>10, <3>1, ManagedSame, Zenon
  <2>12. \A n : Pool!manages(a, n) => Pool!manages(a', n)
    BY <1>2, <2>10, ReclaimingAdds, Zenon
  <2>13. \A n : Pool!manages(a, n) => n \notin all
    BY <1>2, <2>2, <2>4, ManagedIsNotBoot, Zenon
  <2>14. Pool!PoolIsAllowed'
    <3>1. \A n \in Pool!Frames \ a.held : Pool!manages(a, n)
      BY Zenon DEF PoolInv, Pool!PoolIsAllowed
    <3> QED
      BY <2>5, <2>7, <2>10, <2>11, <2>12, <3>1, Zenon DEF Pool!PoolIsAllowed
  <2>15. Pool!Aligned' <=> Pool!Aligned
    BY <2>10, AlignedSame, Zenon
  <2>16. \A n \in a.held : Pool!manages(a, n) => n \in h /\ Pool!manages(a', n)
    BY <2>8, <2>9, <2>12, <2>13, Zenon
  <2>17. ASSUME Pool!Aligned, NEW n \in h, Pool!manages(a', n) PROVE n \in a.held /\ Pool!manages(a, n)
    <3>1. n \in a.held /\ n \notin all
      BY <2>8, <2>9, <2>11, <2>17, Zenon
    <3>2. \A r \in a.map : r.kind = "BootServices" => n \notin Pool!inward_frames(r)
      BY <2>4, <3>1, Zenon
    <3>3. \A r \in a.map : r.start % FRAME_SIZE = 0
      BY <2>17, Zenon DEF Pool!Aligned
    <3> QED
      BY <1>2, <2>2, <2>10, <2>17, <3>1, <3>2, <3>3, NotBootWasManaged, Zenon
  <2>18. Pool!BooksBalance'
    <3>1. {n \in a.held : Pool!manages(a, n)} \subseteq {n \in a'.held : Pool!manages(a', n)}
      BY <2>10, <2>16, Zenon
    <3>2. Pool!Aligned => {n \in a.held : Pool!manages(a, n)} = {n \in a'.held : Pool!manages(a', n)}
      BY <2>10, <2>16, <2>17, Zenon
    <3>3. a'.free = Cardinality(Pool!Frames \ a'.held)
      BY <2>6, <2>7, <2>10, Zenon
    <3> QED
      BY <2>1, <2>15, <3>1, <3>2, <3>3, SameCount, Zenon DEF PoolInv, Pool!BooksBalance
  <2>19. Pool!LabelsFollowHolders'
    BY <2>1, <2>10, <2>15, Zenon DEF PoolInv, Pool!LabelsFollowHolders
  <2> QED
    BY <2>1, <2>10, <2>14, <2>18, <2>19, Zenon DEF PoolInv
<1> QED
  BY <1>1, <1>2, Zenon

------------------------------------------------------------------------------
(* The theorem *)

\* Every call of the allocator keeps the invariant.
LEMMA InvStep ==
  ASSUME Pool!PoolAssumption
  PROVE  PoolInv /\ [Pool!Next]_(Pool!vars) => PoolInv'
<1> SUFFICES ASSUME PoolInv, [Pool!Next]_(Pool!vars) PROVE PoolInv'
  BY Zenon
<1>1. CASE Pool!Next
  BY <1>1, AllocateKeepsInv, DeallocateKeepsInv, LabelKeepsInv, MoveKeepsInv, ReclaimKeepsInv, Zenon
  DEF Pool!Next
<1>2. CASE UNCHANGED Pool!vars
  <2>1. a' = a /\ out' = out
    BY <1>2, Zenon DEF Pool!vars
  <2> QED
    BY <2>1, Zenon
    DEF PoolInv, Pool!PoolIsAllowed, Pool!BooksBalance, Pool!LabelsFollowHolders, Pool!Aligned,
        Pool!manages, Pool!allocatable
<1> QED
  BY <1>1, <1>2, Zenon

\* The invariant gives the property.
LEMMA InvIsSound ==
  ASSUME Pool!PoolAssumption
  PROVE  PoolInv => Pool!PoolIsSound
<1> SUFFICES ASSUME PoolInv PROVE Pool!PoolIsSound
  BY Zenon
<1>1. a.free = Cardinality(Pool!Frames \ a.held) /\ a \in Allocators
  BY SameCount, Zenon DEF PoolInv, Pool!BooksBalance
<1>2. a.free \in 0 .. Cardinality(Pool!Frames)
  <2>1. /\ IsFiniteSet(Pool!Frames) /\ Pool!Frames \ a.held \in SUBSET Pool!Frames
        /\ Cardinality(Pool!Frames) \in Nat
    BY FramesAreFinite, Zenon
  <2>2. Cardinality(Pool!Frames \ a.held) <= Cardinality(Pool!Frames)
    BY <2>1, FS_Subset, Zenon
  <2>3. a.free \in Nat
    BY <1>1, Zenon DEF Allocators
  <2> QED
    BY <1>1, <2>1, <2>2, <2>3
<1>3. Pool!TypeOK
  BY <1>1, <1>2, SameCount, Zenon DEF PoolInv, Allocators, Pool!TypeOK
<1> QED
  BY <1>3, Zenon DEF PoolInv, Pool!PoolIsSound

\* Over any memory map and every sequence of calls, only memory the map lets
\* the kernel use is in the pool, the count and the frames handed out agree
\* with the bits, and the purposes with the holders, also when the bitmap
\* moves and when boot-services memory is reclaimed (frame_allocator.rs).
THEOREM ThePoolIsSound ==
  ASSUME Pool!PoolAssumption
  PROVE  Pool!Spec => []Pool!PoolIsSound
<1>1. Pool!Init => PoolInv
  BY InitIsSound, Zenon
<1>2. PoolInv /\ [Pool!Next]_(Pool!vars) => PoolInv'
  BY InvStep, Zenon
<1>3. PoolInv => Pool!PoolIsSound
  BY InvIsSound, Zenon
<1> QED
  BY <1>1, <1>2, <1>3, PTL DEF Pool!Spec
=============================================================================
