---------------------------- MODULE Fat32Proofs ----------------------------
(***************************************************************************)
(* Proofs about Fat32, for volumes of any size with any number of tables,  *)
(* slots and names, and writes that stop after any sector.                 *)
(***************************************************************************)
EXTENDS Fat32, NumberFacts

AllNames == Names \cup {SubDir.name}

\* The slots that name a file, and the clusters that are never a file's.
HasFile == {s \in Slots : dir[s].kind = "file"}
Reserved == {root_cluster} \cup {c \in {3} : \E s \in Slots : dir[s] = SubDir}

\* What the table says after the k-th cluster of a chain of n.
Link(c, n, k) == IF k = n THEN End ELSE c[k + 1]

\* The chain c is n clusters, linked in every table from the k-th on.
Linked(c, n, from) ==
  \A t \in Tables : \A k \in from .. n : fat[t][c[k]] = Link(c, n, k)

\* The entry's clusters are the chain c, with all of one write in them.
Whole(entry, c) ==
  /\ c \in [1 .. entry.size -> Clusters]
  /\ entry.first_cluster = IF entry.size = 0 THEN 0 ELSE c[1]
  /\ Linked(c, entry.size, 1)
  /\ \E v \in 1 .. MaxWrites : \A k \in 1 .. entry.size : data[c[k]] = <<v, k>>

\* The volume between any two sectors.
Volume ==
  /\ dir \in [Slots -> {NeverUsed, Deleted, Label, SubDir} \cup Files]
  /\ \A s, t \in Slots : s < t /\ dir[s] = NeverUsed => dir[t] = NeverUsed
  /\ \A s, t \in Slots :
       dir[s].kind \in {"file", "dir"} /\ dir[t].kind \in {"file", "dir"} /\ s # t
         => dir[s].name # dir[t].name
  /\ \A s \in HasFile : Whole(dir[s], ChainOf(s)) /\ ClustersOf(s) \cap Reserved = {}
  /\ \A s, t \in HasFile : s # t => ClustersOf(s) \cap ClustersOf(t) = {}
  /\ \A c \in Reserved : \A t \in Tables : fat[t][c] = End

\* What a write has in its locals, from its first sector to its last.
Locals ==
  pc # "idle" =>
    /\ op.name \in AllNames /\ op.slot \in Slots
    /\ op.chain \in Seq(Clusters) /\ Len(op.chain) <= MAX_FILE_CLUSTERS
    /\ \A j, k \in 1 .. Len(op.chain) : op.chain[j] = op.chain[k] => j = k
    /\ writes > 0 /\ op.contents = Contents(writes, Len(op.chain))
    /\ op.existing \in Clusters \cup {0}
    /\ pc \notin {"chain", "free"} => table = 1

\* Until its entry is written, the slot it looked up is still the one, and
\* its clusters are nobody's.
Aimed ==
  pc \in {"data", "chain", "entry"} =>
    /\ Named(op.name) \cup ForNewEntry # {}
    /\ op.slot = directory_slot(op.name)
    /\ dir[op.slot].kind # "dir"
    /\ op.existing = IF dir[op.slot].kind = "file" THEN dir[op.slot].first_cluster ELSE 0
    /\ NewClusters \cap Reserved = {}
    /\ \A s \in HasFile : ClustersOf(s) \cap NewClusters = {}

\* How much of the new file is on the disk.
Filled(upto) == \A k \in 1 .. upto : data[op.chain[k]] = <<writes, k>>
Chained(upto) ==
  \A t \in Tables : \A k \in 1 .. upto : fat[t][op.chain[k]] = Link(op.chain, Len(op.chain), k)

Progress ==
  /\ pc = "data" => at \in 1 .. Len(op.chain) /\ Filled(at - 1)
  /\ pc = "chain" =>
       /\ at \in 1 .. Len(op.chain) /\ Filled(Len(op.chain)) /\ Chained(at - 1)
       /\ \A t \in 1 .. table - 1 :
            fat[t][op.chain[at]] = Link(op.chain, Len(op.chain), at)
  /\ pc = "entry" => Filled(Len(op.chain)) /\ Chained(Len(op.chain))

\* Clusters whose copies of the table may differ, and whose entry is not
\* that of a file, while no write has stopped.
Touched ==
  IF pc = "chain" THEN {op.chain[at]} ELSE IF pc = "free" THEN {old} ELSE {}
Accounted(mine) ==
  ~stopped =>
    /\ \A c \in Clusters \ Touched : \A t \in Tables : fat[t][c] = fat[1][c]
    /\ \A c \in Clusters : next_cluster(c) \notin {Free, Bad} =>
         \/ c \in Reserved \cup mine
         \/ \E s \in HasFile : c \in ClustersOf(s)

\* What is left of the old chain: n clusters, c, the first of them `old`.
Rest(n, c) ==
  /\ c \in [1 .. n -> Clusters] /\ c[1] = old
  /\ \A j, k \in 1 .. n : c[j] = c[k] => j = k
  /\ \A k \in 1 .. n : /\ c[k] \notin Reserved \cup NewClusters
                       /\ \A s \in HasFile : c[k] \notin ClustersOf(s)
  /\ Linked(c, n, IF pc = "walk" THEN 1 ELSE 2)
  /\ pc = "free" => next = Link(c, n, 1) /\ \A t \in 1 .. table - 1 : fat[t][old] = Free
  /\ Accounted({c[k] : k \in 1 .. n})

OldChain ==
  pc \in {"walk", "free"} =>
    \E n \in 1 .. MAX_FILE_CLUSTERS : \E c \in [1 .. n -> Clusters] : Rest(n, c)

NothingLost ==
  /\ pc \in {"idle", "data", "info"} => Accounted({})
  /\ pc \in {"chain", "entry"} => Accounted(NewClusters)

Hint == answer = "ok" => pc = "idle" /\ fs_info \in {Counted, Foreign}

Inv ==
  /\ TypeOK /\ Volume /\ Locals /\ Aimed /\ Progress /\ OldChain /\ NothingLost /\ Hint
------------------------------------------------------------------------------
(* Constants, slots and chains.                                            *)

\* The numbers a volume is made of, and the entries that name no cluster.
LEMMA Sizes ==
  /\ CLUSTERS \in Nat /\ FAT_COUNT \in Nat \ {0} /\ DIR_SLOTS \in Nat \ {0}
  /\ MAX_FILE_CLUSTERS \in Nat \ {0} /\ MaxWrites \in Nat \ {0}
  /\ Clusters \subseteq Nat /\ 1 \in Tables /\ Tables \subseteq Nat /\ Slots \subseteq Nat
  /\ root_cluster \in Clusters /\ 3 \in Clusters /\ root_cluster = 2
  /\ Free \notin Clusters /\ End \notin Clusters /\ Bad \notin Clusters
  /\ Free # End /\ Free # Bad /\ End # Bad /\ Free = 0
<1>1. /\ CLUSTERS \in Nat /\ CLUSTERS > 2 /\ FAT_COUNT \in Nat \ {0} /\ DIR_SLOTS \in Nat \ {0}
      /\ MAX_FILE_CLUSTERS \in Nat \ {0} /\ MaxWrites \in Nat \ {0}
  BY VolumeAssumption, Zenon
<1> QED
  BY <1>1 DEF Clusters, Tables, Slots, root_cluster, FIRST_DATA_CLUSTER, Free, End, Bad

\* The kind tells what is in a slot.
LEMMA SlotKinds ==
  ASSUME NEW e \in {NeverUsed, Deleted, Label, SubDir} \cup Files
  PROVE  /\ e.kind = "file" <=> e \in Files
         /\ e.kind = "dir" <=> e = SubDir
         /\ e.kind = "never" <=> e = NeverUsed
         /\ e.kind = "deleted" <=> e = Deleted
         /\ e.kind = "label" <=> e = Label
BY DEF NeverUsed, Deleted, Label, SubDir, Files

\* What a file's entry has in its fields.
LEMMA FileFields ==
  ASSUME NEW e \in Files
  PROVE  /\ e.size \in 0 .. MAX_FILE_CLUSTERS /\ e.size \in Nat
         /\ e.name \in AllNames /\ e.first_cluster \in Clusters \cup {0}
BY Sizes DEF Files, AllNames

\* The least of some slots, or of some clusters, is one of them.
LEMMA LeastIsLeast ==
  ASSUME NEW S \in SUBSET Nat, S # {}
  PROVE  Least(S) \in S /\ \A x \in S : Least(S) <= x
<1>1. \E x \in S : \A y \in S : x <= y
  BY LeastNatural, Zenon
<1> QED
  BY <1>1, Zenon DEF Least

\* Following the first table from a chain's first cluster gives the chain.
ChainsAreFollowed ==
  \A n \in Nat : \A first : \A c \in [1 .. n -> Clusters] :
    (n > 0 => c[1] = first) /\ (\A k \in 1 .. n - 1 : next_cluster(c[k]) = c[k + 1])
      => Chain(first, n) = c

\* The recursion in Chain has one solution, and the chain is it.
LEMMA Followed == ChainsAreFollowed
<1> SUFFICES ASSUME NEW n \in Nat, NEW first, NEW c \in [1 .. n -> Clusters],
                    n > 0 => c[1] = first,
                    \A k \in 1 .. n - 1 : next_cluster(c[k]) = c[k + 1]
             PROVE  Chain(first, n) = c
  BY Zenon DEF ChainsAreFollowed
<1> DEFINE step(f) == [k \in 1 .. n |->
              IF k = 1 THEN first
              ELSE IF f[k - 1] \in Clusters THEN next_cluster(f[k - 1])
              ELSE Bad]
           follow == CHOOSE f : f = step(f)
           differ == {k \in 1 .. n : follow[k] # c[k]}
<1>1. c = step(c)
  <2>1. \A k \in 1 .. n : k # 1 => k - 1 \in 1 .. n - 1 /\ k - 1 \in 1 .. n /\ (k - 1) + 1 = k
    OBVIOUS
  <2>2. \A k \in 1 .. n : k # 1 => c[k - 1] \in Clusters /\ next_cluster(c[k - 1]) = c[k]
    BY <2>1, Zenon
  <2> QED
    BY <2>2
<1>2. follow = step(follow)
  <2>1. \E f : f = step(f)
    BY <1>1, Zenon
  <2> HIDE DEF step
  <2> QED
    BY <2>1, Zenon
<1>3. Chain(first, n) = [k \in 1 .. n |-> follow[k]]
  BY Zenon DEF Chain
<1> HIDE DEF follow
<1>4. differ = {}
  <2> SUFFICES ASSUME differ # {} PROVE FALSE
    BY Zenon
  <2>1. differ \in SUBSET Nat
    OBVIOUS
  <2>2. PICK k \in differ : \A j \in differ : k <= j
    BY <2>1, LeastNatural, Zenon
  <2>3. k \in 1 .. n /\ follow[k] # c[k]
    BY <2>2, Zenon
  <2>4. follow[k] = IF k = 1 THEN first
              ELSE IF follow[k - 1] \in Clusters THEN next_cluster(follow[k - 1])
              ELSE Bad
    BY <1>2, <2>3, Zenon
  <2>5. c[k] = IF k = 1 THEN first
              ELSE IF c[k - 1] \in Clusters THEN next_cluster(c[k - 1])
              ELSE Bad
    BY <1>1, <2>3, Zenon
  <2>6. k # 1
    BY <2>3, <2>4, <2>5, Zenon
  <2>7. k - 1 \in 1 .. n /\ ~(k <= k - 1)
    BY <2>3, <2>6
  <2>8. follow[k - 1] = c[k - 1]
    BY <2>2, <2>7, Zenon
  <2> QED
    BY <2>3, <2>4, <2>5, <2>6, <2>8, Zenon
<1> QED
  BY <1>3, <1>4, Zenon

\* The same of the volume after a step.
LEMMA FollowedAfter == ChainsAreFollowed'
BY Followed, PTL
------------------------------------------------------------------------------
(* The directory, and files a step does not touch.                         *)

\* On a volume that is in order the scan reaches every slot in use.
DirectoryRead ==
  /\ \A s \in Slots : dir[s] \in {NeverUsed, Deleted, Label, SubDir} \cup Files
  /\ Scanned = {s \in Slots : dir[s] # NeverUsed}
  /\ FileSlots = HasFile /\ \A s \in HasFile : dir[s] \in Files
  /\ \A n : Named(n) = {s \in Slots : dir[s].kind \in {"file", "dir"} /\ dir[s].name = n}

\* A scan of the directory gets to every entry that is in use.
LEMMA Directory == Volume => DirectoryRead
<1> SUFFICES ASSUME Volume PROVE DirectoryRead
  BY Zenon
<1>1. \A s \in Slots : dir[s] \in {NeverUsed, Deleted, Label, SubDir} \cup Files
  BY Zenon DEF Volume
<1>2. Scanned = {s \in Slots : dir[s] # NeverUsed}
  <2>1. \A s \in Slots : 1 .. s \subseteq Slots /\ s \in 1 .. s
    BY Sizes DEF Slots
  <2>2. \A s \in Slots : \A t \in 1 .. s : t = s \/ t < s
    BY Sizes DEF Slots
  <2>3. \A s \in Slots : dir[s] # NeverUsed => \A t \in 1 .. s : dir[t] # NeverUsed
    BY <2>1, <2>2, Zenon DEF Volume
  <2> QED
    BY <2>1, <2>3, Zenon DEF Scanned
<1>3. \A s \in Slots : dir[s].kind = "file" => dir[s] \in Files /\ dir[s] # NeverUsed
  BY <1>1, SlotKinds, Zenon DEF NeverUsed
<1>4. \A s \in Slots : dir[s].kind \in {"file", "dir"} => dir[s] # NeverUsed
  BY DEF NeverUsed
<1> QED
  BY <1>1, <1>2, <1>3, <1>4, Zenon DEF DirectoryRead, FileSlots, HasFile, Named

\* The same of the volume after a step.
LEMMA DirectoryAfter == Volume' => DirectoryRead'
BY Directory, PTL

\* The chain of a file and its clusters.
LEMMA FileChain ==
  ASSUME Volume, NEW s \in HasFile
  PROVE  /\ dir[s] \in Files /\ dir[s].size \in Nat /\ dir[s].size <= MAX_FILE_CLUSTERS
         /\ ChainOf(s) \in [1 .. dir[s].size -> Clusters]
         /\ \A k \in 1 .. dir[s].size : ChainOf(s)[k] \in ClustersOf(s)
         /\ ClustersOf(s) \subseteq Clusters
         /\ \A k \in 1 .. dir[s].size : \A t \in Tables :
              fat[t][ChainOf(s)[k]] = Link(ChainOf(s), dir[s].size, k)
<1>1. dir[s] \in Files
  BY Directory, Zenon DEF DirectoryRead
<1>2. dir[s].size \in Nat /\ dir[s].size <= MAX_FILE_CLUSTERS
  BY <1>1, FileFields, Sizes
<1>3. Whole(dir[s], ChainOf(s))
  BY Zenon DEF Volume
<1> QED
  BY <1>1, <1>2, <1>3, Zenon DEF Whole, Linked, ClustersOf

\* A step that leaves the clusters of every file as they are leaves the
\* files as they are.
LEMMA ChainStays ==
  ASSUME Volume, dir' = dir, NEW s \in HasFile,
         \A c \in ClustersOf(s) : \A t \in Tables : fat'[t][c] = fat[t][c]
  PROVE  ChainOf(s)' = ChainOf(s) /\ ClustersOf(s)' = ClustersOf(s)
<1>0. PICK c, n, first : c = ChainOf(s) /\ n = dir[s].size /\ first = dir[s].first_cluster
  BY Zenon
<1>1. n \in Nat /\ c \in [1 .. n -> Clusters] /\ 1 \in Tables
  BY <1>0, FileChain, Sizes, Zenon
<1>2. \A k \in 1 .. n - 1 : next_cluster(c[k])' = c[k + 1]
  <2> TAKE k \in 1 .. n - 1
  <2>1. k \in 1 .. n /\ k # n
    BY <1>1
  <2>2. fat'[1][c[k]] = fat[1][c[k]] /\ fat[1][c[k]] = Link(c, n, k)
    BY <1>0, <1>1, <2>1, FileChain, Zenon
  <2> QED
    BY <2>1, <2>2, Zenon DEF Link, next_cluster
<1>3. n > 0 => c[1] = first
  BY <1>0, <1>1 DEF Volume, Whole
<1>4. Chain(first, n)' = c
  BY <1>1, <1>2, <1>3, FollowedAfter, Zenon DEF ChainsAreFollowed
<1>5. ChainOf(s)' = Chain(first, n)'
  BY <1>0 DEF ChainOf, Chain, next_cluster
<1> QED
  BY <1>0, <1>4, <1>5, Zenon DEF ClustersOf

\* What reading a file gives: its clusters, all of one write.
FilesAreRead ==
  \A s \in HasFile :
    /\ read_file(dir[s]) = [k \in 1 .. dir[s].size |-> data[ChainOf(s)[k]]]
    /\ \E v \in 1 .. MaxWrites : read_file(dir[s]) = Contents(v, dir[s].size)

\* What is read of a file is what is in the clusters of its chain.
LEMMA Reading == Volume => FilesAreRead
<1> SUFFICES ASSUME Volume, NEW s \in HasFile
             PROVE  /\ read_file(dir[s]) = [k \in 1 .. dir[s].size |-> data[ChainOf(s)[k]]]
                    /\ \E v \in 1 .. MaxWrites : read_file(dir[s]) = Contents(v, dir[s].size)
  BY Zenon DEF FilesAreRead
<1> DEFINE n == dir[s].size
           c == ChainOf(s)
<1>1. c \in [1 .. n -> Clusters]
  BY FileChain, Zenon
<1>2. PICK v \in 1 .. MaxWrites : \A k \in 1 .. n : data[c[k]] = <<v, k>>
  BY Zenon DEF Volume, Whole
<1>3. read_file(dir[s]) = [k \in 1 .. n |-> IF c[k] \in Clusters THEN data[c[k]] ELSE Broken]
  BY Zenon DEF read_file, ChainOf
<1>4. read_file(dir[s]) = [k \in 1 .. n |-> data[c[k]]]
  <2> HIDE DEF c, n
  <2> QED
    BY <1>1, <1>3, Zenon
<1>5. read_file(dir[s]) = Contents(v, n)
  <2> HIDE DEF c, n
  <2> QED
    BY <1>2, <1>4, Zenon DEF Contents
<1> QED
  BY <1>4, <1>5, Zenon

\* The same of the volume after a step.
LEMMA ReadingAfter == Volume' => FilesAreRead'
BY Reading, PTL

\* A step that writes no entry of the directory, and no cluster of a file or
\* of a directory, leaves the volume in order.
Untouched ==
  /\ dir' = dir
  /\ \A s \in HasFile : \A c \in ClustersOf(s) :
       data'[c] = data[c] /\ \A t \in Tables : fat'[t][c] = fat[t][c]
  /\ \A c \in Reserved : \A t \in Tables : fat'[t][c] = fat[t][c]

\* After such a step the same files are there, on the same clusters.
LEMMA FilesStay ==
  ASSUME Volume, Untouched
  PROVE  /\ Volume' /\ HasFile' = HasFile /\ Reserved' = Reserved
         /\ \A s \in HasFile : ChainOf(s)' = ChainOf(s) /\ ClustersOf(s)' = ClustersOf(s)
<1>1. HasFile' = HasFile /\ Reserved' = Reserved
  BY Zenon DEF HasFile, Reserved, Untouched
<1>2. ASSUME NEW s \in HasFile
      PROVE  ChainOf(s)' = ChainOf(s) /\ ClustersOf(s)' = ClustersOf(s)
  BY ChainStays, Zenon DEF Untouched
<1>3. ASSUME NEW s \in HasFile
      PROVE  Whole(dir[s], ChainOf(s))'
  <2>1. dir'[s] = dir[s] /\ ChainOf(s)' = ChainOf(s)
    BY <1>2, Zenon DEF Untouched
  <2>2. Whole(dir[s], ChainOf(s))
    BY Zenon DEF Volume
  <2>3. \A k \in 1 .. dir[s].size : ChainOf(s)[k] \in ClustersOf(s)
    BY FileChain, Zenon
  <2>4. Linked(ChainOf(s), dir[s].size, 1)'
    BY <2>1, <2>2, <2>3 DEF Whole, Linked, Untouched
  <2>5. \A k \in 1 .. dir[s].size : data'[ChainOf(s)[k]] = data[ChainOf(s)[k]]
    BY <2>3, Zenon DEF Untouched
  <2> QED
    BY <2>1, <2>2, <2>4, <2>5, Zenon DEF Whole
<1>4. \A s \in HasFile : ClustersOf(s)' \cap Reserved' = {}
  BY <1>1, <1>2, Zenon DEF Volume
<1>5. \A s, t \in HasFile : s # t => ClustersOf(s)' \cap ClustersOf(t)' = {}
  BY <1>2, Zenon DEF Volume
<1>6. \A c \in Reserved' : \A t \in Tables : fat'[t][c] = End
  BY <1>1 DEF Volume, Untouched
<1>7. Volume'
  BY <1>1, <1>3, <1>4, <1>5, <1>6, Zenon DEF Volume, Untouched
<1> QED
  BY <1>1, <1>2, <1>7, Zenon

\* And no name reads as anything else.
LEMMA NamesStay ==
  ASSUME Volume, Untouched, NEW n
  PROVE  FileNamed(n)' = FileNamed(n)
<1>1. Named(n)' = Named(n) /\ dir' = dir
  BY Zenon DEF Named, Scanned, Untouched
<1>2. PICK s : s = Least(Named(n))
  BY Zenon
<1>3. Least(Named(n))' = s
  BY <1>1, <1>2, Zenon DEF Least
<1>4. CASE Named(n) = {} \/ dir[s].kind = "dir"
  BY <1>1, <1>2, <1>3, <1>4, Zenon DEF FileNamed, Absent, Broken
<1>5. CASE Named(n) # {} /\ dir[s].kind # "dir"
  <2>1. s \in Named(n)
    <3>1. Named(n) \in SUBSET Nat
      BY Sizes, Zenon DEF Named, Scanned
    <3> QED
      BY <1>2, <1>5, <3>1, LeastIsLeast, Zenon
  <2>2. s \in HasFile
    BY <2>1, <1>5, Zenon DEF Named, Scanned, HasFile
  <2>3. read_file(dir[s])' = read_file(dir[s])
    <3>1. read_file(dir[s]) = [k \in 1 .. dir[s].size |-> data[ChainOf(s)[k]]]
      BY <2>2, Reading, Zenon DEF FilesAreRead
    <3>2. s \in HasFile' /\ Volume' /\ ChainOf(s)' = ChainOf(s)
      BY <2>2, FilesStay, Zenon
    <3>3. read_file(dir[s])' = [k \in 1 .. dir'[s].size |-> data'[ChainOf(s)'[k]]]
      BY <3>2, ReadingAfter, Zenon DEF FilesAreRead
    <3>4. \A k \in 1 .. dir[s].size : data'[ChainOf(s)[k]] = data[ChainOf(s)[k]]
      BY <2>2, FileChain, Zenon DEF Untouched
    <3> QED
      BY <1>1, <3>1, <3>2, <3>3, <3>4
  <2>4. FileNamed(n) = read_file(dir[s])
    BY <1>2, <1>5, Zenon DEF FileNamed
  <2>5. FileNamed(n)' = read_file(dir[s])'
    <3>1. dir[Least(Named(n))]' = dir'[s]
      BY <1>3, Zenon
    <3>2. Named(n)' # {} /\ dir'[Least(Named(n))'].kind # "dir"
      BY <1>1, <1>3, <1>5, Zenon
    <3>3. FileNamed(n)' = read_file(dir[Least(Named(n))])'
      BY <3>2, Zenon DEF FileNamed
    <3>4. read_file(dir[Least(Named(n))])' = read_file(dir[s])'
      BY <3>1 DEF read_file, Chain, next_cluster
    <3> QED
      BY <3>3, <3>4, Zenon
  <2> QED
    BY <2>3, <2>4, <2>5, Zenon
<1> QED
  BY <1>4, <1>5, Zenon
------------------------------------------------------------------------------
(* A volume as a formatter leaves it.                                      *)

\* The invariant holds of every volume without files.
LEMMA InvInit == Init => Inv
<1> SUFFICES ASSUME Init PROVE Inv
  BY Zenon
<1>1. /\ dir \in [Slots -> {NeverUsed, Deleted, Label, SubDir}]
      /\ data = [c \in Clusters |-> <<0, 0>>] /\ fs_info \in {[free |-> 0, first_free |-> 0], Foreign}
      /\ pc = "idle" /\ op = NoOp /\ at = 0 /\ table = 1 /\ old = 0 /\ next = Free
      /\ writes = 0 /\ stopped = FALSE /\ answer = "none"
  BY Zenon DEF Init
<1>2. PICK bad \in {{}, {FIRST_DATA_CLUSTER + CLUSTERS - 1}} :
        fat = [t \in Tables |-> [c \in Clusters |->
                IF c = root_cluster \/ (c = 3 /\ \E s \in Slots : dir[s] = SubDir) THEN End
                ELSE IF c \in bad THEN Bad ELSE Free]]
  BY Zenon DEF Init
<1>3. \A t \in Tables : \A c \in Clusters : fat[t][c] =
        IF c = root_cluster \/ (c = 3 /\ \E s \in Slots : dir[s] = SubDir) THEN End
        ELSE IF c \in bad THEN Bad ELSE Free
  BY <1>2, Zenon
<1>4. HasFile = {}
  BY <1>1 DEF HasFile, NeverUsed, Deleted, Label, SubDir
<1>5. \A c \in Reserved : c \in Clusters /\ (c = root_cluster \/ (c = 3 /\ \E s \in Slots : dir[s] = SubDir))
  BY Sizes, Zenon DEF Reserved
<1>6. TypeOK
  <2>1. fat \in [Tables -> [Clusters -> Entries]]
    BY <1>2, Zenon DEF Entries
  <2>2. <<0, 0>> \in (0 .. MaxWrites) \X (0 .. MAX_FILE_CLUSTERS)
    BY Sizes
  <2>3. data \in [Clusters -> (0 .. MaxWrites) \X (0 .. MAX_FILE_CLUSTERS)]
    BY <1>1, <2>2, Zenon
  <2>4. fs_info \in [free : 0 .. CLUSTERS, first_free : Clusters \cup {0}] \cup {Foreign}
    <3>1. [free |-> 0, first_free |-> 0] \in [free : 0 .. CLUSTERS, first_free : Clusters \cup {0}]
      BY Sizes
    <3> QED
      BY <1>1, <3>1, Zenon
  <2>5. table \in Tables /\ at \in 0 .. MAX_FILE_CLUSTERS + 1 /\ writes \in 0 .. MaxWrites
    BY <1>1, Sizes
  <2>6. old \in Clusters \cup {0} /\ next \in Entries
    BY <1>1, Zenon DEF Entries
  <2> QED
    BY <1>1, <2>1, <2>3, <2>4, <2>5, <2>6, Zenon DEF TypeOK
<1>7. Volume
  <2>1. dir \in [Slots -> {NeverUsed, Deleted, Label, SubDir} \cup Files]
    BY <1>1, Zenon
  <2>2. \A s \in Slots : dir[s].kind \in {"file", "dir"} => dir[s] = SubDir
    BY <1>1 DEF NeverUsed, Deleted, Label
  <2>3. \A s, t \in Slots : dir[s] = SubDir /\ dir[t] = SubDir => s = t
    BY Zenon DEF Init
  <2>4. \A s, t \in Slots : s < t /\ dir[s] = NeverUsed => dir[t] = NeverUsed
    BY Zenon DEF Init
  <2>5. \A c \in Reserved : \A t \in Tables : fat[t][c] = End
    BY <1>3, <1>5, Zenon
  <2> QED
    BY <1>4, <2>1, <2>2, <2>3, <2>4, <2>5, Zenon DEF Volume
<1>8. Accounted({})
  <2>1. \A c \in Clusters : \A t \in Tables : fat[t][c] = fat[1][c]
    BY <1>3, Sizes, Zenon
  <2>2. \A c \in Clusters : next_cluster(c) \notin {Free, Bad} => c \in Reserved
    BY <1>3, Sizes, Zenon DEF Reserved, next_cluster
  <2> QED
    BY <2>1, <2>2, Zenon DEF Accounted
<1> QED
  BY <1>1, <1>6, <1>7, <1>8, Zenon DEF Inv, Locals, Aimed, Progress, OldChain, NothingLost, Hint

------------------------------------------------------------------------------
(* Types.                                                                  *)

\* The clusters that are free can be counted, and the count fits the hint.
LEMMA HintFits ==
  Counted \in [free : 0 .. CLUSTERS, first_free : Clusters \cup {0}]
<1>1. IsFiniteSet(Clusters) /\ Cardinality(Clusters) = CLUSTERS
  <2>1. FIRST_DATA_CLUSTER \in Int /\ FIRST_DATA_CLUSTER + CLUSTERS - 1 \in Int
        /\ CLUSTERS \in Nat /\ CLUSTERS > 2
    BY VolumeAssumption DEF FIRST_DATA_CLUSTER
  <2>2. /\ IsFiniteSet(FIRST_DATA_CLUSTER .. FIRST_DATA_CLUSTER + CLUSTERS - 1)
        /\ Cardinality(FIRST_DATA_CLUSTER .. FIRST_DATA_CLUSTER + CLUSTERS - 1) =
             IF FIRST_DATA_CLUSTER > FIRST_DATA_CLUSTER + CLUSTERS - 1 THEN 0
             ELSE FIRST_DATA_CLUSTER + CLUSTERS - 1 - FIRST_DATA_CLUSTER + 1
    BY <2>1, FS_Interval
  <2> QED
    BY <2>1, <2>2 DEF Clusters, FIRST_DATA_CLUSTER
<1>2. FreeClusters \subseteq Clusters
  BY Zenon DEF FreeClusters
<1>3. Cardinality(FreeClusters) \in Nat /\ Cardinality(FreeClusters) <= CLUSTERS
  <2>1. IsFiniteSet(FreeClusters) /\ Cardinality(FreeClusters) <= Cardinality(Clusters)
    BY <1>1, <1>2, FS_Subset, Zenon
  <2>2. Cardinality(FreeClusters) \in Nat
    BY <2>1, FS_CardinalityType, Zenon
  <2> QED
    BY <1>1, <2>1, <2>2, Zenon
<1>4. FreeClusters # {} => Least(FreeClusters) \in Clusters
  BY <1>2, LeastIsLeast, Sizes, Zenon
<1>5. Cardinality(FreeClusters) \in 0 .. CLUSTERS
  BY <1>3, Sizes
<1> QED
  BY <1>4, <1>5, Zenon DEF Counted
------------------------------------------------------------------------------
(* The write in progress.                                                  *)

\* The new chain as a function, and its clusters.
LEMMA NewChain ==
  ASSUME Locals, pc # "idle"
  PROVE  /\ Len(op.chain) \in Nat /\ Len(op.chain) <= MAX_FILE_CLUSTERS
         /\ op.chain \in [1 .. Len(op.chain) -> Clusters] /\ DOMAIN op.chain = 1 .. Len(op.chain)
         /\ NewClusters \subseteq Clusters
         /\ \A k \in 1 .. Len(op.chain) : op.chain[k] \in NewClusters /\ op.chain[k] \in Clusters
<1>1. op.chain \in Seq(Clusters) /\ Len(op.chain) <= MAX_FILE_CLUSTERS
  BY Zenon DEF Locals
<1> QED
  BY <1>1 DEF NewClusters

\* The slot a write was aimed at stays the right one while the directory
\* does, and its clusters stay nobody's while no file takes any.
LEMMA AimStays ==
  ASSUME Volume, Untouched, Aimed, op' = op, pc \in {"data", "chain", "entry"}
  PROVE  Aimed'
<1>1. /\ HasFile' = HasFile /\ Reserved' = Reserved
      /\ \A s \in HasFile : ClustersOf(s)' = ClustersOf(s)
  BY FilesStay, Zenon
<1>2. dir' = dir /\ NewClusters' = NewClusters
  BY Zenon DEF Untouched, NewClusters
<1>3. /\ Named(op.name)' = Named(op.name) /\ ForNewEntry' = ForNewEntry
      /\ directory_slot(op.name)' = directory_slot(op.name)
  BY <1>2 DEF Named, ForNewEntry, Scanned, directory_slot, Least
<1>4. /\ Named(op.name) \cup ForNewEntry # {}
      /\ op.slot = directory_slot(op.name)
      /\ dir[op.slot].kind # "dir"
      /\ op.existing = IF dir[op.slot].kind = "file" THEN dir[op.slot].first_cluster ELSE 0
      /\ NewClusters \cap Reserved = {}
      /\ \A s \in HasFile : ClustersOf(s) \cap NewClusters = {}
  BY Zenon DEF Aimed
<1>5. /\ NewClusters' \cap Reserved' = {}
      /\ \A s \in HasFile' : ClustersOf(s)' \cap NewClusters' = {}
  BY <1>1, <1>2, <1>4, Zenon
<1> QED
  BY <1>2, <1>3, <1>4, <1>5, Zenon DEF Aimed

\* What a write's locals are does not depend on how far it is.
LEMMA LocalsStay ==
  ASSUME Locals, pc # "idle", op' = op, writes' = writes,
         pc' \notin {"chain", "free"} => table' = 1
  PROVE  Locals'
BY Zenon DEF Locals

\* A cluster of a file is linked to another or ends its chain.
LEMMA FilesAreTaken ==
  ASSUME Volume, NEW s \in HasFile, NEW c \in ClustersOf(s), NEW t \in Tables
  PROVE  fat[t][c] \in Clusters \cup {End}
<1>1. PICK k \in 1 .. dir[s].size : c = ChainOf(s)[k]
  BY Zenon DEF ClustersOf
<1>2. dir[s].size \in Nat /\ ChainOf(s) \in [1 .. dir[s].size -> Clusters]
      /\ fat[t][c] = Link(ChainOf(s), dir[s].size, k)
  BY <1>1, FileChain, Zenon
<1>3. k # dir[s].size => k + 1 \in 1 .. dir[s].size
  BY <1>2
<1> QED
  BY <1>2, <1>3, Zenon DEF Link

\* Where the entry goes: the name's own slot, or one that is free to take.
LEMMA SlotFound ==
  ASSUME Volume, NEW n, Named(n) \cup ForNewEntry # {}
  PROVE  /\ directory_slot(n) \in Slots
         /\ Named(n) # {} => directory_slot(n) \in Named(n)
         /\ Named(n) = {} => /\ directory_slot(n) \in ForNewEntry
                             /\ \A s \in ForNewEntry : directory_slot(n) <= s
<1>1. Named(n) \in SUBSET Nat /\ ForNewEntry \in SUBSET Nat
      /\ Named(n) \subseteq Slots /\ ForNewEntry \subseteq Slots
  BY Sizes, Zenon DEF Named, Scanned, ForNewEntry
<1>2. CASE Named(n) # {}
  BY <1>1, <1>2, LeastIsLeast, Zenon DEF directory_slot
<1>3. CASE Named(n) = {}
  <2>1. directory_slot(n) = Least(ForNewEntry) /\ ForNewEntry # {}
    BY <1>3, Zenon DEF directory_slot
  <2>2. Least(ForNewEntry) \in ForNewEntry /\ \A s \in ForNewEntry : Least(ForNewEntry) <= s
    BY <1>1, <2>1, LeastIsLeast, Zenon
  <2> QED
    BY <1>1, <1>3, <2>1, <2>2, Zenon
<1> QED
  BY <1>2, <1>3, Zenon
------------------------------------------------------------------------------
(* Each step keeps the invariant.                                          *)

\* A write that is refused changes nothing.
LEMMA RefuseKeeps ==
  ASSUME Inv, NEW n, NEW needed, Refuse(n, needed)
  PROVE  Inv' /\ Untouched
<1>1. UNCHANGED <<fat, data, dir, fs_info, pc, op, at, table, old, next, writes, stopped>>
      /\ pc = "idle" /\ answer' = "error"
  BY Zenon DEF Refuse, disk
<1>2. Untouched
  BY <1>1, Zenon DEF Untouched
<1>3. /\ Volume' /\ HasFile' = HasFile /\ Reserved' = Reserved
      /\ \A s \in HasFile : ClustersOf(s)' = ClustersOf(s)
  BY <1>2, FilesStay, Zenon DEF Inv
<1>4. TypeOK'
  BY <1>1, Zenon DEF Inv, TypeOK
<1>5. Accounted({})'
  <2>1. Accounted({})
    BY <1>1, Zenon DEF Inv, NothingLost
  <2> QED
    BY <1>1, <1>3, <2>1, Zenon DEF Accounted, Touched, next_cluster
<1>6. Locals' /\ Aimed' /\ Progress' /\ OldChain' /\ NothingLost' /\ Hint'
  BY <1>1, <1>5, Zenon DEF Locals, Aimed, Progress, OldChain, NothingLost, Hint
<1> QED
  BY <1>2, <1>3, <1>4, <1>6, Zenon DEF Inv

\* What a write looks up before its first sector.
LEMMA BeginKeeps ==
  ASSUME Inv, NEW n \in AllNames, NEW needed \in 0 .. MAX_FILE_CLUSTERS + 1, Begin(n, needed)
  PROVE  Inv' /\ Untouched
<1>1. /\ UNCHANGED <<fat, data, dir, fs_info, old, next, stopped>>
      /\ pc = "idle" /\ writes < MaxWrites /\ writes' = writes + 1 /\ at' = 1 /\ table' = 1
      /\ pc' = (IF needed = 0 THEN "entry" ELSE "data") /\ answer' = "none"
  BY Zenon DEF Begin, disk
<1>2. /\ Named(n) \cup ForNewEntry # {} /\ dir[directory_slot(n)].kind # "dir"
      /\ needed <= MAX_FILE_CLUSTERS
  BY Zenon DEF Begin, Accepts
<1>3. needed \in Nat /\ needed \in 0 .. MAX_FILE_CLUSTERS
  BY <1>2, Sizes
<1>4. PICK chain \in [1 .. needed -> Clusters] :
        /\ free_clusters(chain)
        /\ op' = [name |-> n, contents |-> Contents(writes + 1, needed),
                  slot |-> directory_slot(n), chain |-> chain,
                  existing |-> IF dir[directory_slot(n)].kind = "file"
                               THEN dir[directory_slot(n)].first_cluster ELSE 0]
  BY Zenon DEF Begin
<1>5. /\ op'.name = n /\ op'.contents = Contents(writes + 1, needed)
      /\ op'.slot = directory_slot(n) /\ op'.chain = chain
      /\ op'.existing = IF dir[directory_slot(n)].kind = "file"
                        THEN dir[directory_slot(n)].first_cluster ELSE 0
  BY <1>4, Zenon
<1>6. op' # NoOp
  <2>1. DOMAIN op' = {"name", "contents", "slot", "chain", "existing"}
    BY <1>4, Zenon
  <2>2. DOMAIN NoOp = {"name"}
    BY Zenon DEF NoOp
  <2>3. "contents" \in DOMAIN op' /\ "contents" \notin DOMAIN NoOp
    BY <2>1, <2>2, Zenon
  <2> QED
    BY <2>3, Zenon
<1>7. chain \in Seq(Clusters) /\ Len(chain) = needed /\ DOMAIN chain = 1 .. needed
  BY <1>3, <1>4
<1>8. \A k \in 1 .. needed : chain[k] \in Clusters /\ fat[1][chain[k]] = Free
  BY <1>4, <1>7, Zenon DEF free_clusters, next_cluster
<1>9. \A j, k \in 1 .. needed : chain[j] = chain[k] => j = k
  <2>1. ASSUME NEW j \in 1 .. needed, NEW k \in 1 .. needed, j < k
        PROVE  chain[j] < chain[k]
    <3>1. j \in 1 .. k - 1
      BY <2>1, <1>3
    <3>2. chain[j] \in FreeClusters
      BY <1>8, Zenon DEF FreeClusters, next_cluster
    <3> QED
      BY <1>4, <1>7, <3>1, <3>2, Zenon DEF free_clusters
  <2>2. \A k \in 1 .. needed : chain[k] \in Nat
    BY <1>8, Sizes, Zenon
  <2>3. \A j, k \in 1 .. needed : j = k \/ j < k \/ k < j
    BY <1>3
  <2> QED
    BY <2>1, <2>2, <2>3
<1>10. Untouched
  BY <1>1, Zenon DEF Untouched
<1>11. /\ Volume' /\ HasFile' = HasFile /\ Reserved' = Reserved
       /\ \A s \in HasFile : ClustersOf(s)' = ClustersOf(s)
  BY <1>10, FilesStay, Zenon DEF Inv
<1>12. /\ directory_slot(n) \in Slots
       /\ dir[directory_slot(n)] \in {NeverUsed, Deleted, Label, SubDir} \cup Files
  BY <1>2, SlotFound, Directory, Zenon DEF Inv, DirectoryRead
<1>13. op'.existing \in Clusters \cup {0}
  BY <1>5, <1>12, SlotKinds, FileFields, Zenon
<1>14. TypeOK'
  <2>1. writes' \in 0 .. MaxWrites /\ at' \in 0 .. MAX_FILE_CLUSTERS + 1 /\ table' \in Tables
    BY <1>1, Sizes DEF Inv, TypeOK
  <2>2. pc' \in {"data", "entry"} /\ (pc' = "idle" <=> op' = NoOp)
    BY <1>1, <1>6, Zenon
  <2> QED
    BY <1>1, <2>1, <2>2, Zenon DEF Inv, TypeOK
<1>15. Locals'
  <2>1. writes' > 0 /\ writes' = writes + 1
    BY <1>1, SMTT(30) DEF Inv, TypeOK
  <2> QED
    BY <1>1, <1>3, <1>5, <1>7, <1>9, <1>12, <1>13, <2>1, SMTT(30) DEF Locals
<1>16. Aimed'
  <2>1. NewClusters' = {chain[k] : k \in 1 .. needed}
    BY <1>5, <1>7, Zenon DEF NewClusters
  <2>2. \A c \in NewClusters' : fat[1][c] = Free
    BY <2>1, <1>8, Zenon
  <2>3. NewClusters' \cap Reserved' = {}
    <3>1. 1 \in Tables /\ Free # End
      BY Sizes, Zenon
    <3>2. \A c \in Reserved : fat[1][c] = End
      BY <3>1, Zenon DEF Inv, Volume
    <3> QED
      BY <1>11, <2>2, <3>1, <3>2, Zenon
  <2>4. \A s \in HasFile : \A c \in ClustersOf(s) : fat[1][c] # Free
    BY FilesAreTaken, Sizes, Zenon DEF Inv
  <2>5. \A s \in HasFile' : ClustersOf(s)' \cap NewClusters' = {}
    BY <2>2, <2>4, <1>11, Zenon
  <2>6. Named(n)' = Named(n) /\ ForNewEntry' = ForNewEntry /\ directory_slot(n)' = directory_slot(n)
    BY <1>1 DEF Named, ForNewEntry, Scanned, directory_slot, Least
  <2>7. Named(op.name)' = Named(n)' /\ directory_slot(op.name)' = directory_slot(n)'
    BY <1>5, ZenonT(30) DEF Named, Scanned, directory_slot, Least, ForNewEntry
  <2> QED
    BY <1>1, <1>2, <1>5, <2>3, <2>5, <2>6, <2>7, Zenon DEF Aimed
<1>17. Progress'
  <2>1. at' - 1 = 0 /\ (pc' = "data" => at' \in 1 .. Len(op'.chain)) /\ (pc' = "entry" => Len(op'.chain) = 0)
    BY <1>1, <1>3, <1>5, <1>7
  <2>2. pc' \in {"data", "entry"} /\ \A k \in 1 .. 0 : FALSE
    BY <1>1
  <2> QED
    BY <2>1, <2>2, Zenon DEF Progress, Filled, Chained
<1>18. Accounted({})'
  <2>1. Accounted({})
    BY <1>1, Zenon DEF Inv, NothingLost
  <2>2. Touched = {} /\ Touched' = {}
    BY <1>1, Zenon DEF Touched
  <2> QED
    BY <1>1, <1>11, <2>1, <2>2, Zenon DEF Accounted, next_cluster
<1>19. NothingLost'
  <2>1. Accounted(NewClusters)'
    BY <1>18, Zenon DEF Accounted
  <2> QED
    BY <1>18, <2>1, Zenon DEF NothingLost
<1>20. OldChain' /\ Hint'
  BY <1>1, Zenon DEF OldChain, Hint
<1> QED
  BY <1>10, <1>11, <1>14, <1>15, <1>16, <1>17, <1>19, <1>20, Zenon DEF Inv

\* A cluster of data goes to a cluster that is nobody's.
LEMMA WriteClustersKeeps ==
  ASSUME Inv, write_clusters
  PROVE  Inv' /\ Untouched
<1> DEFINE x == op.chain[at]
           len == Len(op.chain)
<1>1. /\ UNCHANGED <<fat, dir, fs_info, op, table, old, next, writes, stopped, answer>>
      /\ pc = "data" /\ data' = [data EXCEPT ![x] = op.contents[at]]
      /\ at' = (IF at = len THEN 1 ELSE at + 1)
      /\ pc' = (IF at = len THEN "chain" ELSE "data")
  BY Zenon DEF write_clusters, Last
<1>2. /\ len \in Nat /\ len <= MAX_FILE_CLUSTERS /\ op.chain \in [1 .. len -> Clusters]
      /\ \A k \in 1 .. len : op.chain[k] \in NewClusters /\ op.chain[k] \in Clusters
  BY <1>1, NewChain, Zenon DEF Inv
<1>3. /\ at \in 1 .. len /\ Filled(at - 1) /\ table = 1
      /\ writes \in 1 .. MaxWrites /\ op.contents = Contents(writes, len)
      /\ \A j, k \in 1 .. len : op.chain[j] = op.chain[k] => j = k
  <2>1. writes > 0 /\ writes \in 0 .. MaxWrites
    BY <1>1, Zenon DEF Inv, Locals, TypeOK
  <2> QED
    BY <1>1, <2>1, Sizes, SMTT(30) DEF Inv, Progress, Locals
<1>4. x \in NewClusters /\ x \in Clusters /\ op.contents[at] = <<writes, at>>
  BY <1>2, <1>3, Zenon DEF Contents
<1>5. DOMAIN data = Clusters
  BY Zenon DEF Inv, TypeOK
<1>6. \A c \in Clusters : data'[c] = IF c = x THEN <<writes, at>> ELSE data[c]
  BY <1>1, <1>4, <1>5, Zenon
<1>7. \A s \in HasFile : ClustersOf(s) \subseteq Clusters /\ x \notin ClustersOf(s)
  BY <1>1, <1>4, FileChain, Zenon DEF Inv, Aimed
<1>8. Untouched
  BY <1>1, <1>6, <1>7, Zenon DEF Untouched
<1>9. /\ Volume' /\ HasFile' = HasFile /\ Reserved' = Reserved
      /\ \A s \in HasFile : ClustersOf(s)' = ClustersOf(s)
  BY <1>8, FilesStay, Zenon DEF Inv
<1>10. Locals' /\ Aimed'
  BY <1>1, <1>3, <1>8, LocalsStay, AimStays, Zenon DEF Inv
<1>11. TypeOK'
  <2>1. <<writes, at>> \in (0 .. MaxWrites) \X (0 .. MAX_FILE_CLUSTERS)
    BY <1>2, <1>3, Sizes, SMTT(30)
  <2>2. data' \in [Clusters -> (0 .. MaxWrites) \X (0 .. MAX_FILE_CLUSTERS)]
    BY <1>1, <1>4, <2>1, Zenon DEF Inv, TypeOK
  <2>3. at' \in 0 .. MAX_FILE_CLUSTERS + 1
    BY <1>1, <1>2, <1>3, Sizes, SMTT(30)
  <2>4. pc' \in {"data", "chain"} /\ op # NoOp
    BY <1>1, Zenon DEF Inv, TypeOK
  <2> QED
    BY <1>1, <2>2, <2>3, <2>4, Zenon DEF Inv, TypeOK
<1>12. \A k \in 1 .. at : data'[op.chain[k]] = <<writes, k>>
  <2> TAKE k \in 1 .. at
  <2>1. k \in 1 .. len /\ (k = at \/ k \in 1 .. at - 1)
    BY <1>2, <1>3
  <2>2. k # at => op.chain[k] # x
    BY <1>3, <2>1, Zenon
  <2> QED
    BY <1>2, <1>3, <1>6, <2>1, <2>2, Zenon DEF Filled
<1>13. Progress'
  <2>1. CASE at = len
    <3>1. /\ pc' = "chain" /\ at' = 1 /\ op' = op /\ writes' = writes /\ table' = 1
          /\ 1 \in 1 .. len /\ at' - 1 = 0 /\ table' - 1 = 0 /\ \A k \in 1 .. 0 : FALSE
      BY <1>1, <1>2, <1>3, <2>1
    <3>2. Filled(Len(op.chain))'
      BY <1>12, <2>1, <3>1, Zenon DEF Filled
    <3> QED
      BY <3>1, <3>2, Zenon DEF Progress, Chained
  <2>2. CASE at # len
    <3>1. /\ pc' = "data" /\ at' = at + 1 /\ op' = op /\ writes' = writes
          /\ at + 1 \in 1 .. len /\ at' - 1 = at
      BY <1>1, <1>2, <1>3, <2>2
    <3>2. Filled(at - 1)'
      BY <1>12, <3>1, Zenon DEF Filled
    <3> QED
      BY <3>1, <3>2, Zenon DEF Progress
  <2> QED
    BY <2>1, <2>2, Zenon
<1>14. NothingLost'
  <2>1. Accounted({}) /\ Touched = {}
    BY <1>1, Zenon DEF Inv, NothingLost, Touched
  <2>2. Accounted({})' /\ Accounted(NewClusters)'
    BY <1>1, <1>9, <2>1, Zenon DEF Accounted, next_cluster
  <2> QED
    BY <1>1, <2>2, Zenon DEF NothingLost
<1>15. OldChain' /\ Hint'
  BY <1>1, Zenon DEF OldChain, Hint, Inv
<1> QED
  BY <1>8, <1>9, <1>10, <1>11, <1>13, <1>14, <1>15, Zenon DEF Inv

\* One entry of one copy of the table: what it was is known everywhere else.
LEMMA OneEntry ==
  ASSUME TypeOK, NEW x \in Clusters, NEW e, set_next_cluster(x, e)
  PROVE  /\ \A t \in Tables : \A c \in Clusters :
              fat'[t][c] = IF t = table /\ c = x THEN e ELSE fat[t][c]
         /\ e \in Entries => fat' \in [Tables -> [Clusters -> Entries]]
         /\ table' \in Tables /\ (LastTable => table' = 1)
         /\ ~LastTable => table' = table + 1
<1>1. /\ fat \in [Tables -> [Clusters -> Entries]] /\ table \in Tables
      /\ fat' = [fat EXCEPT ![table][x] = e] /\ table' = IF table = FAT_COUNT THEN 1 ELSE table + 1
  BY Zenon DEF TypeOK, set_next_cluster
<1>2. \A t \in Tables : \A c \in Clusters :
        fat'[t][c] = IF t = table /\ c = x THEN e ELSE fat[t][c]
  BY <1>1, Zenon
<1>3. e \in Entries => fat' \in [Tables -> [Clusters -> Entries]]
  BY <1>1, Zenon
<1>4. table' \in Tables
  BY <1>1, Sizes DEF Tables
<1> QED
  BY <1>1, <1>2, <1>3, <1>4, Zenon DEF LastTable

\* The new chain is linked in every copy before anything names it.
LEMMA WriteChainKeeps ==
  ASSUME Inv, WriteChain
  PROVE  Inv' /\ Untouched
<1> DEFINE x == op.chain[at]
           len == Len(op.chain)
           e == IF at = len THEN End ELSE op.chain[at + 1]
<1>1. /\ UNCHANGED <<data, dir, fs_info, op, old, next, writes, stopped, answer>>
      /\ pc = "chain" /\ set_next_cluster(x, e)
      /\ at' = (IF LastTable THEN at + 1 ELSE at)
      /\ pc' = (IF LastTable /\ at = len THEN "entry" ELSE "chain")
  BY Zenon DEF WriteChain, Last
<1>2. /\ len \in Nat /\ len <= MAX_FILE_CLUSTERS /\ op.chain \in [1 .. len -> Clusters]
      /\ \A k \in 1 .. len : op.chain[k] \in NewClusters /\ op.chain[k] \in Clusters
  BY <1>1, NewChain, Zenon DEF Inv
<1>3. /\ at \in 1 .. len /\ Filled(len) /\ Chained(at - 1)
      /\ \A t \in 1 .. table - 1 : fat[t][x] = Link(op.chain, len, at)
      /\ \A j, k \in 1 .. len : op.chain[j] = op.chain[k] => j = k
  BY <1>1, Zenon DEF Inv, Progress, Locals
<1>4. x \in NewClusters /\ x \in Clusters /\ e = Link(op.chain, len, at) /\ e \in Entries
  <2>1. at # len => at + 1 \in 1 .. len
    BY <1>2, <1>3
  <2> QED
    BY <1>2, <1>3, <2>1, Zenon DEF Link, Entries
<1>5. /\ \A t \in Tables : \A c \in Clusters :
           fat'[t][c] = IF t = table /\ c = x THEN e ELSE fat[t][c]
      /\ fat' \in [Tables -> [Clusters -> Entries]] /\ table' \in Tables
      /\ (LastTable => table' = 1) /\ (~LastTable => table' = table + 1)
  <2> HIDE DEF x, e
  <2> QED
    BY <1>1, <1>4, OneEntry, SMTT(30) DEF Inv
<1>6. /\ \A s \in HasFile : ClustersOf(s) \subseteq Clusters /\ x \notin ClustersOf(s)
      /\ x \notin Reserved /\ Reserved \subseteq Clusters
  BY <1>1, <1>4, FileChain, Sizes, Zenon DEF Inv, Aimed, Reserved
<1>7. Untouched
  <2> HIDE DEF x, e
  <2> QED
    BY <1>1, <1>5, <1>6, Zenon DEF Untouched
<1>8. /\ Volume' /\ HasFile' = HasFile /\ Reserved' = Reserved
      /\ \A s \in HasFile : ClustersOf(s)' = ClustersOf(s)
  BY <1>7, FilesStay, Zenon DEF Inv
<1>9. pc' = "entry" => table' = 1
  BY <1>1, <1>5, Zenon
<1>10. Locals' /\ Aimed'
  BY <1>1, <1>7, <1>9, LocalsStay, AimStays, Zenon DEF Inv
<1>11. TypeOK'
  <2>1. at' \in 0 .. MAX_FILE_CLUSTERS + 1
    BY <1>1, <1>2, <1>3, Sizes, SMTT(30)
  <2>2. pc' \in {"entry", "chain"} /\ op # NoOp
    BY <1>1, Zenon DEF Inv, TypeOK
  <2> QED
    BY <1>1, <1>5, <2>1, <2>2, Zenon DEF Inv, TypeOK
<1>12. \A t \in Tables : \A k \in 1 .. at - 1 : fat'[t][op.chain[k]] = Link(op.chain, len, k)
  <2> TAKE t \in Tables
  <2> TAKE k \in 1 .. at - 1
  <2>1. k \in 1 .. len /\ k # at
    BY <1>2, <1>3
  <2>2. op.chain[k] # x /\ op.chain[k] \in Clusters
    BY <1>2, <1>3, <2>1, Zenon
  <2>3. fat[t][op.chain[k]] = Link(op.chain, len, k)
    BY <1>3, Zenon DEF Chained
  <2> QED
    BY <1>5, <2>2, <2>3, Zenon
<1>13. \A t \in 1 .. table : fat'[t][x] = Link(op.chain, len, at)
  <2> TAKE t \in 1 .. table
  <2>1. table \in Tables
    BY Zenon DEF Inv, TypeOK
  <2>2. t \in Tables /\ (t = table \/ t \in 1 .. table - 1)
    BY <2>1, Sizes DEF Tables
  <2> HIDE DEF x, e
  <2> QED
    BY <1>3, <1>4, <1>5, <2>2, Zenon
<1>14. LastTable => \A t \in Tables : fat'[t][x] = Link(op.chain, len, at)
  BY <1>13, Zenon DEF LastTable, Tables
<1>15. Progress'
  <2>0. op' = op /\ writes' = writes /\ Filled(Len(op.chain))'
    BY <1>1, <1>3, Zenon DEF Filled
  <2>1. CASE ~LastTable
    <3>1. pc' = "chain" /\ at' = at /\ table' - 1 = table
      <4>1. table \in Nat
        BY Sizes, Zenon DEF Inv, TypeOK
      <4> QED
        BY <1>1, <1>5, <2>1, <4>1
    <3>2. Chained(at - 1)'
      BY <1>12, <2>0, <3>1, Zenon DEF Chained
    <3> QED
      BY <1>3, <1>13, <2>0, <3>1, <3>2, Zenon DEF Progress
  <2>2. CASE LastTable
    <3>1. table' = 1 /\ at' = at + 1 /\ table' - 1 = 0 /\ at' - 1 = at /\ \A t \in 1 .. 0 : FALSE
      BY <1>1, <1>3, <1>5, <2>2
    <3>2. \A t \in Tables : \A k \in 1 .. at : fat'[t][op.chain[k]] = Link(op.chain, len, k)
      <4>1. \A k \in 1 .. at : k = at \/ k \in 1 .. at - 1
        BY <1>3
      <4> QED
        BY <1>12, <1>14, <2>2, <4>1, Zenon
    <3>3. CASE at = len
      <4>1. pc' = "entry" /\ Chained(Len(op.chain))'
        BY <1>1, <2>0, <2>2, <3>2, <3>3, Zenon DEF Chained
      <4> QED
        BY <2>0, <4>1, Zenon DEF Progress
    <3>4. CASE at # len
      <4>1. pc' = "chain" /\ at + 1 \in 1 .. len
        BY <1>1, <1>2, <1>3, <3>4, SMTT(30)
      <4>2. Chained(at - 1)'
        BY <2>0, <3>1, <3>2, Zenon DEF Chained
      <4> QED
        BY <2>0, <3>1, <4>1, <4>2, Zenon DEF Progress
    <3> QED
      BY <3>3, <3>4, Zenon
  <2> QED
    BY <2>1, <2>2, Zenon
<1>16. Accounted(NewClusters)'
  <2>1. Accounted(NewClusters) /\ Touched = {x} /\ NewClusters' = NewClusters
    BY <1>1, Zenon DEF Inv, NothingLost, Touched, NewClusters
  <2>2. ~LastTable => Touched' = {x}
    BY <1>1, Zenon DEF Touched
  <2>3. ASSUME ~stopped, NEW c \in Clusters, c \notin Touched', NEW t \in Tables
        PROVE  fat'[t][c] = fat'[1][c]
    <3>1. CASE c = x
      <4>1. LastTable
        BY <2>2, <2>3, <3>1, Zenon
      <4> QED
        BY <1>14, <3>1, <4>1, Sizes, Zenon
    <3>2. CASE c # x
      <4>1. fat[t][c] = fat[1][c]
        BY <2>1, <2>3, <3>2, Zenon DEF Accounted
      <4> QED
        BY <1>5, <3>2, <4>1, Sizes
    <3> QED
      BY <3>1, <3>2, Zenon
  <2>4. \A c \in Clusters : fat'[1][c] # fat[1][c] => c \in NewClusters
    BY <1>4, <1>5, Sizes, Zenon
  <2>5. ASSUME ~stopped, NEW c \in Clusters, fat'[1][c] \notin {Free, Bad}
        PROVE  c \in Reserved \cup NewClusters \/ \E s \in HasFile : c \in ClustersOf(s)
    BY <2>1, <2>4, <2>5, Zenon DEF Accounted, next_cluster
  <2> QED
    BY <1>1, <1>8, <2>1, <2>3, <2>5, Zenon DEF Accounted, next_cluster
<1>17. NothingLost' /\ OldChain' /\ Hint'
  BY <1>1, <1>16, Zenon DEF NothingLost, OldChain, Hint, Inv
<1> QED
  BY <1>7, <1>8, <1>10, <1>11, <1>15, <1>17, Zenon DEF Inv

\* The chain of an entry that a step leaves is what it was, if the tables are.
LEMMA SameTables ==
  ASSUME fat' = fat, NEW s, dir'[s] = dir[s]
  PROVE  ChainOf(s)' = ChainOf(s) /\ ClustersOf(s)' = ClustersOf(s)
<1>1. PICK n, first : n = dir[s].size /\ first = dir[s].first_cluster
  BY Zenon
<1>2. Chain(first, n)' = Chain(first, n)
  BY DEF Chain, next_cluster
<1>3. ChainOf(s) = Chain(first, n) /\ ChainOf(s)' = Chain(first, n)'
  BY <1>1 DEF ChainOf, Chain, next_cluster
<1> QED
  BY <1>1, <1>2, <1>3, Zenon DEF ClustersOf

\* The sector that makes it a file changes one slot, from a file of that
\* name or from nothing, to an entry that is whole.
LEMMA EntryFacts ==
  ASSUME Inv, WriteEntry, NEW slot, slot = op.slot
  PROVE  /\ slot \in Slots /\ dir[slot] # SubDir /\ dir[slot] # Label
         /\ dir'[slot] \in Files /\ dir'[slot].name = op.name
         /\ dir'[slot].size = Len(op.chain)
         /\ \A s \in Slots \ {slot} : /\ dir'[s] = dir[s]
                                         /\ ChainOf(s)' = ChainOf(s)
                                         /\ ClustersOf(s)' = ClustersOf(s)
         /\ ChainOf(slot)' = op.chain /\ ClustersOf(slot)' = NewClusters
         /\ HasFile' = HasFile \cup {slot} /\ Reserved' = Reserved
<1> DEFINE len == Len(op.chain)
           first == IF op.chain = <<>> THEN 0 ELSE op.chain[1]
           ent == [kind |-> "file", name |-> op.name, size |-> len, first_cluster |-> first]
<1>1. /\ UNCHANGED <<fat, data, fs_info, op, at, table, next, writes, stopped, answer>>
      /\ pc = "entry" /\ dir' = [dir EXCEPT ![slot] = ent]
      /\ old' = op.existing /\ pc' = IF op.existing = 0 THEN "info" ELSE "walk"
  BY Zenon DEF WriteEntry
<1>2. /\ len \in Nat /\ len <= MAX_FILE_CLUSTERS /\ op.chain \in [1 .. len -> Clusters]
      /\ DOMAIN op.chain = 1 .. len
      /\ \A k \in 1 .. len : op.chain[k] \in NewClusters /\ op.chain[k] \in Clusters
  BY <1>1, NewChain, Zenon DEF Inv
<1>3. slot \in Slots /\ op.name \in AllNames /\ dir[slot].kind # "dir"
      /\ slot = directory_slot(op.name) /\ Named(op.name) \cup ForNewEntry # {}
  BY <1>1, Zenon DEF Inv, Locals, Aimed
<1>4. dir[slot] # SubDir
  <2>1. SubDir.kind = "dir"
    BY Zenon DEF SubDir
  <2> QED
    BY <1>3, <2>1, Zenon
<1>5. dir[slot] # Label
  <2>1. CASE Named(op.name) # {}
    BY <1>3, <2>1, SlotFound DEF Inv, Named, Label
  <2>2. CASE Named(op.name) = {}
    <3>1. slot \in ForNewEntry
      BY <1>3, <2>2, SlotFound, Zenon DEF Inv
    <3>2. dir[slot] = Deleted \/ dir[slot] = NeverUsed
      BY <3>1, Directory, Zenon DEF Inv, DirectoryRead, ForNewEntry
    <3> QED
      BY <3>2 DEF Label, Deleted, NeverUsed
  <2> QED
    BY <2>1, <2>2, Zenon
<1>6. first \in Clusters \cup {0} /\ (first = IF len = 0 THEN 0 ELSE op.chain[1])
  <2>1. op.chain \in Seq(Clusters)
    BY <1>1, Zenon DEF Inv, Locals
  <2>2. op.chain = <<>> <=> len = 0
    BY <2>1
  <2>3. len # 0 => 1 \in 1 .. len
    BY <1>2, SMTT(30)
  <2> QED
    BY <1>2, <2>2, <2>3, Zenon
<1>7. ent \in Files /\ ent.name = op.name /\ ent.size = len /\ ent.first_cluster = first
      /\ ent.kind = "file"
  <2>1. len \in 0 .. MAX_FILE_CLUSTERS
    BY <1>2, Sizes
  <2> HIDE DEF len, first
  <2> QED
    BY <1>3, <1>6, <2>1, Zenon DEF Files, AllNames
<1>8. dir \in [Slots -> {NeverUsed, Deleted, Label, SubDir} \cup Files]
  BY Zenon DEF Inv, Volume
<1>9. dir'[slot] = ent /\ \A s \in Slots \ {slot} : dir'[s] = dir[s]
  <2> HIDE DEF ent
  <2> QED
    BY <1>1, <1>3, <1>8, Zenon
<1>10. \A s \in Slots \ {slot} : ChainOf(s)' = ChainOf(s) /\ ClustersOf(s)' = ClustersOf(s)
  BY <1>1, <1>9, SameTables, Zenon
<1>11. ChainOf(slot)' = op.chain
  <2>1. PICK c, n, f : c = op.chain /\ n = len /\ f = first
    BY Zenon
  <2>2. n \in Nat /\ c \in [1 .. n -> Clusters] /\ (n > 0 => c[1] = f)
    BY <1>2, <1>6, <2>1
  <2>3. \A k \in 1 .. n - 1 : next_cluster(c[k]) = c[k + 1]
    <3> TAKE k \in 1 .. n - 1
    <3>1. k \in 1 .. n /\ k # n
      BY <2>2, SMTT(30)
    <3>2. fat[1][c[k]] = Link(c, n, k)
      BY <1>1, <2>1, <3>1, Sizes, Zenon DEF Inv, Progress, Chained
    <3> QED
      BY <3>1, <3>2, Zenon DEF next_cluster, Link
  <2>4. Chain(f, n) = c
    BY <2>2, <2>3, Followed, Zenon DEF ChainsAreFollowed
  <2>5. Chain(f, n)' = Chain(f, n)
    BY <1>1, SMTT(30) DEF Chain, next_cluster
  <2>6. n = dir'[slot].size /\ f = dir'[slot].first_cluster
    BY <1>7, <1>9, <2>1, Zenon
  <2>7. ChainOf(slot)' = Chain(f, n)'
    BY <2>6, SMTT(30) DEF ChainOf, Chain, next_cluster
  <2> QED
    BY <2>1, <2>4, <2>5, <2>7, Zenon
<1>12. ClustersOf(slot)' = NewClusters
  <2>1. dir'[slot].size = len
    BY <1>1, <1>7, <1>9, Zenon
  <2>2. ClustersOf(slot)' = {op.chain[k] : k \in 1 .. len}
    BY <1>11, <2>1, Zenon DEF ClustersOf
  <2>3. DOMAIN op.chain = 1 .. len
    BY <1>2, Zenon
  <2> QED
    BY <2>2, <2>3, Zenon DEF NewClusters
<1>13. HasFile' = HasFile \cup {slot}
  <2>1. dir'[slot].kind = "file" /\ slot \in Slots
    BY <1>3, <1>7, <1>9, ZenonT(30)
  <2>2. \A s \in Slots \ {slot} : dir'[s].kind = dir[s].kind
    BY <1>9, Zenon
  <2> QED
    BY <2>1, <2>2, Zenon DEF HasFile
<1>14. Reserved' = Reserved
  <2>1. ent # SubDir
    BY <1>7, ZenonT(30) DEF SubDir
  <2>2. \A s \in Slots : dir'[s] = SubDir <=> dir[s] = SubDir
    BY <1>4, <1>9, <2>1, Zenon
  <2> QED
    BY <2>2, Zenon DEF Reserved
<1> HIDE DEF ent, first
<1> QED
  BY <1>3, <1>4, <1>5, <1>7, <1>9, <1>10, <1>11, <1>12, <1>13, <1>14, Zenon

-----------------------------------------------------------------------------
\* After the entry, what the old file had is on no chain of any file.
LEMMA WriteEntryKeeps ==
  ASSUME Inv, WriteEntry
  PROVE  Inv'
<1> DEFINE len == Len(op.chain)
<1>0. PICK slot : slot = op.slot
  BY Zenon
<1>1. /\ UNCHANGED <<fat, data, fs_info, op, at, table, next, writes, stopped, answer>>
      /\ pc = "entry" /\ DOMAIN dir' = DOMAIN dir
      /\ old' = op.existing /\ pc' = IF op.existing = 0 THEN "info" ELSE "walk"
  BY Zenon DEF WriteEntry
<1>2. /\ slot \in Slots /\ dir[slot] # SubDir /\ dir[slot] # Label
      /\ dir'[slot] \in Files /\ dir'[slot].name = op.name
      /\ dir'[slot].size = Len(op.chain)
      /\ \A s \in Slots \ {slot} : /\ dir'[s] = dir[s]
                                      /\ ChainOf(s)' = ChainOf(s)
                                      /\ ClustersOf(s)' = ClustersOf(s)
      /\ ChainOf(slot)' = op.chain /\ ClustersOf(slot)' = NewClusters
      /\ HasFile' = HasFile \cup {slot} /\ Reserved' = Reserved
  BY <1>0, EntryFacts, Zenon
<1>3. /\ len \in Nat /\ op.chain \in [1 .. len -> Clusters]
      /\ writes \in 1 .. MaxWrites /\ Filled(len) /\ Chained(len)
  <2>1. writes > 0 /\ writes \in 0 .. MaxWrites
    BY <1>1, Zenon DEF Inv, Locals, TypeOK
  <2> QED
    BY <1>1, <2>1, NewChain, Sizes DEF Inv, Progress
<1>4. /\ slot = directory_slot(op.name) /\ Named(op.name) \cup ForNewEntry # {}
      /\ op.existing = IF dir[slot].kind = "file" THEN dir[slot].first_cluster ELSE 0
      /\ NewClusters \cap Reserved = {} /\ \A s \in HasFile : ClustersOf(s) \cap NewClusters = {}
      /\ table = 1 /\ op.existing \in Clusters \cup {0} /\ op # NoOp
  BY <1>0, <1>1, Zenon DEF Inv, Aimed, Locals, TypeOK
<1>5. /\ dir \in [Slots -> {NeverUsed, Deleted, Label, SubDir} \cup Files]
      /\ \A s, t \in Slots : s < t /\ dir[s] = NeverUsed => dir[t] = NeverUsed
      /\ \A s, t \in Slots :
           dir[s].kind \in {"file", "dir"} /\ dir[t].kind \in {"file", "dir"} /\ s # t
             => dir[s].name # dir[t].name
      /\ \A s \in HasFile : Whole(dir[s], ChainOf(s)) /\ ClustersOf(s) \cap Reserved = {}
      /\ \A s, t \in HasFile : s # t => ClustersOf(s) \cap ClustersOf(t) = {}
      /\ \A c \in Reserved : \A t \in Tables : fat[t][c] = End
  BY Zenon DEF Inv, Volume
<1>6. \A s \in HasFile : s \in Slots
  BY Zenon DEF HasFile
<1>7. dir' \in [Slots -> {NeverUsed, Deleted, Label, SubDir} \cup Files]
  BY <1>0, <1>2, <1>5, Zenon DEF WriteEntry
<1>8. \A s, t \in Slots : s < t /\ dir'[s] = NeverUsed => dir'[t] = NeverUsed
  <2> SUFFICES ASSUME NEW s \in Slots, NEW t \in Slots, s < t, dir'[s] = NeverUsed
               PROVE  dir'[t] = NeverUsed
    BY Zenon
  <2>1. dir'[slot] # NeverUsed
    BY <1>2, SlotKinds, Zenon DEF NeverUsed
  <2>2. s # slot /\ dir[s] = NeverUsed /\ dir[t] = NeverUsed
    BY <1>2, <1>5, <2>1, Zenon
  <2>3. t # slot
    <3> SUFFICES ASSUME t = slot PROVE FALSE
      BY Zenon
    <3>1. Named(op.name) = {}
      <4>1. Named(op.name) # {} => dir[slot].kind \in {"file", "dir"}
        BY <1>4, SlotFound, Zenon DEF Inv, Named
      <4> QED
        BY <2>2, <4>1 DEF NeverUsed
    <3>2. slot \in ForNewEntry /\ \A u \in ForNewEntry : slot <= u
      BY <1>4, <3>1, SlotFound, Zenon DEF Inv
    <3>3. Scanned = {u \in Slots : dir[u] # NeverUsed}
      BY Directory, Zenon DEF Inv, DirectoryRead
    <3>4. ForNewEntry = Slots \ Scanned
      BY <2>2, <3>2, <3>3, Zenon DEF ForNewEntry
    <3>5. s \in ForNewEntry
      BY <2>2, <3>3, <3>4, Zenon
    <3> QED
      BY <3>2, <3>5, Sizes
  <2> QED
    BY <1>2, <2>2, <2>3, Zenon
<1>9. \A s \in Slots \ {slot} : dir[s].kind \in {"file", "dir"} => dir[s].name # op.name
  <2> SUFFICES ASSUME NEW s \in Slots \ {slot}, dir[s].kind \in {"file", "dir"}, dir[s].name = op.name
               PROVE  FALSE
    BY Zenon
  <2>1. \A n : Named(n) = {t \in Slots : dir[t].kind \in {"file", "dir"} /\ dir[t].name = n}
    BY Directory, Zenon DEF Inv, DirectoryRead
  <2>2. s \in Named(op.name)
    BY <2>1, Zenon
  <2>3. slot \in Named(op.name)
    BY <1>4, <2>2, SlotFound, Zenon DEF Inv
  <2>4. dir[slot].kind \in {"file", "dir"} /\ dir[slot].name = op.name
    BY <2>1, <2>3, Zenon
  <2>5. slot \in Slots /\ s # slot
    BY <1>2, Zenon
  <2>6. \A t \in Slots : dir[s].kind \in {"file", "dir"} /\ dir[t].kind \in {"file", "dir"} /\ s # t
                          => dir[s].name # dir[t].name
    BY <1>5, Zenon
  <2> QED
    BY <2>4, <2>5, <2>6, Zenon
<1>10. \A s, t \in Slots :
         dir'[s].kind \in {"file", "dir"} /\ dir'[t].kind \in {"file", "dir"} /\ s # t
           => dir'[s].name # dir'[t].name
  BY <1>2, <1>5, <1>9
<1>11. Whole(dir[slot], ChainOf(slot))'
  <2>1. /\ dir'[slot].size = len
        /\ dir'[slot].first_cluster = IF len = 0 THEN 0 ELSE op.chain[1]
    <3>1. op.chain \in Seq(Clusters)
      BY <1>1, Zenon DEF Inv, Locals
    <3>2. op.chain = <<>> <=> len = 0
      BY <3>1
    <3>3. dir'[slot].first_cluster = IF op.chain = <<>> THEN 0 ELSE op.chain[1]
      BY <1>0, <1>2, <1>5, Zenon DEF WriteEntry
    <3> QED
      BY <1>1, <1>2, <3>2, <3>3, Zenon
  <2>2. Linked(ChainOf(slot), dir[slot].size, 1)'
    BY <1>1, <1>2, <1>3, <2>1 DEF Linked, Chained, Link
  <2>3. \A k \in 1 .. len : data'[op.chain[k]] = <<writes, k>>
    BY <1>1, <1>3, Zenon DEF Filled
  <2> QED
    BY <1>2, <1>3, <2>1, <2>2, <2>3, Zenon DEF Whole
<1>12. ASSUME NEW s \in HasFile, s # slot
       PROVE  Whole(dir[s], ChainOf(s))'
  <2>1. dir'[s] = dir[s] /\ ChainOf(s)' = ChainOf(s) /\ Whole(dir[s], ChainOf(s))
    BY <1>2, <1>5, <1>6, <1>12, Zenon
  <2>2. Linked(ChainOf(s), dir[s].size, 1)'
    BY <1>1, <2>1 DEF Whole, Linked, Link
  <2> QED
    BY <1>1, <2>1, <2>2, Zenon DEF Whole
<1>13. \A s \in HasFile' : Whole(dir[s], ChainOf(s))' /\ ClustersOf(s)' \cap Reserved' = {}
  <2>1. \A s \in HasFile' : Whole(dir[s], ChainOf(s))'
    BY <1>2, <1>11, <1>12, Zenon
  <2>2. \A s \in HasFile' : ClustersOf(s)' \cap Reserved' = {}
    <3>1. HasFile' = HasFile \cup {slot} /\ ClustersOf(slot)' = NewClusters /\ Reserved' = Reserved
      BY <1>2, Zenon
    <3>2. \A u \in HasFile : u # slot => ClustersOf(u)' = ClustersOf(u)
      BY <1>2, <1>6, Zenon
    <3>3. NewClusters \cap Reserved = {} /\ \A u \in HasFile : ClustersOf(u) \cap Reserved = {}
      BY <1>4, <1>5, Zenon
    <3> QED
      BY <3>1, <3>2, <3>3, Zenon
  <2> QED
    BY <2>1, <2>2, Zenon
<1>14. \A s, t \in HasFile' : s # t => ClustersOf(s)' \cap ClustersOf(t)' = {}
  <2>1. HasFile' = HasFile \cup {slot} /\ ClustersOf(slot)' = NewClusters
    BY <1>2, Zenon
  <2>2. \A u \in HasFile : u # slot => ClustersOf(u)' = ClustersOf(u)
    BY <1>2, <1>6, Zenon
  <2>3. \A u \in HasFile : ClustersOf(u) \cap NewClusters = {}
    BY <1>4, Zenon
  <2>4. \A u, v \in HasFile : u # v => ClustersOf(u) \cap ClustersOf(v) = {}
    BY <1>5, Zenon
  <2> QED
    BY <2>1, <2>2, <2>3, <2>4
<1>15. Volume'
  BY <1>1, <1>2, <1>5, <1>7, <1>8, <1>10, <1>13, <1>14, Zenon DEF Volume
<1>16. pc' \in {"info", "walk"} /\ (op.existing = 0 => pc' = "info") /\ (op.existing # 0 => pc' = "walk")
  BY <1>1, Zenon
<1>17. TypeOK'
  <2>1. \A s \in Slots : dir'[s] \in {NeverUsed, Deleted, Label, SubDir} \cup Files
    BY <1>7, Zenon
  <2> QED
    BY <1>1, <1>4, <1>16, <2>1, Zenon DEF Inv, TypeOK
<1>18. Locals'
  BY <1>1, <1>4, <1>16, LocalsStay, Zenon DEF Inv
<1>19. Aimed' /\ Progress' /\ Hint'
  BY <1>1, <1>16, ZenonT(30) DEF Inv, Aimed, Progress, Hint
<1>20. Accounted(NewClusters) /\ Touched = {} /\ Touched' = {} /\ NewClusters' = NewClusters
  BY <1>1, <1>16, Zenon DEF Inv, NothingLost, Touched, NewClusters
<1>21. CASE op.existing = 0
  <2>1. slot \in HasFile => ClustersOf(slot) = {}
    <3> SUFFICES ASSUME slot \in HasFile PROVE ClustersOf(slot) = {}
      BY Zenon
    <3>1. dir[slot].first_cluster = 0
      BY <1>4, <1>21, Zenon DEF HasFile
    <3>2. dir[slot].size \in Nat /\ Whole(dir[slot], ChainOf(slot))
      BY <1>5, FileChain, Zenon DEF Inv
    <3>3. dir[slot].size # 0 => ChainOf(slot)[1] \in Clusters /\ dir[slot].first_cluster = ChainOf(slot)[1]
      BY <3>2 DEF Whole
    <3>4. dir[slot].size = 0
      BY <3>1, <3>3, Sizes, Zenon
    <3> QED
      BY <3>4 DEF ClustersOf
  <2>2. Accounted({})'
    <3>1. ASSUME ~stopped, NEW c \in Clusters, NEW t \in Tables
          PROVE  fat[t][c] = fat[1][c]
      BY <1>20, <3>1, Zenon DEF Accounted
    <3>2. ASSUME ~stopped, NEW c \in Clusters, fat[1][c] \notin {Free, Bad}
          PROVE  c \in Reserved' \/ \E s \in HasFile' : c \in ClustersOf(s)'
      <4>1. c \in Reserved \cup NewClusters \/ \E s \in HasFile : c \in ClustersOf(s)
        BY <1>20, <3>2, Zenon DEF Accounted, next_cluster
      <4>2. CASE c \in NewClusters
        BY <1>2, <4>2, Zenon
      <4>3. CASE \E s \in HasFile : c \in ClustersOf(s)
        <5>1. PICK s \in HasFile : c \in ClustersOf(s)
          BY <4>3, Zenon
        <5>2. s # slot
          BY <2>1, <5>1, Zenon
        <5> QED
          BY <1>2, <1>6, <5>1, <5>2, Zenon
      <4> QED
        BY <1>2, <4>1, <4>2, <4>3, Zenon
    <3> QED
      BY <1>1, <3>1, <3>2, Zenon DEF Accounted, next_cluster
  <2>3. NothingLost' /\ OldChain'
    BY <1>16, <1>21, <2>2, Zenon DEF NothingLost, OldChain
  <2> QED
    BY <1>15, <1>17, <1>18, <1>19, <2>3, Zenon DEF Inv
<1>22. CASE op.existing # 0
  <2>1. slot \in HasFile /\ op.existing = dir[slot].first_cluster
    BY <1>2, <1>4, <1>22, Zenon DEF HasFile
  <2>2. PICK c, n : c = ChainOf(slot) /\ n = dir[slot].size
    BY Zenon
  <2>3. /\ n \in Nat /\ n <= MAX_FILE_CLUSTERS /\ c \in [1 .. n -> Clusters]
        /\ \A k \in 1 .. n : c[k] \in ClustersOf(slot)
        /\ Whole(dir[slot], c) /\ ClustersOf(slot) = {c[k] : k \in 1 .. n}
    BY <1>5, <2>1, <2>2, FileChain DEF Inv, ClustersOf
  <2>4. n # 0 /\ c[1] = op.existing /\ n \in 1 .. MAX_FILE_CLUSTERS
    <3>1. n # 0 /\ c[1] = op.existing
      BY <1>22, <2>1, <2>2, <2>3, Zenon DEF Whole
    <3> QED
      BY <2>3, <3>1, Sizes
  <2>5. \A j, k \in 1 .. n : c[j] = c[k] => j = k
    <3>1. PICK v \in 1 .. MaxWrites : \A k \in 1 .. n : data[c[k]] = <<v, k>>
      BY <2>2, <2>3, Zenon DEF Whole
    <3>2. \A j, k \in 1 .. n : <<v, j>> = <<v, k>> => j = k
      BY Zenon
    <3> QED
      BY <3>1, <3>2
  <2>6. \A k \in 1 .. n : /\ c[k] \notin Reserved' \cup NewClusters'
                          /\ \A s \in HasFile' : c[k] \notin ClustersOf(s)'
    <3> TAKE k \in 1 .. n
    <3>1. c[k] \in ClustersOf(slot) /\ c[k] \notin Reserved /\ c[k] \notin NewClusters
      BY <1>4, <1>5, <2>1, <2>3, Zenon
    <3>2. \A s \in HasFile : s # slot => c[k] \notin ClustersOf(s)'
      BY <1>2, <1>5, <1>6, <2>1, <3>1, ZenonT(30)
    <3>3. c[k] \notin ClustersOf(slot)'
      BY <1>2, <3>1, Zenon
    <3> QED
      BY <1>2, <1>20, <3>1, <3>2, <3>3, Zenon
  <2>7. Linked(c, n, 1)'
    BY <1>1, <2>2, <2>3, Zenon DEF Whole, Linked, Link
  <2>8. Accounted({c[k] : k \in 1 .. n})'
    <3>1. ASSUME ~stopped, NEW d \in Clusters, NEW t \in Tables
          PROVE  fat[t][d] = fat[1][d]
      BY <1>20, <3>1, Zenon DEF Accounted
    <3>2. ASSUME ~stopped, NEW d \in Clusters, fat[1][d] \notin {Free, Bad}
          PROVE  d \in Reserved' \cup ClustersOf(slot) \/ \E s \in HasFile' : d \in ClustersOf(s)'
      <4>1. d \in Reserved \cup NewClusters \/ \E s \in HasFile : d \in ClustersOf(s)
        BY <1>20, <3>2, Zenon DEF Accounted, next_cluster
      <4>2. CASE d \in NewClusters
        BY <1>2, <4>2, Zenon
      <4>3. CASE \E s \in HasFile : d \in ClustersOf(s)
        <5>1. PICK s \in HasFile : d \in ClustersOf(s)
          BY <4>3, Zenon
        <5> QED
          BY <1>2, <1>6, <5>1, Zenon
      <4> QED
        BY <1>2, <4>1, <4>2, <4>3, Zenon
    <3> QED
      BY <1>1, <2>3, <3>1, <3>2, Zenon DEF Accounted, next_cluster
  <2>9. Rest(n, c)'
    BY <1>1, <1>16, <1>22, <2>3, <2>4, <2>5, <2>6, <2>7, <2>8, Zenon DEF Rest
  <2>10. NothingLost' /\ OldChain'
    BY <1>16, <1>22, <2>3, <2>4, <2>9, Zenon DEF NothingLost, OldChain
  <2> QED
    BY <1>15, <1>17, <1>18, <1>19, <2>10, Zenon DEF Inv
<1> QED
  BY <1>21, <1>22, Zenon

\* The old chain is read: its next cluster is there, and is neither free nor
\* one of the new file's.
LEMMA WalkOldChainKeeps ==
  ASSUME Inv, WalkOldChain
  PROVE  Inv' /\ Untouched
<1>1. /\ UNCHANGED <<fat, data, dir, fs_info, op, at, table, old, writes, stopped, answer>>
      /\ pc = "walk" /\ next' = fat[1][old]
      /\ pc' = IF fat[1][old] = Free \/ old \in NewClusters THEN "info" ELSE "free"
  BY Zenon DEF WalkOldChain, disk, next_cluster
<1>2. PICK n \in 1 .. MAX_FILE_CLUSTERS : \E c \in [1 .. n -> Clusters] : Rest(n, c)
  BY <1>1, Zenon DEF Inv, OldChain
<1>3. PICK c \in [1 .. n -> Clusters] : Rest(n, c)
  BY <1>2, Zenon
<1>4. n \in Nat /\ 1 \in 1 .. n /\ \A k \in 2 .. n : k \in 1 .. n
  BY Sizes
<1>5. fat[1][old] = Link(c, n, 1) /\ old = c[1] /\ old \notin NewClusters /\ old \in Clusters
  BY <1>1, <1>3, <1>4, Sizes, Zenon DEF Rest, Linked
<1>6. Link(c, n, 1) \in Clusters \cup {End}
  <2>1. n # 1 => 1 + 1 \in 1 .. n
    BY <1>4
  <2> QED
    BY <1>3, <2>1, Zenon DEF Link
<1>7. pc' = "free" /\ next' = Link(c, n, 1) /\ table = 1 /\ op # NoOp
  BY <1>1, <1>5, <1>6, Sizes, Zenon DEF Inv, Locals, TypeOK
<1>8. Untouched
  BY <1>1, Zenon DEF Untouched
<1>9. /\ Volume' /\ HasFile' = HasFile /\ Reserved' = Reserved
      /\ \A s \in HasFile : ClustersOf(s)' = ClustersOf(s)
  BY <1>8, FilesStay, Zenon DEF Inv
<1>10. TypeOK'
  BY <1>1, <1>6, <1>7, Zenon DEF Inv, TypeOK, Entries
<1>11. Locals'
  BY <1>1, <1>7, LocalsStay, Zenon DEF Inv
<1>12. Rest(n, c)'
  <2>1. Linked(c, n, 2)'
    BY <1>1, <1>3, <1>4, Zenon DEF Rest, Linked, Link
  <2>2. \A t \in 1 .. table' - 1 : FALSE
    BY <1>1, <1>7
  <2>3. Accounted({c[k] : k \in 1 .. n})'
    <3>1. Accounted({c[k] : k \in 1 .. n}) /\ Touched = {}
      BY <1>1, <1>3, Zenon DEF Rest, Touched
    <3> QED
      BY <1>1, <1>9, <3>1, Zenon DEF Accounted, next_cluster
  <2>4. NewClusters' = NewClusters
    BY <1>1, Zenon DEF NewClusters
  <2>5. \A k \in 1 .. n : /\ c[k] \notin Reserved' \cup NewClusters'
                          /\ \A s \in HasFile' : c[k] \notin ClustersOf(s)'
    BY <1>3, <1>9, <2>4 DEF Rest
  <2>6. old' = c[1] /\ Link(c, n, 1)' = Link(c, n, 1) /\ \A j, k \in 1 .. n : c[j] = c[k] => j = k
    BY <1>1, <1>3, <1>5, Zenon DEF Rest, Link
  <2> QED
    BY <1>3, <1>7, <2>1, <2>2, <2>3, <2>5, <2>6, Zenon DEF Rest
<1>13. OldChain' /\ NothingLost' /\ Aimed' /\ Progress' /\ Hint'
  BY <1>1, <1>2, <1>3, <1>7, <1>12, Zenon DEF Inv, OldChain, NothingLost, Aimed, Progress, Hint
<1> QED
  BY <1>8, <1>9, <1>10, <1>11, <1>13, Zenon DEF Inv

\* A cluster of the old chain is freed, one copy of the table at a time.
LEMMA FreeOldClusterKeeps ==
  ASSUME Inv, FreeOldCluster
  PROVE  Inv' /\ Untouched
<1>1. /\ UNCHANGED <<data, dir, fs_info, op, at, next, writes, stopped, answer>>
      /\ pc = "free" /\ set_next_cluster(old, Free)
      /\ old' = (IF LastTable /\ next \in Clusters THEN next ELSE old)
      /\ pc' = IF ~LastTable THEN "free" ELSE IF next \in Clusters THEN "walk" ELSE "info"
  BY Zenon DEF FreeOldCluster
<1>2. PICK n \in 1 .. MAX_FILE_CLUSTERS : \E c \in [1 .. n -> Clusters] : Rest(n, c)
  BY <1>1, Zenon DEF Inv, OldChain
<1>3. PICK c \in [1 .. n -> Clusters] : Rest(n, c)
  BY <1>2, Zenon
<1>4. n \in Nat /\ 1 \in 1 .. n /\ (\A k \in 2 .. n : k \in 1 .. n /\ k # 1) /\ (n # 1 => 2 \in 1 .. n)
  BY Sizes
<1>5. /\ old = c[1] /\ old \in Clusters /\ old \notin Reserved \cup NewClusters
      /\ \A s \in HasFile : old \notin ClustersOf(s)
      /\ \A j, k \in 1 .. n : c[j] = c[k] => j = k
      /\ \A t \in Tables : \A k \in 2 .. n : fat[t][c[k]] = Link(c, n, k)
      /\ next = Link(c, n, 1) /\ \A t \in 1 .. table - 1 : fat[t][old] = Free
  BY <1>1, <1>3, <1>4, Zenon DEF Rest, Linked
<1>6. /\ \A t \in Tables : \A d \in Clusters :
           fat'[t][d] = IF t = table /\ d = old THEN Free ELSE fat[t][d]
      /\ fat' \in [Tables -> [Clusters -> Entries]] /\ table' \in Tables
      /\ (LastTable => table' = 1) /\ (~LastTable => table' = table + 1)
  BY <1>1, <1>5, OneEntry, SMTT(30) DEF Inv, Entries
<1>7. Untouched
  <2>1. \A s \in HasFile : ClustersOf(s) \subseteq Clusters
    BY FileChain, Zenon DEF Inv
  <2>2. Reserved \subseteq Clusters
    BY Sizes, Zenon DEF Reserved
  <2> QED
    BY <1>1, <1>5, <1>6, <2>1, <2>2, SMTT(30) DEF Untouched
<1>8. /\ Volume' /\ HasFile' = HasFile /\ Reserved' = Reserved /\ NewClusters' = NewClusters
      /\ \A s \in HasFile : ClustersOf(s)' = ClustersOf(s)
  BY <1>1, <1>7, FilesStay, Zenon DEF Inv, NewClusters
<1>9. /\ Accounted({c[k] : k \in 1 .. n}) /\ Touched = {old} /\ op # NoOp
  BY <1>1, <1>3, Zenon DEF Rest, Touched, Inv, TypeOK
<1>10. TypeOK'
  <2>1. pc' \in {"free", "walk", "info"} /\ old' \in Clusters \cup {0}
    BY <1>1, <1>5, Zenon
  <2> QED
    BY <1>1, <1>6, <1>9, <2>1, Zenon DEF Inv, TypeOK
<1>11. Locals'
  <2>1. pc' \notin {"chain", "free"} => table' = 1
    BY <1>1, <1>6, Zenon
  <2> QED
    BY <1>1, <2>1, LocalsStay, Zenon DEF Inv
<1>12. Aimed' /\ Progress' /\ Hint'
  BY <1>1, Zenon DEF Inv, Aimed, Progress, Hint
<1>13. \A t \in Tables : \A k \in 2 .. n : fat'[t][c[k]] = Link(c, n, k)
  <2>1. \A k \in 2 .. n : c[k] # old /\ c[k] \in Clusters
    BY <1>4, <1>5, Zenon
  <2> QED
    BY <1>5, <1>6, <2>1
<1>14. \A t \in 1 .. table : fat'[t][old] = Free
  <2> TAKE t \in 1 .. table
  <2>1. table \in Tables
    BY Zenon DEF Inv, TypeOK
  <2>2. t \in Tables /\ (t = table \/ t \in 1 .. table - 1)
    BY <2>1, Sizes DEF Tables
  <2> QED
    BY <1>5, <1>6, <2>2, Zenon
<1>15. LastTable => \A t \in Tables : fat'[t][old] = Free
  BY <1>14, Zenon DEF LastTable, Tables
<1>16. ASSUME ~stopped, NEW d \in Clusters, d # old \/ LastTable, NEW t \in Tables
       PROVE  fat'[t][d] = fat'[1][d]
  <2>1. CASE d = old
    BY <1>15, <1>16, <2>1, Sizes, Zenon
  <2>2. CASE d # old
    <3>1. fat[t][d] = fat[1][d]
      BY <1>9, <1>16, <2>2, Zenon DEF Accounted
    <3> QED
      BY <1>6, <2>2, <3>1, Sizes
  <2> QED
    BY <2>1, <2>2, Zenon
<1>17. ASSUME ~stopped, NEW d \in Clusters, fat'[1][d] \notin {Free, Bad}
       PROVE  \/ d \in Reserved \/ \E s \in HasFile : d \in ClustersOf(s)
              \/ \E k \in 1 .. n : d = c[k] /\ (LastTable => k # 1)
  <2>1. fat[1][d] \notin {Free, Bad}
    BY <1>6, <1>17, Sizes, Zenon
  <2>2. \/ d \in Reserved \/ \E s \in HasFile : d \in ClustersOf(s)
        \/ \E k \in 1 .. n : d = c[k]
    BY <1>9, <1>17, <2>1, Zenon DEF Accounted, next_cluster
  <2>3. LastTable => d # c[1]
    BY <1>5, <1>15, <1>17, Sizes, Zenon
  <2> QED
    BY <2>2, <2>3, Zenon
<1>18. CASE ~LastTable
  <2>1. pc' = "free" /\ old' = old /\ table' = table + 1 /\ table' - 1 = table
    <3>1. table \in Nat
      BY Sizes, Zenon DEF Inv, TypeOK
    <3> QED
      BY <1>1, <1>6, <1>18, <3>1, SMTT(30)
  <2>2. Accounted({c[k] : k \in 1 .. n})'
    <3>1. Touched' = {old}
      BY <2>1, Zenon DEF Touched
    <3> QED
      BY <1>1, <1>8, <1>16, <1>17, <3>1 DEF Accounted, next_cluster
  <2>3. Linked(c, n, 2)' /\ Link(c, n, 1)' = Link(c, n, 1)
    BY <1>13, Zenon DEF Linked, Link
  <2>4. \A k \in 1 .. n : /\ c[k] \notin Reserved' \cup NewClusters'
                          /\ \A s \in HasFile' : c[k] \notin ClustersOf(s)'
    BY <1>3, <1>8 DEF Rest
  <2>5. Rest(n, c)'
    BY <1>1, <1>3, <1>5, <1>14, <2>1, <2>2, <2>3, <2>4, Zenon DEF Rest
  <2>6. OldChain' /\ NothingLost'
    BY <1>2, <1>3, <2>1, <2>5, Zenon DEF OldChain, NothingLost
  <2> QED
    BY <1>7, <1>8, <1>10, <1>11, <1>12, <2>6, Zenon DEF Inv
<1>19. CASE LastTable /\ next \in Clusters
  <2>1. n # 1 /\ next = c[2]
    BY <1>4, <1>5, <1>19, Sizes DEF Link
  <2>2. PICK m, r : m = n - 1 /\ r = [k \in 1 .. m |-> c[k + 1]]
    BY Zenon
  <2>3. /\ m \in 1 .. MAX_FILE_CLUSTERS /\ m + 1 = n /\ m \in Nat
        /\ \A k \in 1 .. m : k + 1 \in 1 .. n /\ k + 1 \in 2 .. n
        /\ \A k \in 1 .. n : k # 1 => k - 1 \in 1 .. m /\ (k - 1) + 1 = k
    BY <1>4, <2>1, <2>2, Sizes
  <2>4. /\ r \in [1 .. m -> Clusters] /\ \A k \in 1 .. m : r[k] = c[k + 1]
    BY <2>2, <2>3, Zenon
  <2>5. r[1] = c[2] /\ pc' = "walk" /\ old' = r[1]
    <3>1. 1 \in 1 .. m /\ 1 + 1 = 2
      BY <2>3
    <3>2. r[1] = c[2]
      BY <2>4, <3>1, Zenon
    <3> QED
      BY <1>1, <1>19, <2>1, <3>2, Zenon
  <2>6. \A j, k \in 1 .. m : r[j] = r[k] => j = k
    <3> TAKE j, k \in 1 .. m
    <3>1. c[j + 1] = c[k + 1] => j + 1 = k + 1
      BY <1>5, <2>3, Zenon
    <3> QED
      BY <2>4, <3>1
  <2>7. \A k \in 1 .. m : /\ r[k] \notin Reserved' \cup NewClusters'
                          /\ \A s \in HasFile' : r[k] \notin ClustersOf(s)'
    BY <1>3, <1>8, <2>3, <2>4, SMTT(30) DEF Rest
  <2>8. Linked(r, m, 1)'
    <3>1. \A k \in 1 .. m : Link(r, m, k) = Link(c, n, k + 1)
      <4> TAKE k \in 1 .. m
      <4>1. k + 1 = n <=> k = m
        BY <2>3
      <4>2. k # m => k + 1 \in 1 .. m
        BY <2>3
      <4> QED
        BY <2>4, <4>1, <4>2, Zenon DEF Link
    <3>2. \A t \in Tables : \A k \in 1 .. m : fat'[t][r[k]] = Link(r, m, k)
      BY <1>13, <2>3, <2>4, <3>1, SMTT(30)
    <3> QED
      BY <3>2, Zenon DEF Linked, Link
  <2>9. Accounted({r[k] : k \in 1 .. m})'
    <3>1. Touched' = {}
      BY <2>5, Zenon DEF Touched
    <3>2. ASSUME ~stopped, NEW d \in Clusters, fat'[1][d] \notin {Free, Bad}
          PROVE  \/ d \in Reserved \/ \E s \in HasFile : d \in ClustersOf(s)
                 \/ \E k \in 1 .. m : d = r[k]
      <4>1. CASE \E k \in 1 .. n : d = c[k] /\ k # 1
        <5>1. PICK k \in 1 .. n : d = c[k] /\ k # 1
          BY <4>1, Zenon
        <5>2. k - 1 \in 1 .. m /\ r[k - 1] = c[k]
          BY <2>3, <2>4, <5>1, Zenon
        <5> QED
          BY <5>1, <5>2, Zenon
      <4> QED
        BY <1>17, <1>19, <3>2, <4>1, Zenon
    <3> QED
      BY <1>1, <1>8, <1>16, <1>19, <3>1, <3>2, SMTT(30) DEF Accounted, next_cluster
  <2>10. Rest(m, r)'
    BY <2>4, <2>5, <2>6, <2>7, <2>8, <2>9, Zenon DEF Rest
  <2>11. OldChain' /\ NothingLost'
    BY <2>3, <2>4, <2>5, <2>10, Zenon DEF OldChain, NothingLost
  <2> QED
    BY <1>7, <1>8, <1>10, <1>11, <1>12, <2>11, Zenon DEF Inv
<1>20. CASE LastTable /\ next \notin Clusters
  <2>1. pc' = "info"
    BY <1>1, <1>20, Zenon
  <2>2. n = 1
    <3>1. n # 1 => Link(c, n, 1) = c[2] /\ c[2] \in Clusters
      BY <1>3, <1>4 DEF Link
    <3> QED
      BY <1>5, <1>20, <3>1, Zenon
  <2>3. Accounted({})'
    <3>1. Touched' = {}
      BY <2>1, Zenon DEF Touched
    <3>2. \A k \in 1 .. n : k = 1
      BY <2>2
    <3> QED
      BY <1>1, <1>8, <1>16, <1>17, <1>20, <3>1, <3>2 DEF Accounted, next_cluster
  <2>4. OldChain' /\ NothingLost'
    BY <2>1, <2>3, Zenon DEF OldChain, NothingLost
  <2> QED
    BY <1>7, <1>8, <1>10, <1>11, <1>12, <2>4, Zenon DEF Inv
<1> QED
  BY <1>18, <1>19, <1>20, Zenon

\* The hint is counted from the table the write has left; a write that stops
\* leaves the disk as it is.
LEMMA FinishKeeps ==
  ASSUME Inv, UpdateFsInfo \/ Stop
  PROVE  Inv' /\ Untouched
<1>1. /\ UNCHANGED <<fat, data, dir, writes>> /\ pc # "idle"
      /\ pc' = "idle" /\ op' = NoOp /\ at' = 0 /\ table' = 1 /\ old' = 0 /\ next' = Free
  BY Zenon DEF UpdateFsInfo, Stop, Finish, disk
<1>2. Untouched
  BY <1>1, Zenon DEF Untouched
<1>3. /\ Volume' /\ HasFile' = HasFile /\ Reserved' = Reserved
      /\ \A s \in HasFile : ClustersOf(s)' = ClustersOf(s)
  BY <1>2, FilesStay, Zenon DEF Inv
<1>4. Locals' /\ Aimed' /\ Progress' /\ OldChain'
  BY <1>1, Zenon DEF Locals, Aimed, Progress, OldChain
<1>5. /\ fs_info' \in [free : 0 .. CLUSTERS, first_free : Clusters \cup {0}] \cup {Foreign}
      /\ stopped' \in BOOLEAN /\ answer' \in {"ok", "error"}
  BY HintFits, Zenon DEF Inv, TypeOK, UpdateFsInfo, Stop, disk
<1>6. TypeOK'
  <2>1. at' \in 0 .. MAX_FILE_CLUSTERS + 1 /\ table' \in Tables
    BY <1>1, Sizes
  <2> QED
    BY <1>1, <1>5, <2>1, Zenon DEF Inv, TypeOK, Entries
<1>7. Hint'
  <2>1. CASE UpdateFsInfo
    <3>1. Counted' = Counted
      BY <1>1, Zenon DEF Counted, FreeClusters, next_cluster
    <3> QED
      BY <1>1, <2>1, <3>1, Zenon DEF UpdateFsInfo, Hint
  <2>2. CASE Stop
    BY <2>2, Zenon DEF Stop, Hint
  <2> QED
    BY <2>1, <2>2, Zenon
<1>8. NothingLost'
  <2>1. Accounted({})'
    <3>1. CASE UpdateFsInfo
      <4>1. Accounted({}) /\ Touched = {} /\ Touched' = {} /\ stopped' = stopped
        BY <1>1, <3>1, Zenon DEF Inv, NothingLost, UpdateFsInfo, Touched
      <4> QED
        BY <1>1, <1>3, <4>1, Zenon DEF Accounted, next_cluster
    <3>2. CASE Stop
      BY <3>2, Zenon DEF Stop, Accounted
    <3> QED
      BY <3>1, <3>2, Zenon
  <2> QED
    BY <1>1, <2>1, Zenon DEF NothingLost
<1> QED
  BY <1>2, <1>3, <1>4, <1>6, <1>7, <1>8, Zenon DEF Inv

\* A step of somebody else keeps everything.
LEMMA StutterKeeps ==
  ASSUME Inv, UNCHANGED vars
  PROVE  Inv' /\ Untouched
<1>1. UNCHANGED <<fat, data, dir, fs_info, pc, op, at, table, old, next, writes, stopped, answer>>
  BY Zenon DEF vars, disk
<1>2. Untouched
  BY <1>1, Zenon DEF Untouched
<1>3. /\ Volume' /\ HasFile' = HasFile /\ Reserved' = Reserved /\ NewClusters' = NewClusters
      /\ \A s \in HasFile : ClustersOf(s)' = ClustersOf(s)
  BY <1>1, <1>2, FilesStay, Zenon DEF Inv, NewClusters
<1>4. TypeOK' /\ Locals' /\ Progress'
  <2>1. TypeOK'
    BY <1>1, Zenon DEF Inv, TypeOK
  <2>2. Locals'
    BY <1>1, Zenon DEF Inv, Locals
  <2>3. Progress'
    BY <1>1, Zenon DEF Inv, Progress, Filled, Chained, Link
  <2> QED
    BY <2>1, <2>2, <2>3, Zenon
<1>5. Aimed'
  <2>1. CASE pc \in {"data", "chain", "entry"}
    BY <1>1, <1>2, <2>1, AimStays, Zenon DEF Inv
  <2>2. CASE pc \notin {"data", "chain", "entry"}
    BY <1>1, <2>2, Zenon DEF Aimed
  <2> QED
    BY <2>1, <2>2, Zenon
<1>6. Touched' = Touched /\ Counted' = Counted
  BY <1>1, Zenon DEF Touched, Counted, FreeClusters, next_cluster
<1>7. ASSUME NEW mine, Accounted(mine) PROVE Accounted(mine)'
  BY <1>1, <1>3, <1>6, <1>7, Zenon DEF Accounted, next_cluster
<1>8. NothingLost' /\ Hint'
  <2>1. Accounted({}) => Accounted({})'
    BY <1>7, Zenon
  <2>2. Accounted(NewClusters) => Accounted(NewClusters)'
    BY <1>1, <1>3, <1>6, Zenon DEF Accounted, next_cluster
  <2> QED
    BY <1>1, <1>6, <2>1, <2>2, Zenon DEF Inv, NothingLost, Hint
<1>9. OldChain'
  <2> SUFFICES ASSUME pc \in {"walk", "free"} PROVE OldChain'
    BY <1>1, Zenon DEF OldChain
  <2>1. PICK n \in 1 .. MAX_FILE_CLUSTERS : \E c \in [1 .. n -> Clusters] : Rest(n, c)
    BY Zenon DEF Inv, OldChain
  <2>2. PICK c \in [1 .. n -> Clusters] : Rest(n, c)
    BY <2>1, Zenon
  <2>3. \A k \in 1 .. n : /\ c[k] \notin Reserved' \cup NewClusters'
                          /\ \A s \in HasFile' : c[k] \notin ClustersOf(s)'
    BY <1>3, <2>2 DEF Rest
  <2>4. PICK mine : mine = {c[k] : k \in 1 .. n}
    BY Zenon
  <2>5. Accounted(mine)'
    BY <1>7, <2>2, <2>4, ZenonT(30) DEF Rest
  <2>6. Linked(c, n, IF pc = "walk" THEN 1 ELSE 2)' /\ Link(c, n, 1)' = Link(c, n, 1)
    BY <1>1, <2>2, Zenon DEF Rest, Linked, Link
  <2>7. Rest(n, c)'
    BY <1>1, <2>2, <2>3, <2>4, <2>5, <2>6, Zenon DEF Rest
  <2> QED
    BY <2>1, <2>2, <2>7, Zenon DEF OldChain
<1> QED
  BY <1>2, <1>3, <1>4, <1>5, <1>8, <1>9, Zenon DEF Inv

\* Every sector, and every stop, keeps the invariant.
LEMMA InvStep == Inv /\ [Next]_vars => Inv'
<1> SUFFICES ASSUME Inv, [Next]_vars PROVE Inv'
  BY Zenon
<1>1. CASE UNCHANGED vars
  BY <1>1, StutterKeeps, Zenon
<1>2. ASSUME NEW n \in Names \cup {SubDir.name}, NEW needed \in 0 .. MAX_FILE_CLUSTERS + 1,
             Begin(n, needed) \/ Refuse(n, needed)
      PROVE  Inv'
  BY <1>2, BeginKeeps, RefuseKeeps, Zenon DEF AllNames
<1>3. CASE write_clusters
  BY <1>3, WriteClustersKeeps, Zenon
<1>4. CASE WriteChain
  BY <1>4, WriteChainKeeps, Zenon
<1>5. CASE WriteEntry
  BY <1>5, WriteEntryKeeps, Zenon
<1>6. CASE WalkOldChain
  BY <1>6, WalkOldChainKeeps, Zenon
<1>7. CASE FreeOldCluster
  BY <1>7, FreeOldClusterKeeps, Zenon
<1>8. CASE UpdateFsInfo \/ Stop
  BY <1>8, FinishKeeps, Zenon
<1> QED
  BY <1>1, <1>2, <1>3, <1>4, <1>5, <1>6, <1>7, <1>8, Zenon DEF Next

\* The invariant holds of every volume only this code has written.
LEMMA Invariance == Spec => []Inv
BY InvInit, InvStep, PTL DEF Spec

------------------------------------------------------------------------------
(* What follows.                                                           *)

\* The invariant is what every file needs to be whole and apart.
LEMMA InvIsWhole == Inv => FilesAreWholeAndApart
<1> SUFFICES ASSUME Inv PROVE FilesAreWholeAndApart
  BY Zenon
<1>1. FileSlots = HasFile /\ TypeOK /\ Volume
  BY Directory, Zenon DEF Inv, DirectoryRead
<1>2. FilesAreWhole
  <2> SUFFICES ASSUME NEW s \in HasFile
               PROVE  /\ ClustersOf(s) \subseteq Clusters
                      /\ dir[s].size > 0 => next_cluster(ChainOf(s)[dir[s].size]) = End
                      /\ \E v \in 1 .. MaxWrites : read_file(dir[s]) = Contents(v, dir[s].size)
    BY <1>1, Zenon DEF FilesAreWhole
  <2>1. ClustersOf(s) \subseteq Clusters /\ dir[s].size \in Nat
    BY <1>1, FileChain, Zenon
  <2>2. dir[s].size > 0 => dir[s].size \in 1 .. dir[s].size
    BY <2>1
  <2>3. dir[s].size > 0 => fat[1][ChainOf(s)[dir[s].size]] = End
    BY <1>1, <2>2, FileChain, Sizes, Zenon DEF Link
  <2> QED
    BY <1>1, <2>1, <2>3, Reading, Zenon DEF FilesAreRead, next_cluster
<1>3. \A s, t \in HasFile : s # t =>
        dir[s].name # dir[t].name /\ ClustersOf(s) \cap ClustersOf(t) = {}
  BY <1>1, Zenon DEF Volume, HasFile
<1>4. ASSUME NEW s \in HasFile, NEW c \in ClustersOf(s)
      PROVE  /\ c # root_cluster /\ next_cluster(c) # Bad
             /\ (\E t \in Slots : dir[t] = SubDir) => c # 3
             /\ \A t \in Tables : fat[t][c] = next_cluster(c)
  <2>1. c \notin Reserved
    BY <1>1, Zenon DEF Volume
  <2>2. next_cluster(c) # Bad
    BY <1>1, FilesAreTaken, Sizes, Zenon DEF next_cluster
  <2>3. PICK k \in 1 .. dir[s].size : c = ChainOf(s)[k]
    BY Zenon DEF ClustersOf
  <2>4. \A t \in Tables : fat[t][c] = fat[1][c]
    BY <1>1, <2>3, FileChain, Sizes
  <2> QED
    BY <2>1, <2>2, <2>4, Zenon DEF Reserved, next_cluster
<1>5. pc \in {"data", "chain", "entry"} => \A s \in HasFile : ClustersOf(s) \cap NewClusters = {}
  BY Zenon DEF Inv, Aimed
<1>6. pc \in {"walk", "free"} => old \notin NewClusters
  <2> SUFFICES ASSUME pc \in {"walk", "free"} PROVE old \notin NewClusters
    BY Zenon
  <2>1. PICK n \in 1 .. MAX_FILE_CLUSTERS : \E c \in [1 .. n -> Clusters] : Rest(n, c)
    BY Zenon DEF Inv, OldChain
  <2>2. PICK c \in [1 .. n -> Clusters] : Rest(n, c)
    BY <2>1, Zenon
  <2>3. 1 \in 1 .. n
    BY <2>1, Sizes
  <2> QED
    BY <2>2, <2>3, Zenon DEF Rest
<1> QED
  BY <1>1, <1>2, <1>3, <1>4, <1>5, <1>6, Zenon DEF FilesAreWholeAndApart

\* Wherever a write stops, on a volume of any size: every file the directory
\* names is whole, of one write, on clusters that are its own in every copy
\* of the table, and no name is there twice (`write_file`).
THEOREM FilesSurviveEveryStop == Spec => []FilesAreWholeAndApart
BY Invariance, InvIsWhole, PTL

\* The invariant accounts for every cluster while no write has stopped.
LEMMA InvLosesNothing == Inv => NothingIsLostUnlessStopped
<1> SUFFICES ASSUME Inv PROVE NothingIsLostUnlessStopped
  BY Zenon
<1>1. answer = "ok" => fs_info \in {Counted, Foreign}
  BY Zenon DEF Inv, Hint
<1>2. ASSUME pc = "idle", ~stopped
      PROVE  /\ \A t \in Tables : fat[t] = fat[1]
             /\ \A c \in Clusters : next_cluster(c) \notin {Free, Bad} =>
                  \/ c = root_cluster
                  \/ c = 3 /\ \E s \in Slots : dir[s] = SubDir
                  \/ \E s \in FileSlots : c \in ClustersOf(s)
  <2>1. Accounted({}) /\ Touched = {} /\ FileSlots = HasFile
    BY <1>2, Directory, Zenon DEF Inv, NothingLost, Touched, DirectoryRead
  <2>2. \A t \in Tables : \A c \in Clusters : fat[t][c] = fat[1][c]
    BY <1>2, <2>1, Zenon DEF Accounted
  <2>3. \A t \in Tables : fat[t] \in [Clusters -> Entries]
    BY Zenon DEF Inv, TypeOK
  <2>4. \A t \in Tables : fat[t] = fat[1]
    <3> TAKE t \in Tables
    <3>1. fat[t] \in [Clusters -> Entries] /\ fat[1] \in [Clusters -> Entries]
      BY <2>3, Sizes, Zenon
    <3>2. fat[t] = [c \in Clusters |-> fat[t][c]] /\ fat[1] = [c \in Clusters |-> fat[1][c]]
      BY <3>1, Zenon
    <3>3. [c \in Clusters |-> fat[t][c]] = [c \in Clusters |-> fat[1][c]]
      BY <2>2, Zenon
    <3> QED
      BY <3>2, <3>3, Zenon
  <2> QED
    BY <1>2, <2>1, <2>4, Zenon DEF Accounted, Reserved
<1> QED
  BY <1>1, <1>2, Zenon DEF NothingIsLostUnlessStopped

\* As long as no write stops half way, no cluster is lost, the copies of the
\* table agree between writes, and after any write that succeeded the hint,
\* if the volume has one, is true (`free_chain`, `update_fs_info`).
THEOREM ClustersAreLostOnlyByStops == Spec => []NothingIsLostUnlessStopped
BY Invariance, InvLosesNothing, PTL
------------------------------------------------------------------------------
(* One file at a time, at once or not at all.                              *)

\* What FileStore sees of a volume.
FilesSeen == [n \in AllNames |-> FileNamed(n)]
WritingSeen ==
  IF pc = "idle" THEN NoOp
  ELSE [name |-> op.name, contents |-> op.contents, stored |-> pc \in {"walk", "free", "info"}]

\* A write in progress is not no write.
LEMMA SomeWrite ==
  ASSUME NEW n, NEW c, NEW b
  PROVE  [name |-> n, contents |-> c, stored |-> b] # NoOp
<1>1. DOMAIN [name |-> n, contents |-> c, stored |-> b] = {"name", "contents", "stored"}
  BY Zenon
<1>2. DOMAIN NoOp = {"name"}
  BY Zenon DEF NoOp
<1>3. "stored" \in {"name", "contents", "stored"} /\ "stored" \notin {"name"}
  BY Zenon
<1> QED
  BY <1>1, <1>2, <1>3, Zenon

\* What a write in progress has in its fields, before its file is stored and
\* after.
LEMMA OnceStored ==
  ASSUME NEW n, NEW c
  PROVE  LET before == [name |-> n, contents |-> c, stored |-> FALSE] IN
         /\ ~before.stored /\ before.name = n /\ before.contents = c
         /\ [before EXCEPT !.stored = TRUE] = [name |-> n, contents |-> c, stored |-> TRUE]
<1> DEFINE before == [name |-> n, contents |-> c, stored |-> FALSE]
           after == [name |-> n, contents |-> c, stored |-> TRUE]
<1>1. before.name = n /\ before.contents = c
  BY Zenon
<1>2. before.stored = FALSE
  BY Zenon
<1>3. [before EXCEPT !.stored = TRUE] = after
  <2>1. [before EXCEPT !.stored = TRUE]
          = [f \in DOMAIN before |-> IF f = "stored" THEN TRUE ELSE before[f]]
    BY Zenon
  <2>2. DOMAIN before = {"name", "contents", "stored"} /\ DOMAIN after = {"name", "contents", "stored"}
    BY Zenon
  <2>3. \A f \in {"name", "contents", "stored"} : (IF f = "stored" THEN TRUE ELSE before[f]) = after[f]
    <3>1. /\ before["name"] = n /\ before["contents"] = c
          /\ after["name"] = n /\ after["contents"] = c
      BY Zenon
    <3>2. after["stored"] = TRUE
      BY Zenon
    <3>3. "name" # "stored" /\ "contents" # "stored"
      BY Zenon
    <3> QED
      BY <3>1, <3>2, <3>3, Zenon
  <2>4. after = [f \in DOMAIN after |-> after[f]]
    BY Zenon
  <2> QED
    BY <2>1, <2>2, <2>3, <2>4, Zenon
<1> QED
  BY <1>1, <1>2, <1>3, Zenon

\* The sector with the entry changes what one name reads as, from all of the
\* old contents to all of the new.
LEMMA EntryStores ==
  ASSUME Inv, WriteEntry
  PROVE  FilesSeen' = [FilesSeen EXCEPT ![op.name] = op.contents]
<1>0. PICK slot : slot = op.slot
  BY Zenon
<1>1. /\ slot \in Slots /\ dir[slot] # SubDir /\ dir[slot] # Label
      /\ dir'[slot] \in Files /\ dir'[slot].name = op.name
      /\ dir'[slot].size = Len(op.chain)
      /\ \A s \in Slots \ {slot} : /\ dir'[s] = dir[s]
                                   /\ ChainOf(s)' = ChainOf(s)
                                   /\ ClustersOf(s)' = ClustersOf(s)
      /\ ChainOf(slot)' = op.chain /\ ClustersOf(slot)' = NewClusters
      /\ HasFile' = HasFile \cup {slot} /\ Reserved' = Reserved
  BY <1>0, EntryFacts, Zenon
<1>2. /\ data' = data /\ fat' = fat /\ pc = "entry" /\ op' = op /\ Volume /\ Volume'
  BY WriteEntryKeeps, Zenon DEF WriteEntry, Inv
<1>3. \A n : Named(n) = {s \in Slots : dir[s].kind \in {"file", "dir"} /\ dir[s].name = n}
  BY <1>2, Directory, Zenon DEF DirectoryRead
<1>4. \A n : Named(n)' = {s \in Slots : dir'[s].kind \in {"file", "dir"} /\ dir'[s].name = n}
  BY <1>2, DirectoryAfter, Zenon DEF DirectoryRead
<1>5. /\ slot = directory_slot(op.name) /\ Named(op.name) \cup ForNewEntry # {}
      /\ op.contents = Contents(writes, Len(op.chain)) /\ Filled(Len(op.chain))
      /\ op.name \in AllNames
  BY <1>0, <1>2, Zenon DEF Inv, Aimed, Locals, Progress
<1>6. dir[slot].kind \in {"file", "dir"} => dir[slot].name = op.name
  <2>1. CASE Named(op.name) # {}
    BY <1>2, <1>3, <1>5, <2>1, SlotFound, Zenon
  <2>2. CASE Named(op.name) = {}
    <3>1. slot \in ForNewEntry
      BY <1>2, <1>5, <2>2, SlotFound, Zenon
    <3>2. dir[slot] = Deleted \/ dir[slot] = NeverUsed
      BY <1>1, <1>2, <3>1, Directory, Zenon DEF DirectoryRead, ForNewEntry
    <3> QED
      BY <3>2 DEF Deleted, NeverUsed
  <2> QED
    BY <2>1, <2>2, Zenon
<1>7. \A s \in Slots \ {slot} : dir[s].kind \in {"file", "dir"} => dir[s].name # op.name
  <2> SUFFICES ASSUME NEW s \in Slots \ {slot}, dir[s].kind \in {"file", "dir"}, dir[s].name = op.name
               PROVE  FALSE
    BY Zenon
  <2>1. s \in Named(op.name) /\ slot \in Named(op.name)
    BY <1>2, <1>3, <1>5, SlotFound, Zenon
  <2>2. dir[slot].kind \in {"file", "dir"} /\ dir[slot].name = op.name
    BY <1>3, <2>1, Zenon
  <2>3. \A t \in Slots : dir[s].kind \in {"file", "dir"} /\ dir[t].kind \in {"file", "dir"} /\ s # t
                          => dir[s].name # dir[t].name
    BY <1>2, Zenon DEF Volume
  <2>4. slot \in Slots /\ s # slot
    BY <1>1, Zenon
  <2> QED
    BY <2>2, <2>3, <2>4, Zenon
<1>8. dir'[slot].kind = "file"
  BY <1>1, Zenon DEF Files
<1>9. PICK name : name = op.name
  BY Zenon
<1>10. FileNamed(name)' = op.contents
  <2>1. Named(name)' = {slot}
    BY <1>1, <1>4, <1>7, <1>8, <1>9, Zenon
  <2>2. Least(Named(name))' = slot
    <3>1. slot \in Nat
      BY <1>1, Sizes, Zenon
    <3>2. Least({slot}) = slot
      BY <3>1, SMTT(30) DEF Least
    <3> QED
      BY <2>1, <3>2, Zenon DEF Least
  <2>3. FileNamed(name)' = read_file(dir[Least(Named(name))])'
    <3>1. Named(name)' # {} /\ dir'[Least(Named(name))'].kind # "dir"
      BY <1>8, <2>1, <2>2, Zenon
    <3> QED
      BY <3>1, Zenon DEF FileNamed
  <2>4. dir[Least(Named(name))]' = dir'[slot]
    BY <2>2, Zenon
  <2>5. read_file(dir[Least(Named(name))])' = read_file(dir[slot])'
    BY <2>4, SMTT(30) DEF read_file, Chain, next_cluster
  <2>6. read_file(dir[slot])' = [k \in 1 .. dir'[slot].size |-> data'[ChainOf(slot)'[k]]]
    BY <1>1, <1>2, ReadingAfter, Zenon DEF FilesAreRead
  <2>7. read_file(dir[slot])' = [k \in 1 .. Len(op.chain) |-> data[op.chain[k]]]
    BY <1>1, <1>2, <2>6, Zenon
  <2>8. [k \in 1 .. Len(op.chain) |-> data[op.chain[k]]] = op.contents
    BY <1>5, Zenon DEF Filled, Contents
  <2> QED
    BY <2>3, <2>5, <2>7, <2>8, Zenon
<1>11. ASSUME NEW n \in AllNames, n # name
       PROVE  FileNamed(n)' = FileNamed(n)
  <2>1. Named(n)' = Named(n) /\ slot \notin Named(n)
    BY <1>1, <1>3, <1>4, <1>6, <1>9, <1>11, Zenon
  <2>2. PICK s : s = Least(Named(n))
    BY Zenon
  <2>3. Least(Named(n))' = s
    BY <2>1, <2>2, Zenon DEF Least
  <2>4. CASE Named(n) = {}
    BY <2>1, <2>4, Zenon DEF FileNamed, Absent, Broken
  <2>5. CASE Named(n) # {}
    <3>1. s \in Named(n)
      <4>1. Named(n) \in SUBSET Nat
        BY Sizes, ZenonT(30) DEF Named, Scanned
      <4> QED
        BY <2>2, <2>5, <4>1, LeastIsLeast, Zenon
    <3>2. s \in Slots \ {slot} /\ dir'[s] = dir[s] /\ ChainOf(s)' = ChainOf(s)
      BY <1>1, <1>3, <2>1, <3>1, Zenon
    <3>3. CASE dir[s].kind = "dir"
      BY <2>1, <2>2, <2>3, <3>2, <3>3, ZenonT(30) DEF FileNamed, Absent, Broken
    <3>4. CASE dir[s].kind # "dir"
      <4>1. s \in HasFile /\ s \in HasFile'
        BY <1>1, <1>3, <3>1, <3>2, <3>4, Zenon DEF HasFile
      <4>2. read_file(dir[s]) = [k \in 1 .. dir[s].size |-> data[ChainOf(s)[k]]]
        BY <1>2, <4>1, Reading, Zenon DEF FilesAreRead
      <4>3. read_file(dir[s])' = [k \in 1 .. dir'[s].size |-> data'[ChainOf(s)'[k]]]
        BY <1>2, <4>1, ReadingAfter, Zenon DEF FilesAreRead
      <4>4. read_file(dir[s])' = read_file(dir[s])
        BY <1>2, <3>2, <4>2, <4>3, Zenon
      <4>5. FileNamed(n) = read_file(dir[s])
        BY <2>2, <2>5, <3>4, Zenon DEF FileNamed
      <4>6. dir[Least(Named(n))]' = dir'[s] /\ Named(n)' # {} /\ dir'[Least(Named(n))'].kind # "dir"
        BY <2>1, <2>3, <2>5, <3>2, <3>4, Zenon
      <4>7. FileNamed(n)' = read_file(dir[Least(Named(n))])'
        BY <4>6, Zenon DEF FileNamed
      <4>8. read_file(dir[Least(Named(n))])' = read_file(dir[s])'
        BY <4>6 DEF read_file, Chain, next_cluster
      <4> QED
        BY <4>4, <4>5, <4>7, <4>8, Zenon
    <3> QED
      BY <3>3, <3>4, Zenon
  <2> QED
    BY <2>4, <2>5, Zenon
<1> QED
  BY <1>5, <1>9, <1>10, <1>11, Zenon DEF FilesSeen

\* A volume nothing was written to has no files.
LEMMA StartsEmpty == Init => Store!Init
<1> SUFFICES ASSUME Init PROVE Store!Init
  BY Zenon
<1>1. \A s \in Slots : dir[s].kind \notin {"file"}
  BY DEF Init, NeverUsed, Deleted, Label, SubDir
<1>2. ASSUME NEW n PROVE FileNamed(n) = Absent
  <2>1. CASE Named(n) = {}
    BY <2>1, Zenon DEF FileNamed
  <2>2. CASE Named(n) # {}
    <3>1. Named(n) \in SUBSET Nat
      BY Sizes, Zenon DEF Named, Scanned
    <3>2. Least(Named(n)) \in Named(n)
      BY <2>2, <3>1, LeastIsLeast, Zenon
    <3>3. dir[Least(Named(n))].kind = "dir"
      BY <1>1, <3>2, Zenon DEF Named, Scanned
    <3> QED
      BY <3>3, Zenon DEF FileNamed
  <2> QED
    BY <2>1, <2>2, Zenon
<1>3. pc = "idle"
  BY Zenon DEF Init
<1> QED
  BY <1>2, <1>3 DEF Store!Init

\* A sector, or a stop, is one step of FileStore or none.
LEMMA StepsAreStored == Inv /\ [Next]_vars => [Store!Next]_(Store!vars)
<1> SUFFICES ASSUME Inv, [Next]_vars PROVE [Store!Next]_(Store!vars)
  BY Zenon
<1>0. ASSUME Untouched PROVE FilesSeen' = FilesSeen
  <2>1. \A n : FileNamed(n)' = FileNamed(n)
    BY <1>0, NamesStay, Zenon DEF Inv
  <2> QED
    BY <2>1, Zenon DEF FilesSeen
<1>1. /\ Store!vars = <<FilesSeen, WritingSeen>>
      /\ Store!vars' = <<FilesSeen', WritingSeen'>>
  BY Zenon DEF Store!vars, FilesSeen, WritingSeen, AllNames
<1>2. ASSUME Untouched, WritingSeen' = WritingSeen
      PROVE  [Store!Next]_(Store!vars)
  BY <1>0, <1>1, <1>2, Zenon
<1>3. CASE UNCHANGED vars
  <2>1. Untouched
    BY <1>3, StutterKeeps, Zenon
  <2>2. WritingSeen' = WritingSeen
    BY <1>3, Zenon DEF vars, WritingSeen
  <2> QED
    BY <1>2, <2>1, <2>2, Zenon
<1>4. ASSUME NEW n \in AllNames, NEW needed \in 0 .. MAX_FILE_CLUSTERS + 1, Refuse(n, needed)
      PROVE  [Store!Next]_(Store!vars)
  <2>1. Untouched
    BY <1>4, RefuseKeeps, Zenon
  <2>2. WritingSeen' = WritingSeen
    BY <1>4, Zenon DEF Refuse, WritingSeen
  <2> QED
    BY <1>2, <2>1, <2>2, Zenon
<1>5. ASSUME NEW n \in AllNames, NEW needed \in 0 .. MAX_FILE_CLUSTERS + 1, Begin(n, needed)
      PROVE  [Store!Next]_(Store!vars)
  <2>1. FilesSeen' = FilesSeen
    BY <1>0, <1>5, BeginKeeps, Zenon
  <2>2. /\ pc = "idle" /\ pc' \in {"entry", "data"}
        /\ op'.name = n /\ op'.contents = Contents(writes + 1, needed)
    <3>1. /\ pc = "idle" /\ pc' = (IF needed = 0 THEN "entry" ELSE "data")
          /\ \E sl, ch, ex : op' = [name |-> n, contents |-> Contents(writes + 1, needed),
                                    slot |-> sl, chain |-> ch, existing |-> ex]
      BY <1>5, Zenon DEF Begin
    <3>2. PICK sl, ch, ex : op' = [name |-> n, contents |-> Contents(writes + 1, needed),
                                   slot |-> sl, chain |-> ch, existing |-> ex]
      BY <3>1, Zenon
    <3>3. op'.name = n /\ op'.contents = Contents(writes + 1, needed)
      BY <3>2, Zenon
    <3> QED
      BY <3>1, <3>3, Zenon
  <2>3. Contents(writes + 1, needed) \in
          {Contents(v, k) : v \in 1 .. MaxWrites, k \in 0 .. MAX_FILE_CLUSTERS}
    <3>1. writes + 1 \in 1 .. MaxWrites /\ needed \in 0 .. MAX_FILE_CLUSTERS
      <4>1. writes < MaxWrites /\ needed <= MAX_FILE_CLUSTERS
        BY <1>5, Zenon DEF Begin, Accepts
      <4>2. writes \in 0 .. MaxWrites
        BY Zenon DEF Inv, TypeOK
      <4> QED
        BY <4>1, <4>2, Sizes
    <3> QED
      BY <3>1, SMTT(30)
  <2>4. WritingSeen = NoOp
        /\ WritingSeen' = [name |-> n, contents |-> Contents(writes + 1, needed), stored |-> FALSE]
    <3>1. pc' # "idle" /\ (pc' \in {"walk", "free", "info"}) = FALSE
      BY <2>2
    <3>2. WritingSeen' = [name |-> op'.name, contents |-> op'.contents,
                          stored |-> pc' \in {"walk", "free", "info"}]
      BY <3>1, Zenon DEF WritingSeen
    <3>3. WritingSeen' = [name |-> n, contents |-> Contents(writes + 1, needed), stored |-> FALSE]
      BY <2>2, <3>1, <3>2, ZenonT(30)
    <3> QED
      BY <2>2, <3>3, Zenon DEF WritingSeen
  <2>5. Store!Begin(n, Contents(writes + 1, needed))
    BY <2>1, <2>4, Zenon DEF Store!Begin, FilesSeen, WritingSeen, AllNames
  <2> QED
    BY <2>3, <2>5 DEF Store!Next, AllNames
<1>6. CASE write_clusters \/ WriteChain \/ WalkOldChain \/ FreeOldCluster
  <2>1. Untouched
    BY <1>6, WriteClustersKeeps, WriteChainKeeps, WalkOldChainKeeps, FreeOldClusterKeeps, Zenon
  <2>2. WritingSeen' = WritingSeen
    <3>1. /\ op' = op /\ pc # "idle" /\ pc' # "idle"
          /\ pc' \in {"walk", "free", "info"} <=> pc \in {"walk", "free", "info"}
      <4>1. CASE write_clusters
        BY <4>1, Zenon DEF write_clusters
      <4>2. CASE WriteChain
        BY <4>2, Zenon DEF WriteChain
      <4>3. CASE WalkOldChain
        BY <4>3, Zenon DEF WalkOldChain
      <4>4. CASE FreeOldCluster
        BY <4>4, Zenon DEF FreeOldCluster
      <4> QED
        BY <1>6, <4>1, <4>2, <4>3, <4>4, Zenon
    <3> QED
      BY <3>1 DEF WritingSeen
  <2> QED
    BY <1>2, <2>1, <2>2, Zenon
<1>7. CASE WriteEntry
  <2>1. FilesSeen' = [FilesSeen EXCEPT ![op.name] = op.contents]
    BY <1>7, EntryStores, Zenon
  <2>2. pc = "entry" /\ op' = op /\ pc' \in {"info", "walk"}
    BY <1>7, Zenon DEF WriteEntry
  <2>3. /\ WritingSeen = [name |-> op.name, contents |-> op.contents, stored |-> FALSE]
        /\ WritingSeen' = [name |-> op.name, contents |-> op.contents, stored |-> TRUE]
    <3>1. /\ pc # "idle" /\ (pc \in {"walk", "free", "info"}) = FALSE
          /\ pc' # "idle" /\ (pc' \in {"walk", "free", "info"}) = TRUE
      BY <2>2
    <3>2. /\ WritingSeen = [name |-> op.name, contents |-> op.contents,
                            stored |-> pc \in {"walk", "free", "info"}]
          /\ WritingSeen' = [name |-> op'.name, contents |-> op'.contents,
                             stored |-> pc' \in {"walk", "free", "info"}]
      BY <3>1, Zenon DEF WritingSeen
    <3> QED
      BY <2>2, <3>1, <3>2, Zenon
  <2>4. /\ WritingSeen # NoOp /\ ~WritingSeen.stored
        /\ WritingSeen.name = op.name /\ WritingSeen.contents = op.contents
        /\ WritingSeen' = [WritingSeen EXCEPT !.stored = TRUE]
    <3> DEFINE before == [name |-> op.name, contents |-> op.contents, stored |-> FALSE]
    <3>1. WritingSeen # NoOp
      BY <2>3, SomeWrite, Zenon
    <3>2. /\ ~before.stored /\ before.name = op.name /\ before.contents = op.contents
          /\ [before EXCEPT !.stored = TRUE]
               = [name |-> op.name, contents |-> op.contents, stored |-> TRUE]
      BY OnceStored
    <3>3. WritingSeen = before
      BY <2>3, Zenon
    <3> HIDE DEF before
    <3> QED
      BY <2>3, <3>1, <3>2, <3>3, Zenon
  <2>5. FilesSeen' = [FilesSeen EXCEPT ![WritingSeen.name] = WritingSeen.contents]
    BY <2>1, <2>4, Zenon
  <2>6. Store!Store
    BY <2>4, <2>5, Zenon DEF Store!Store, FilesSeen, WritingSeen, AllNames
  <2> QED
    BY <2>6 DEF Store!Next
<1>8. CASE UpdateFsInfo \/ Stop
  <2>1. FilesSeen' = FilesSeen
    BY <1>0, <1>8, FinishKeeps, Zenon
  <2>2. pc # "idle" /\ pc' = "idle"
    BY <1>8, Zenon DEF UpdateFsInfo, Stop, Finish
  <2>3. WritingSeen # NoOp /\ WritingSeen' = NoOp
    BY <2>2, SomeWrite, Zenon DEF WritingSeen, NoOp
  <2>4. CASE UpdateFsInfo
    <3>1. WritingSeen.stored
      BY <2>4, Zenon DEF UpdateFsInfo, WritingSeen
    <3>2. Store!Succeed
      BY <2>1, <2>3, <3>1, Zenon DEF Store!Succeed, FilesSeen, WritingSeen, AllNames
    <3> QED
      BY <3>2 DEF Store!Next
  <2>5. CASE Stop
    <3>1. Store!Fail
      BY <2>1, <2>3, Zenon DEF Store!Fail, FilesSeen, WritingSeen, AllNames
    <3> QED
      BY <3>1, SMTT(30) DEF Store!Next
  <2> QED
    BY <1>8, <2>4, <2>5, Zenon
<1> QED
  BY <1>3, <1>4, <1>5, <1>6, <1>7, <1>8, Zenon DEF Next, AllNames

\* Writing a file, sector by sector and stopped anywhere, does what FileStore
\* promises: the file changes at once from all of the old to all of the new,
\* no other file changes, and success is answered only for a file that is
\* there (`write_file`).
THEOREM WritesAreAtomic == Spec => ImplementsFileStore
BY StartsEmpty, StepsAreStored, Invariance, PTL DEF Spec, ImplementsFileStore, Store!Spec
==============================================================================
