-------------------------------- MODULE Fat32 --------------------------------
(***************************************************************************)
(* Writing a file on a FAT32 volume (hal/src/fat.rs, from `write_file`     *)
(* down). Every sector that is written is a step, and the write may stop   *)
(* between any two of them: the device reports an error, or the machine    *)
(* loses its power. Nothing of a volume is kept in memory (kernel/src/     *)
(* fs.rs, `with`), so the two look the same from then on.                  *)
(*                                                                         *)
(* A cluster is one unit of data, a name is one as `encode_name` leaves    *)
(* it, and the contents of a file are its write's number and how many      *)
(* clusters it fills. Two writes never have the same contents, so a        *)
(* cluster that belongs to another file, or to an older version of the     *)
(* same one, can be told apart.                                            *)
(***************************************************************************)
EXTENDS Integers, FiniteSets, Sequences

CONSTANTS CLUSTERS,           \* how many the data region has
          FAT_COUNT,          \* copies of the table
          DIR_SLOTS,          \* slots of the root directory
          MAX_FILE_CLUSTERS,  \* the most one file may take
          Names,              \* short names of files
          MaxWrites           \* bound on the number of writes

ASSUME VolumeAssumption ==
  /\ CLUSTERS \in Nat /\ CLUSTERS > 2
  /\ {FAT_COUNT, DIR_SLOTS, MAX_FILE_CLUSTERS, MaxWrites} \subseteq Nat \ {0}

FIRST_DATA_CLUSTER == 2
Clusters == FIRST_DATA_CLUSTER .. FIRST_DATA_CLUSTER + CLUSTERS - 1
Tables   == 1 .. FAT_COUNT
Slots    == 1 .. DIR_SLOTS

\* Entries of the table that name no cluster.
Free == 0
End  == -1
Bad  == -2

root_cluster == FIRST_DATA_CLUSTER

\* Slots of the directory that name no file: never used, deleted, the label,
\* and the one subdirectory a volume may come with.
NeverUsed == [kind |-> "never"]
Deleted   == [kind |-> "deleted"]
Label     == [kind |-> "label"]
SubDir    == [kind |-> "dir", name |-> "SUBDIR", first_cluster |-> 3, size |-> 0]

Files == [kind : {"file"}, name : Names \cup {SubDir.name}, first_cluster : Clusters \cup {0},
          size : 0 .. MAX_FILE_CLUSTERS]

VARIABLES
  fat,       \* per table and cluster: the entry
  data,      \* per cluster: what is in it
  dir,       \* per slot of the root directory
  fs_info,   \* the hint: how many clusters are free, and the first
  pc,        \* where the write in progress is, or "idle"
  op,        \* its arguments and what it looked up before it began
  at, table, \* how far it is: in its chain, and in the copies of the table
  old, next, \* the cluster being freed, and what the table said came next
  writes,    \* writes begun so far
  stopped,   \* some write has stopped half way
  answer     \* what the last write was told

disk == <<fat, data, dir, fs_info>>
vars == <<disk, pc, op, at, table, old, next, writes, stopped, answer>>

NoOp == [name |-> "none"]

\* There is no FSInfo sector where the boot sector says, or it does not carry
\* its signatures.
Foreign == [sector |-> "foreign"]

\* Any volume without files that a formatter leaves: the root directory's
\* cluster is taken, a subdirectory may be there, a cluster may be bad, and
\* after the first slot that was never used no other was.
Init ==
  /\ dir \in [Slots -> {NeverUsed, Deleted, Label, SubDir}]
  /\ \A s, t \in Slots : s < t /\ dir[s] = NeverUsed => dir[t] = NeverUsed
  /\ \A s, t \in Slots : dir[s] = SubDir /\ dir[t] = SubDir => s = t
  /\ \E bad \in {{}, {FIRST_DATA_CLUSTER + CLUSTERS - 1}} :
       fat = [t \in Tables |-> [c \in Clusters |->
                IF c = root_cluster \/ (c = 3 /\ \E s \in Slots : dir[s] = SubDir) THEN End
                ELSE IF c \in bad THEN Bad ELSE Free]]
  /\ data = [c \in Clusters |-> <<0, 0>>]
  /\ fs_info \in {[free |-> 0, first_free |-> 0], Foreign}
  /\ pc = "idle" /\ op = NoOp /\ at = 0 /\ table = 1 /\ old = 0 /\ next = Free
  /\ writes = 0 /\ stopped = FALSE /\ answer = "none"

------------------------------------------------------------------------------
(* Looking things up *)

\* next_cluster: only the first table is ever read.
next_cluster(c) == fat[1][c]

\* The slots a scan of the directory gets to.
Scanned == {s \in Slots : \A t \in 1 .. s : dir[t] # NeverUsed}

Least(S) == CHOOSE x \in S : \A y \in S : x <= y

Named(n) == {s \in Scanned : dir[s].kind \in {"file", "dir"} /\ dir[s].name = n}

\* The slots a new entry may go to: a deleted one, else the one that ends
\* the directory.
ForNewEntry ==
  LET deleted == {s \in Scanned : dir[s] = Deleted} IN
  IF deleted # {} THEN deleted ELSE Slots \ Scanned

FreeClusters == {c \in Clusters : next_cluster(c) = Free}

\* Mutant: what may be taken is whatever is not a link to another cluster.
free_clusters_any(chain) ==
  /\ \A k \in DOMAIN chain : next_cluster(chain[k]) \notin Clusters
  /\ \A k \in DOMAIN chain : k > 1 => chain[k - 1] < chain[k]

\* Whether the chain is made of the first free clusters, in the order of the
\* table.
free_clusters(chain) ==
  /\ \A k \in DOMAIN chain : next_cluster(chain[k]) = Free
  /\ \A k \in DOMAIN chain : \A c \in FreeClusters :
       c < chain[k] <=> \E j \in 1 .. k - 1 : chain[j] = c

\* The clusters of a file of n clusters that begins at `first`, as far as
\* the table has them.
Chain(first, n) ==
  LET follow[k \in 1 .. n] ==
        IF k = 1 THEN first
        ELSE IF follow[k - 1] \in Clusters THEN next_cluster(follow[k - 1])
        ELSE Bad
  IN [k \in 1 .. n |-> follow[k]]

\* What a cluster off the chain reads as, and a file that is not there.
Broken == <<-1, -1>>
Absent == <<Broken>>

\* read_file: as many clusters as the entry says, along the chain.
read_file(entry) ==
  LET chain == Chain(entry.first_cluster, entry.size) IN
  [k \in 1 .. entry.size |-> IF chain[k] \in Clusters THEN data[chain[k]]
                             ELSE Broken]

------------------------------------------------------------------------------
(* write_file, one sector at a time *)

Contents(v, n) == [k \in 1 .. n |-> <<v, k>>]

\* Mutant: a slot for a new entry is taken when there is one.
directory_slot_new(n) == Least(IF ForNewEntry # {} THEN ForNewEntry ELSE Named(n))

\* directory_slot: where the entry is, or where a new one would go.
directory_slot(n) == Least(IF Named(n) # {} THEN Named(n) ELSE ForNewEntry)

\* A slot for it, no directory of that name, not too many clusters and
\* enough of them free.
Accepts(n, needed) ==
  /\ Named(n) \cup ForNewEntry # {}
  /\ dir[directory_slot(n)].kind # "dir"
  /\ needed <= MAX_FILE_CLUSTERS
  /\ Cardinality(FreeClusters) >= needed

Refuse(n, needed) ==
  /\ pc = "idle"
  /\ ~Accepts(n, needed)
  /\ answer' = "error"
  /\ UNCHANGED <<disk, pc, op, at, table, old, next, writes, stopped>>

\* Everything before the first sector is written.
Begin(n, needed) ==
  /\ pc = "idle"
  /\ writes < MaxWrites
  /\ Accepts(n, needed)
  /\ LET existing == dir[directory_slot(n)] IN
     \E chain \in [1 .. needed -> Clusters] :
       /\ free_clusters(chain)
       /\ op' = [name |-> n, contents |-> Contents(writes + 1, needed),
                 slot |-> directory_slot(n), chain |-> chain,
                 existing |-> IF existing.kind = "file"
                              THEN existing.first_cluster ELSE 0]
  /\ writes' = writes + 1
  /\ at' = 1
  /\ table' = 1
  /\ pc' = IF needed = 0 THEN "entry" ELSE "data"
  /\ answer' = "none"
  /\ UNCHANGED <<disk, old, next, stopped>>

Last == at = Len(op.chain)
NewClusters == {op.chain[k] : k \in DOMAIN op.chain}

write_clusters ==
  /\ pc = "data"
  /\ data' = [data EXCEPT ![op.chain[at]] = op.contents[at]]
  /\ at' = IF Last THEN 1 ELSE at + 1
  /\ pc' = IF Last THEN "chain" ELSE "data"
  /\ UNCHANGED <<fat, dir, fs_info, op, table, old, next, writes, stopped, answer>>

\* set_next_cluster: one copy of the table at a time.
set_next_cluster(c, entry) ==
  /\ fat' = [fat EXCEPT ![table][c] = entry]
  /\ table' = IF table = FAT_COUNT THEN 1 ELSE table + 1

LastTable == table = FAT_COUNT

WriteChain ==
  /\ pc = "chain"
  /\ set_next_cluster(op.chain[at], IF Last THEN End ELSE op.chain[at + 1])
  /\ at' = IF LastTable THEN at + 1 ELSE at
  /\ pc' = IF LastTable /\ Last THEN "entry" ELSE "chain"
  /\ UNCHANGED <<data, dir, fs_info, op, old, next, writes, stopped, answer>>

\* Mutant: what the old file used is not given back.
WriteEntry_keeps_old ==
  /\ pc = "entry"
  /\ dir' = [dir EXCEPT ![op.slot] =
       [kind |-> "file", name |-> op.name, size |-> Len(op.chain),
        first_cluster |-> IF op.chain = <<>> THEN 0 ELSE op.chain[1]]]
  /\ pc' = "info"
  /\ UNCHANGED <<fat, data, fs_info, op, at, table, old, next, writes, stopped, answer>>

\* The one sector that makes it a file.
WriteEntry ==
  /\ pc = "entry"
  /\ dir' = [dir EXCEPT ![op.slot] =
       [kind |-> "file", name |-> op.name, size |-> Len(op.chain),
        first_cluster |-> IF op.chain = <<>> THEN 0 ELSE op.chain[1]]]
  /\ old' = op.existing
  /\ pc' = IF op.existing = 0 THEN "info" ELSE "walk"
  /\ UNCHANGED <<fat, data, fs_info, op, at, table, next, writes, stopped, answer>>

\* free_chain, the part that only reads: a cluster that is free, or that the
\* new file uses, is not this chain's to give back.
WalkOldChain ==
  /\ pc = "walk"
  /\ next' = next_cluster(old)
  /\ pc' = IF next_cluster(old) = Free \/ old \in NewClusters THEN "info"
           ELSE "free"
  /\ UNCHANGED <<disk, op, at, table, old, writes, stopped, answer>>

FreeOldCluster ==
  /\ pc = "free"
  /\ set_next_cluster(old, Free)
  /\ old' = IF LastTable /\ next \in Clusters THEN next ELSE old
  /\ pc' = IF ~LastTable THEN "free" ELSE IF next \in Clusters THEN "walk" ELSE "info"
  /\ UNCHANGED <<data, dir, fs_info, op, at, next, writes, stopped, answer>>

\* Nothing of a write outlives it.
Finish ==
  /\ pc' = "idle" /\ op' = NoOp
  /\ at' = 0 /\ table' = 1 /\ old' = 0 /\ next' = Free

Counted == [free |-> Cardinality(FreeClusters),
            first_free |-> IF FreeClusters = {} THEN 0 ELSE Least(FreeClusters)]

\* update_fs_info, counted from the table and not kept, and left alone if it
\* is not one; then the answer.
UpdateFsInfo ==
  /\ pc = "info"
  /\ fs_info' = IF fs_info = Foreign THEN Foreign ELSE Counted
  /\ Finish
  /\ answer' = "ok"
  /\ UNCHANGED <<fat, data, dir, writes, stopped>>

\* A sector that cannot be read or written ends the write with an error; a
\* machine that loses its power ends it with no answer.
Stop ==
  /\ pc # "idle"
  /\ Finish
  /\ stopped' = TRUE
  /\ answer' = "error"
  /\ UNCHANGED <<disk, writes>>

Next ==
  \/ \E n \in Names \cup {SubDir.name}, needed \in 0 .. MAX_FILE_CLUSTERS + 1 :
       Begin(n, needed) \/ Refuse(n, needed)
  \/ write_clusters
  \/ WriteChain
  \/ WriteEntry
  \/ WalkOldChain
  \/ FreeOldCluster
  \/ UpdateFsInfo
  \/ Stop

Spec == Init /\ [][Next]_vars

------------------------------------------------------------------------------
(* Properties *)

Entries == Clusters \cup {Free, End, Bad}

\* The volume's structures hold what the format lets them hold, and the
\* write's locals what `write_file` puts in them.
TypeOK ==
  /\ fat \in [Tables -> [Clusters -> Entries]]
  /\ data \in [Clusters -> (0 .. MaxWrites) \X (0 .. MAX_FILE_CLUSTERS)]
  /\ \A s \in Slots : dir[s] \in {NeverUsed, Deleted, Label, SubDir} \cup Files
  /\ fs_info \in [free : 0 .. CLUSTERS, first_free : Clusters \cup {0}] \cup {Foreign}
  /\ pc \in {"idle", "data", "chain", "entry", "walk", "free", "info"}
  /\ pc = "idle" <=> op = NoOp
  /\ table \in Tables /\ at \in 0 .. MAX_FILE_CLUSTERS + 1
  /\ old \in Clusters \cup {0} /\ next \in Entries
  /\ writes \in 0 .. MaxWrites /\ stopped \in BOOLEAN
  /\ answer \in {"none", "ok", "error"}

FileSlots == {s \in Scanned : dir[s].kind = "file"}

ChainOf(s) == Chain(dir[s].first_cluster, dir[s].size)
ClustersOf(s) == {ChainOf(s)[k] : k \in 1 .. dir[s].size}

\* A file that can be read: its chain has as many clusters as the entry says
\* and then ends, and what is in them is all of one write, in order.
FilesAreWhole ==
  \A s \in FileSlots :
    /\ ClustersOf(s) \subseteq Clusters
    /\ dir[s].size > 0 => next_cluster(ChainOf(s)[dir[s].size]) = End
    /\ \E v \in 1 .. MaxWrites : read_file(dir[s]) = Contents(v, dir[s].size)

\* Wherever a write stops ("between any two of those steps leaves a volume
\* another reader still understands"), every file the directory names is
\* whole, and no cluster is in two files, or in a file and in a write that is still to
\* appear, or taken from the root, from a subdirectory or from the bad
\* ones; and no name is there twice. Only the first table is read here, but
\* another reader may use any copy: of a file's clusters they all say the
\* same (`set_next_cluster` runs to its end before the entry is written, and
\* a chain is freed only after the entry is gone). The `keep` of `free_chain` is therefore
\* never needed on a volume only this code has written.
FilesAreWholeAndApart ==
  /\ TypeOK /\ FilesAreWhole
  /\ \A s, t \in FileSlots : s # t =>
       dir[s].name # dir[t].name /\ ClustersOf(s) \cap ClustersOf(t) = {}
  /\ \A s \in FileSlots : \A c \in ClustersOf(s) :
       /\ c # root_cluster /\ next_cluster(c) # Bad
       /\ (\E t \in Slots : dir[t] = SubDir) => c # 3
       /\ \A t \in Tables : fat[t][c] = next_cluster(c)
  /\ pc \in {"data", "chain", "entry"} =>
       \A s \in FileSlots : ClustersOf(s) \cap NewClusters = {}
  /\ pc \in {"walk", "free"} => old \notin NewClusters

\* If no write ever stops half way, none leaves anything behind: between
\* writes the tables are the same, and every cluster that is taken belongs
\* to somebody. And a write that succeeded leaves a hint that is true if the
\* volume has one, whatever the ones before it that stopped half way had left
\* (`update_fs_info`: "Reading the tables is slower and cannot disagree").
NothingIsLostUnlessStopped ==
  /\ answer = "ok" => fs_info \in {Counted, Foreign}
  /\ pc = "idle" /\ ~stopped =>
    /\ \A t \in Tables : fat[t] = fat[1]
    /\ \A c \in Clusters : next_cluster(c) \notin {Free, Bad} =>
         \/ c = root_cluster
         \/ c = 3 /\ \E s \in Slots : dir[s] = SubDir
         \/ \E s \in FileSlots : c \in ClustersOf(s)

\* What can be read by name.
FileNamed(n) ==
  LET s == Least(Named(n)) IN
  IF Named(n) = {} \/ dir[s].kind = "dir" THEN Absent ELSE read_file(dir[s])

Store == INSTANCE FileStore
  WITH Names <- Names \cup {SubDir.name},
       Texts <- {Contents(v, n) : v \in 1 .. MaxWrites,
                                     n \in 0 .. MAX_FILE_CLUSTERS},
       Nothing <- NoOp,
       files <- [n \in Names \cup {SubDir.name} |-> FileNamed(n)],
       writing <- IF pc = "idle" THEN NoOp
                  ELSE [name |-> op.name, contents |-> op.contents,
                        stored |-> pc \in {"walk", "free", "info"}]

\* Sector by sector, `write_file` does what FileStore says: the file changes
\* in one step from all of the old to all of the new, no other file ever
\* changes, and success is answered only for a file that is there.
ImplementsFileStore == Store!Spec
==============================================================================
