------------------------------ MODULE FatReader ------------------------------
(***************************************************************************)
(* How a FAT32 volume is read (hal/src/fat.rs up to `read_at`, and the     *)
(* kernel's question whether it may write to one, kernel/src/fs.rs), over  *)
(* the images of DiskImage. A volume is an image with its boot sector read *)
(* and believed. The format's other reader, the firmware, is modelled by   *)
(* what the format asks of it.                                             *)
(***************************************************************************)
EXTENDS DiskImage

PowersOfTwo == {1, 2, 4, 8, 16, 32, 64, 128}

\* Who a volume says it is, when it says anything; the label without its
\* padding.
VolumeId(sector) ==
  IF sector.extended = 41 THEN [serial |-> sector.serial, label |-> sector.label.text]
  ELSE [serial |-> 0, label |-> "none"]

\* BootSector::parse: the first thing that makes no sense is the answer.
parse(sector) ==
  IF sector.is # "boot" THEN Refused("NoSignature")
  ELSE
  LET g == sector.geometry
      before_data == g.reserved_sectors + g.fat_count * g.sectors_per_fat
      clusters == (g.total_sectors - before_data) \div g.sectors_per_cluster
  IN CASE sector.signature # 43605                    -> Refused("NoSignature")
       [] sector.cells # CELLS                         -> Refused("SectorSize")
       [] g.sectors_per_cluster \notin PowersOfTwo     -> Refused("SectorsPerCluster")
       [] g.reserved_sectors = 0                       -> Refused("ReservedSectors")
       [] g.fat_count \notin 1 .. 4                    -> Refused("FatCount")
       [] sector.sixteen_bit_fat_size # 0              -> Refused("NotFat32")
       [] g.sectors_per_fat = 0                        -> Refused("FatSize")
       [] g.root_cluster < FIRST_DATA_CLUSTER          -> Refused("RootCluster")
       [] before_data >= g.total_sectors               -> Refused("NoDataRegion")
       [] clusters < FAT32_MINIMUM_CLUSTERS            -> Refused("TooFewClusters")
       [] g.sectors_per_fat * CELLS < clusters + FIRST_DATA_CLUSTER -> Refused("FatTooSmall")
       [] OTHER ->
          [err |-> "none", boot |-> g @@ [clusters |-> clusters],
           volume_id |-> VolumeId(sector)]

\* Volume::mount.
mount(image) == parse(image[0]) @@ [image |-> image]

\* is_ours: both halves have to agree.
is_ours(volume) == volume.volume_id = [serial |-> 1212240460, label |-> "HARLAN"]

Clusters(v) == FIRST_DATA_CLUSTER .. FIRST_DATA_CLUSTER + v.boot.clusters - 1

\* Entry::decode.
decode(cell) ==
  CASE cell.is = "zero" -> [is |-> "free"]
    [] cell.is = "end"  -> [is |-> "end"]
    [] cell.is = "link" -> [is |-> "next", to |-> cell.to]
    [] OTHER            -> [is |-> "reserved"]

\* next_cluster, in the t-th table; only the first is ever asked.
NextIn(v, t, cluster) ==
  LET first_fat_sector == v.boot.reserved_sectors + (t - 1) * v.boot.sectors_per_fat
      sector == first_fat_sector + cluster \div CELLS
  IN IF cluster \notin Clusters(v) THEN Refused("BadCluster")
     ELSE decode(v.image[sector * CELLS + (cluster % CELLS)]) @@ [err |-> "none"]

next_cluster(v, cluster) == NextIn(v, 1, cluster)

\* The clusters a reader that starts at `first` gets to, while each names
\* one of the volume's; never more of them than there are.
Follow(v, first) ==
  LET Known(cluster) == IF cluster \in Clusters(v) THEN cluster ELSE 0
      After(cluster) == LET e == next_cluster(v, cluster) IN
                        IF e.is = "next" THEN Known(e.to) ELSE 0
      from[left \in 0 .. v.boot.clusters, cluster \in Clusters(v) \cup {0}] ==
        IF left = 0 \/ cluster = 0 THEN <<>>
        ELSE <<cluster>> \o from[left - 1, After(cluster)]
  IN from[v.boot.clusters, Known(first)]

\* Why no reader gets past the clusters `Follow` gives, unless the chain is
\* marked as ended there.
ChainError(v, chain) ==
  LET last == next_cluster(v, Last(chain)).is IN
  CASE chain = <<>>                                    -> "BadCluster"
    [] chain # <<>> /\ last = "end"                    -> "none"
    [] chain # <<>> /\ last = "next"                   ->
         IF Len(chain) = v.boot.clusters THEN "ChainLoops" ELSE "BadCluster"
    [] chain # <<>> /\ last \in {"free", "reserved"}   -> "BrokenChain"

\* BootSector::sector_of_cluster, as an address.
address_of(v, cluster) == sector_of_cluster(v.boot, cluster)

\* decode_slot: the padding goes and the dot comes back; the label is no
\* entry.
decode_slot(cell) ==
  CASE cell.is # "entry"           -> [is |-> "End"]
    [] cell.attributes = "label"   -> [is |-> "Skip"]
    [] OTHER -> [is |-> "Entry", name |-> <<cell.name.base>> \o cell.name.extension,
                 directory |-> cell.attributes = "directory",
                 first_cluster |-> cell.first_cluster, size |-> cell.size]

\* read_root, of a directory that starts at `first`: every slot along its
\* chain, to the first that was never used; the entries come one by one, and
\* after them the error if the chain breaks before that slot.
SlotsOf(v, chain, per_cluster) ==
  [k \in 1 .. Len(chain) * per_cluster |->
     decode_slot(v.image[address_of(v, chain[1 + (k - 1) \div per_cluster]) + ((k - 1) % per_cluster)])]

UsedOf(slots) ==
  SubSeq(slots, 1, Min({k \in DOMAIN slots : slots[k].is = "End"} \cup {Len(slots) + 1}) - 1)

read_directory(v, first) ==
  LET chain == Follow(v, first)
      slots == SlotsOf(v, chain, cluster_cells(v.boot))
      used  == UsedOf(slots)
  IN [entries |-> SelectSeq(used, LAMBDA slot : slot.is = "Entry"),
      err |-> IF Len(used) < Len(slots) THEN "none" ELSE ChainError(v, chain)]

\* find, in a directory: the first entry with that name; or none, or the error
\* that came before it.
FindIn(v, first, name) ==
  LET walk == read_directory(v, first) IN
  Head(SelectSeq(walk.entries, LAMBDA slot : slot.name = name) \o <<[is |-> walk.err]>>)

find(v, name) == FindIn(v, v.boot.root_cluster, name)

\* read_at: to the cluster that holds the offset, then on, to the end of
\* what was wanted or of the file. A chain that ends too soon is an error.
ReadAlong(v, chain, per_cluster, offset, want) ==
  IF want <= 0 THEN <<>>
  ELSE IF Len(chain) < 1 + (offset + want - 1) \div per_cluster
  THEN <<Refused(IF ChainError(v, chain) = "none" THEN "BrokenChain" ELSE ChainError(v, chain))>>
  ELSE [k \in 1 .. want |->
          LET n == offset + k - 1 IN
          v.image[address_of(v, chain[1 + n \div per_cluster]) + (n % per_cluster)]]

read_at(v, entry, offset, length_wanted) ==
  ReadAlong(v, Follow(v, entry.first_cluster), cluster_cells(v.boot), offset,
            Min({length_wanted, entry.size - offset}))

------------------------------------------------------------------------------
(* The firmware, as the format describes a reader *)

\* From directory to directory, to the entry at the end of a path.
lookup(v, path) ==
  FoldLeft(LAMBDA at, name : IF at.is # "Entry" THEN at
                             ELSE IF ~at.directory THEN [is |-> "none"]
                             ELSE FindIn(v, at.first_cluster, name),
           [is |-> "Entry", directory |-> TRUE, first_cluster |-> v.boot.root_cluster], path)

\* The partitions a table's header describes, when both checksums are right.
\* The table is found from either end of the disk.
partitions_from(image, lba) ==
  LET h     == image[lba * CELLS]
      array == [k \in 1 .. ENTRY_COUNT |-> image[h.entries_lba * CELLS + k - 1]]
  IN IF \/ h.is # "header"
        \/ h.crc # crc32([f \in (DOMAIN h) \ {"crc"} |-> h[f]])
        \/ h.this_lba # lba
        \/ h.entries_crc # crc32(array)
     THEN <<>>
     ELSE SelectSeq(array, LAMBDA cell : cell.is = "partition")

\* A partition, as the disk it looks like.
Part(image, partition) ==
  LET base == partition.first * CELLS IN
  [a \in 0 .. (partition.last - partition.first + 1) * CELLS - 1 |-> image[base + a]]
==============================================================================
