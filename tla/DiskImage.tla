------------------------------ MODULE DiskImage ------------------------------
(***************************************************************************)
(* The disk images `cargo xtask` lays out (tools/xtask/src/fat32.rs and    *)
(* gpt.rs), and the reading of one by the kernel (hal/src/fat.rs): what    *)
(* one end writes, the other has to understand.                            *)
(*                                                                         *)
(* An image is a function from addresses to cells, CELLS of them in a      *)
(* sector. A cell holds whatever the two ends take as a unit: an entry of  *)
(* an allocation table, an entry of a directory, one unit of a file, or,   *)
(* in the first cell of its sector, a boot sector, an FSInfo sector or a   *)
(* partition table's header. A later write covers an earlier one, as       *)
(* `copy_from_slice` does.                                                 *)
(*                                                                         *)
(* A name is the sequence of its parts between the dots, a path the        *)
(* sequence of its names.                                                  *)
(***************************************************************************)
EXTENDS Integers, Sequences, FiniteSets, SequencesExt, FiniteSetsExt

CONSTANTS CELLS,                    \* of a sector
          RESERVED_SECTORS, FAT_COUNT, BACKUP_BOOT_SECTOR,
          FAT32_MINIMUM_CLUSTERS,
          FIRST_USABLE,             \* first sector of a partition, and their alignment
          ENTRY_SECTORS,            \* sectors of a partition table's entries
          Words                     \* parts of names and labels, in alphabetical
                                    \* order: [text, length]

ASSUME ImageAssumption ==
  /\ {CELLS, FAT_COUNT, FAT32_MINIMUM_CLUSTERS, ENTRY_SECTORS} \subseteq Nat \ {0}
  /\ BACKUP_BOOT_SECTOR > 1 /\ BACKUP_BOOT_SECTOR + 1 < RESERVED_SECTORS
  /\ 2 + ENTRY_SECTORS <= FIRST_USABLE

FIRST_DATA_CLUSTER == 2

Rank(text)   == CHOOSE k \in DOMAIN Words : Words[k].text = text
length(text) == IF text = "" THEN 0 ELSE Words[Rank(text)].length

Zero == [is |-> "zero"]

\* What the cells of a sequence look like at an address of an image.
At(address, cells) == [a \in address .. address + Len(cells) - 1 |-> cells[a - address + 1]]

Sector(sector, cells) == At(sector * CELLS, cells)

\* An image of so many sectors that the pieces are written to, in order.
Written(sectors, pieces) ==
  FoldLeft(LAMBDA image, piece : piece @@ image, [a \in 0 .. sectors * CELLS - 1 |-> Zero], pieces)

div_ceil(a, b) == (a + b - 1) \div b

saturating_sub(a, b) == IF a < b THEN 0 ELSE a - b

------------------------------------------------------------------------------
(* The formatter: the size of the tables *)

\* The question the search asks: does a table of this many sectors have an
\* entry for every cluster that is left?
Fits(total_sectors, sectors_per_cluster, size) ==
  LET data == saturating_sub(saturating_sub(total_sectors, RESERVED_SECTORS), FAT_COUNT * size)
  IN data \div sectors_per_cluster + FIRST_DATA_CLUSTER <= size * CELLS

\* Mutant: an entry per cluster, and none for the two that are reserved.
sectors_per_fat_unreserved(total_sectors, sectors_per_cluster) ==
  CHOOSE size \in 1 .. total_sectors :
    LET fits(s) == (total_sectors - RESERVED_SECTORS - FAT_COUNT * s) \div sectors_per_cluster
                     <= s * CELLS
    IN fits(size) /\ \A s \in 1 .. size - 1 : ~fits(s)

\* By halving the range that holds the answer.
sectors_per_fat_for(total_sectors, sectors_per_cluster) ==
  LET Sizes == 1 .. Max({total_sectors, 1})
      search[smallest \in Sizes, largest \in Sizes] ==
        LET middle == smallest + (largest - smallest) \div 2 IN
        IF smallest >= largest THEN smallest
        ELSE IF Fits(total_sectors, sectors_per_cluster, middle)
             THEN search[smallest, middle]
             ELSE search[middle + 1, largest]
  IN search[1, Max({total_sectors, 1})]

Geometry(total_sectors, sectors_per_cluster) ==
  LET sectors_per_fat == sectors_per_fat_for(total_sectors, sectors_per_cluster) IN
  [total_sectors |-> total_sectors, sectors_per_cluster |-> sectors_per_cluster,
   reserved_sectors |-> RESERVED_SECTORS, fat_count |-> FAT_COUNT,
   sectors_per_fat |-> sectors_per_fat, root_cluster |-> FIRST_DATA_CLUSTER,
   clusters |-> (total_sectors - RESERVED_SECTORS - FAT_COUNT * sectors_per_fat)
                  \div sectors_per_cluster]

first_data_sector(g) == g.reserved_sectors + g.fat_count * g.sectors_per_fat

\* The address of a cluster.
sector_of_cluster(g, cluster) ==
  CELLS * (first_data_sector(g) + (cluster - FIRST_DATA_CLUSTER) * g.sectors_per_cluster)

cluster_cells(g) == CELLS * g.sectors_per_cluster

------------------------------------------------------------------------------
(* The formatter: what goes in which directory, and where *)

\* Eight characters and three, and an extension is what follows the first
\* dot.
is_eight_three(name) ==
  /\ length(name[1]) \in 1 .. 8
  /\ FoldLeft(LAMBDA sum, part : sum + 1 + length(part), 0, Tail(name)) <= 4

\* The name in an entry: two fields, padded, and no dot between them.
padded_name(name) ==
  [base |-> name[1], extension |-> IF Tail(name) = <<"">> THEN <<>> ELSE Tail(name)]

padded_label(label) == [text |-> label, spaces |-> saturating_sub(11, length(label))]

Parent(path) == SubSeq(path, 1, Len(path) - 1)

\* Every directory on the way to a file, the root included.
Directories(files) == {<<>>} \cup UNION {Prefixes(Parent(files[k].path)) : k \in DOMAIN files}

\* The order of a BTreeMap's keys.
Before(p, q) ==
  \/ IsStrictPrefix(p, q)
  \/ \E k \in (DOMAIN p) \cap (DOMAIN q) :
       /\ \A j \in 1 .. k - 1 : p[j] = q[j]
       /\ Rank(p[k][1]) < Rank(q[k][1])

\* What a directory holds, in the order `tree` was filled: a directory when
\* the first file under it is met, a file when it is.
Held(files, directory) ==
  LET Met(k) ==
        LET child == SubSeq(files[k].path, 1, Len(directory) + 1) IN
        IF ~IsStrictPrefix(directory, files[k].path) THEN <<>>
        ELSE IF child = files[k].path THEN <<[path |-> child, file |-> k]>>
        ELSE IF \E j \in 1 .. k - 1 : IsStrictPrefix(child, files[j].path) THEN <<>>
        ELSE <<[path |-> child, file |-> 0]>>
  IN FlattenSeq([k \in DOMAIN files |-> Met(k)])

\* The label in the root, `.` and `..` in the others.
Fixed(directory) == IF directory = <<>> THEN 1 ELSE 2

\* The directories' clusters follow the root's, in order.
directory_cluster(files, directory) ==
  IF directory = <<>> THEN FIRST_DATA_CLUSTER
  ELSE FIRST_DATA_CLUSTER + 1 +
       Cardinality({d \in Directories(files) \ {<<>>} : Before(d, directory)})

Needed(g, file) == div_ceil(file.size, cluster_cells(g))

\* `next_free` once the directories and the first n files have their
\* clusters.
NextFree(g, files, n) ==
  FIRST_DATA_CLUSTER + Cardinality(Directories(files)) +
  FoldLeft(LAMBDA sum, file : sum + Needed(g, file), 0, SubSeq(files, 1, n))

\* Where a file begins; nowhere, when it has no bytes.
first_cluster(g, files, n) ==
  IF Needed(g, files[n]) = 0 THEN 0 ELSE NextFree(g, files, n - 1)

------------------------------------------------------------------------------
(* The formatter: the image *)

END_OF_CHAIN == [is |-> "end"]
Link(cluster) == [is |-> "link", to |-> cluster]

boot_sector(g, label) ==
  [is |-> "boot", signature |-> 43605, cells |-> CELLS, sixteen_bit_fat_size |-> 0,
   geometry |-> [f \in (DOMAIN g) \ {"clusters"} |-> g[f]],
   fs_info_sector |-> 1, backup_boot_sector |-> BACKUP_BOOT_SECTOR,
   extended |-> 41, serial |-> 1212240460, label |-> padded_label(label)]

fs_info_sector(clusters, next_free) ==
  [is |-> "info", free |-> clusters + FIRST_DATA_CLUSTER - next_free, next_free |-> next_free]

\* One table: the two reserved entries, then the chains: a cluster each for
\* the directories, and one after the other for a file.
table(g, files) ==
  LET ends == {directory_cluster(files, d) : d \in Directories(files)} \cup
              {NextFree(g, files, n) - 1 : n \in DOMAIN files}
  IN <<[is |-> "media"], END_OF_CHAIN>> \o
     [k \in 1 .. NextFree(g, files, Len(files)) - FIRST_DATA_CLUSTER |->
        IF k + 1 \in ends THEN END_OF_CHAIN ELSE Link(k + 2)]

directory_entry(name, attributes, cluster, size) ==
  [is |-> "entry", name |-> name, attributes |-> attributes,
   first_cluster |-> cluster, size |-> size]

\* A directory's cells. The `..` of one whose parent is the root says zero.
directory(g, files, label, d) ==
  LET cluster == directory_cluster(files, d)
      parent  == IF Parent(d) = <<>> THEN 0 ELSE directory_cluster(files, Parent(d))
      Entry(held) ==
        LET name == padded_name(Last(held.path)) IN
        IF held.file = 0
        THEN directory_entry(name, "directory", directory_cluster(files, held.path), 0)
        ELSE directory_entry(name, "archive", first_cluster(g, files, held.file),
                             files[held.file].size)
  IN (IF d = <<>>
      THEN <<[is |-> "entry", name |-> padded_label(label), attributes |-> "label"]>>
      ELSE <<directory_entry([base |-> ".", extension |-> <<>>], "directory", cluster, 0),
             directory_entry([base |-> "..", extension |-> <<>>], "directory", parent, 0)>>)
     \o [k \in DOMAIN Held(files, d) |-> Entry(Held(files, d)[k])]

Contents(file) == [k \in 1 .. file.size |-> [is |-> "byte", of |-> file.path, at |-> k]]

Image(g, files, label) ==
  LET boot == <<boot_sector(g, label)>>
      info == <<fs_info_sector(g.clusters, NextFree(g, files, Len(files)))>>
      reserved == <<Sector(0, boot), Sector(BACKUP_BOOT_SECTOR, boot),
                    Sector(1, info), Sector(BACKUP_BOOT_SECTOR + 1, info)>>
      tables == [t \in 1 .. g.fat_count |->
                   Sector(RESERVED_SECTORS + (t - 1) * g.sectors_per_fat, table(g, files))]
      directories == [k \in 1 .. Cardinality(Directories(files)) |->
                        LET d == SetToSortSeq(Directories(files), Before)[k] IN
                        At(sector_of_cluster(g, directory_cluster(files, d)),
                           directory(g, files, label, d))]
      placed == SelectSeq([k \in DOMAIN files |-> k], LAMBDA k : files[k].size > 0)
      contents == [k \in DOMAIN placed |->
                     At(sector_of_cluster(g, first_cluster(g, files, placed[k])),
                        Contents(files[placed[k]]))]
  IN Written(g.total_sectors, reserved \o tables \o directories \o contents)

Refused(why) == [err |-> why]

\* Why there is no image, in the order the questions are asked. A disk smaller
\* than its tables is a subtraction that overflows, which panics in the build
\* the tool is run in.
format(total_sectors, sectors_per_cluster, label, files) ==
  LET g == Geometry(total_sectors, sectors_per_cluster)
      limit == FIRST_DATA_CLUSTER + g.clusters
  IN CASE \E k \in DOMAIN files : \E n \in DOMAIN files[k].path :
            ~is_eight_three(files[k].path[n])            -> Refused("BadName")
       [] total_sectors < first_data_sector(g)            -> Refused("Overflow")
       [] g.clusters < FAT32_MINIMUM_CLUSTERS             -> Refused("TooSmallForFat32")
       [] \E d \in Directories(files) :
            Len(Held(files, d)) + Fixed(d) > cluster_cells(g) -> Refused("RootDirectoryFull")
       [] \/ Cardinality(Directories(files)) > g.clusters
          \/ \E n \in DOMAIN files : Needed(g, files[n]) > 0 /\ NextFree(g, files, n) > limit
                                                          -> Refused("OutOfClusters")
       [] OTHER -> [err |-> "none", image |-> Image(g, files, label), geometry |-> g]

------------------------------------------------------------------------------
(* A partitioned image: the tables and the partitions *)

\* The checksum of exactly these cells.
crc32(cells) == [crc |-> cells]

\* A header's own checksum is of the header with that field empty.
header(this_lba, other_lba, entries_lba, first_usable, last_usable, entries_crc) ==
  LET sector == [is |-> "header", this_lba |-> this_lba, other_lba |-> other_lba,
                 entries_lba |-> entries_lba, first_usable |-> first_usable,
                 last_usable |-> last_usable, entries_crc |-> entries_crc]
  IN sector @@ [crc |-> crc32(sector)]

\* The next partition starts at the next boundary.
following(next, sectors) == div_ceil(next + sectors, FIRST_USABLE) * FIRST_USABLE

Sectors(partition) == Cardinality(DOMAIN partition.contents) \div CELLS

\* Where the n-th partition starts, or the space after the last one does.
FirstOf(partitions, n) ==
  FoldLeft(LAMBDA next, partition : following(next, Sectors(partition)),
           FIRST_USABLE, SubSeq(partitions, 1, n - 1))

entries(partitions) ==
  [k \in DOMAIN partitions |->
     LET first == FirstOf(partitions, k) IN
     [is |-> "partition", type |-> partitions[k].type, guid |-> partitions[k].guid,
      first |-> first, last |-> first + Sectors(partitions[k]) - 1]]

ENTRY_COUNT == ENTRY_SECTORS * CELLS

protective_mbr(total_sectors) ==
  [is |-> "mbr", type |-> 238, first |-> 1, covered |-> total_sectors - 1]

\* Mutant: the backup's entries go where the partitions end.
backup_lba_low(partitions) == FirstOf(partitions, Len(partitions) + 1) - 1

\* Where the backup's entries go: after everything, before its header.
backup_entries_lba(partitions) == FirstOf(partitions, Len(partitions) + 1)

\* The protective MBR, two copies of the table and the partitions.
gpt_build(partitions) ==
  LET next     == FirstOf(partitions, Len(partitions) + 1)
      last_lba == next + ENTRY_SECTORS
      listed   == entries(partitions)
      array    == listed \o [k \in 1 .. ENTRY_COUNT - Len(listed) |-> Zero]
      Header(this, other, at) ==
        <<header(this, other, at, FIRST_USABLE, next - 1, crc32(array))>>
      backup   == backup_entries_lba(partitions)
      contents == [k \in DOMAIN partitions |->
                     LET base == FirstOf(partitions, k) * CELLS
                         held == partitions[k].contents
                     IN [a \in base .. base + Cardinality(DOMAIN held) - 1 |-> held[a - base]]]
  IN IF partitions = <<>> \/ Len(partitions) > ENTRY_COUNT
        \/ \E k \in DOMAIN partitions :
             Sectors(partitions[k]) = 0 \/ Cardinality(DOMAIN partitions[k].contents) % CELLS # 0
     THEN Refused("bail")
     ELSE [err |-> "none",
           image |-> Written(last_lba + 1,
             contents \o <<Sector(1, Header(1, last_lba, 2)), Sector(2, array),
                           Sector(backup, array), Sector(last_lba, Header(last_lba, 1, backup)),
                           Sector(0, <<protective_mbr(last_lba + 1)>>)>>)]

BootLoader == <<<<"EFI">>, <<"BOOT">>, <<"BOOTX64", "EFI">>>>

\* The EFI System Partition, with the boot loader where firmware looks for it.
esp_volume(bootloader_size, esp_sectors) ==
  format(esp_sectors, 1, "HARLANESP", <<[path |-> BootLoader, size |-> bootloader_size]>>)

\* The stick: that partition, and the volume beside it.
usb_image(esp, data) ==
  gpt_build(<<[type |-> "ESP_TYPE", guid |-> "ESP_GUID", contents |-> esp],
              [type |-> "DATA_TYPE", guid |-> "DATA_GUID", contents |-> data]>>)
==============================================================================
