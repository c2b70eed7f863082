------------------------------ MODULE OpenFiles ------------------------------
(***************************************************************************)
(* The file calls of the processes (kernel/src/user.rs, fs.rs) and the     *)
(* descriptors they hold (kernel/src/process.rs). A call runs to its end   *)
(* with interrupts off and the disk locked, so each one is a step; which   *)
(* call of which process comes next is open. Writing a file is the         *)
(* replacement that Fat32 implements.                                      *)
(*                                                                         *)
(* A name is told from another as the short name it is encoded to, and by  *)
(* whether it was spelled with a dot and no extension: `encode_name` makes *)
(* the same short name of both spellings, and a comparison with the name   *)
(* of a directory entry, which never ends in a dot, does not.              *)
(***************************************************************************)
EXTENDS Integers, FiniteSets

CONSTANTS Procs, ShortNames,
          Dots,       \* {FALSE}, or BOOLEAN if names are also spelled with a dot
          MAX_OPEN,   \* descriptors of one process
          DIR_SLOTS,  \* slots of the root directory
          CHAINS,     \* how many places there are for the bytes of a file
          MaxSize,    \* bound on the size of a file
          MaxWrites   \* bound on the number of writes

ASSUME OpenFilesAssumption ==
  /\ {MAX_OPEN, DIR_SLOTS, CHAINS, MaxSize, MaxWrites} \subseteq Nat \ {0}
  /\ Dots \subseteq BOOLEAN

Slots       == 1 .. DIR_SLOTS
Descriptors == 0 .. MAX_OPEN - 1
Chains      == 1 .. CHAINS
Spellings   == [name : ShortNames, dot : Dots]
Entries     == [name : ShortNames, chain : Chains, size : 0 .. MaxSize]

\* Slots of the directory with no file, and a descriptor that is not open.
NeverUsed == [name |-> "never"]
Deleted   == [name |-> "deleted"]
Closed    == [name |-> "closed"]

VARIABLES
  dir,     \* per slot: an entry, NeverUsed or Deleted
  data,    \* per chain: the number of the write that filled it
  alive,   \* the processes that have not ended
  open,    \* per process and descriptor: the file and how far it was read
  ls,      \* one listing of the directory, entry by entry
  writes   \* writes so far

vars == <<dir, data, alive, open, ls, writes>>

NoListing == [at |-> "none"]

Init ==
  /\ dir \in [Slots -> {NeverUsed, Deleted}]
  /\ \A s, t \in Slots : s < t /\ dir[s] = NeverUsed => dir[t] = NeverUsed
  /\ data = [c \in Chains |-> 0]
  /\ alive = Procs
  /\ open = [p \in Procs |-> [d \in Descriptors |-> Closed]]
  /\ ls = NoListing
  /\ writes = 0

------------------------------------------------------------------------------
(* The directory *)

Least(S) == CHOOSE x \in S : \A y \in S : x <= y

Scanned   == {s \in Slots : \A t \in 1 .. s : dir[t] # NeverUsed}
FileSlots == {s \in Scanned : dir[s] # Deleted}

encode_name(spelled) == spelled.name

\* DirectoryEntry::is_named: the spelling is compared as it is.
is_named(entry, spelled) == entry.name = spelled.name /\ ~spelled.dot

find(spelled) == {s \in FileSlots : is_named(dir[s], spelled)}

\* Where `directory_slot` puts an entry of this short name.
SlotsFor(name) ==
  LET same == {s \in FileSlots : dir[s].name = name} IN
  IF same # {} THEN same
  ELSE IF Scanned # FileSlots THEN Scanned \ FileSlots
  ELSE Slots \ Scanned

Unused == Chains \ {dir[s].chain : s \in FileSlots}

------------------------------------------------------------------------------
(* Descriptors *)

holds(p, spelled) ==
  \E d \in Descriptors : open[p][d] # Closed /\ is_named(open[p][d].entry, spelled)

\* Mutant: nobody else's table is asked.
anyone_has_open_one(spelled) == holds(CHOOSE p \in Procs : TRUE, spelled)

\* Every slot of the scheduler is asked, those of ended processes as well.
anyone_has_open(spelled) == \E p \in Procs : holds(p, spelled)

FreeDescriptors(p) == {d \in Descriptors : open[p][d] = Closed}

------------------------------------------------------------------------------
(* The calls. A call that is refused changes nothing. *)

\* The entry is copied into the first free descriptor. `version` is what the
\* file's bytes are at that moment.
Open(p, spelled) ==
  /\ p \in alive
  /\ find(spelled) # {} /\ FreeDescriptors(p) # {}
  /\ LET entry == dir[Least(find(spelled))] IN
     open' = [open EXCEPT ![p][Least(FreeDescriptors(p))] =
       [entry |-> entry, position |-> 0, version |-> data[entry.chain]]]
  /\ UNCHANGED <<dir, data, alive, ls, writes>>

\* The position moves by what was read, which is what there is up to the end.
Read(p, d, len) ==
  /\ p \in alive
  /\ open[p][d] # Closed
  /\ LET left == open[p][d].entry.size - open[p][d].position IN
     open' = [open EXCEPT ![p][d].position = @ + IF len < left THEN len ELSE left]
  /\ UNCHANGED <<dir, data, alive, ls, writes>>

Close(p, d) ==
  /\ p \in alive
  /\ open[p][d] # Closed
  /\ open' = [open EXCEPT ![p][d] = Closed]
  /\ UNCHANGED <<dir, data, alive, ls, writes>>

\* Mutant: the new entry goes to a slot of its own and the old one is deleted.
Replaced_elsewhere(name, entry) ==
  LET old   == {s \in FileSlots : dir[s].name = name}
      fresh == IF Scanned # FileSlots THEN Scanned \ FileSlots ELSE Slots \ Scanned
  IN [s \in Slots |-> IF fresh # {} /\ s = Least(fresh) THEN entry
                      ELSE IF s \in old /\ fresh # {} THEN Deleted ELSE dir[s]]

\* The directory with this entry for the name.
Replaced(name, entry) == [dir EXCEPT ![Least(SlotsFor(name))] = entry]

\* The bytes go to the first place no file has. The write may stop before it gets to
\* the directory, and leaves them there. At boot and between rounds the
\* kernel itself writes files, in the same way.
WriteFile(spelled, size, stops) ==
  /\ writes < MaxWrites
  /\ ~anyone_has_open(spelled)
  /\ SlotsFor(encode_name(spelled)) # {}
  /\ Unused # {}
  /\ data' = [data EXCEPT ![Least(Unused)] = writes + 1]
  /\ dir' = IF stops THEN dir
            ELSE Replaced(encode_name(spelled),
                          [name |-> encode_name(spelled), chain |-> Least(Unused),
                           size |-> size])
  /\ writes' = writes + 1
  /\ UNCHANGED <<alive, open, ls>>

\* Mutant: the descriptors stay open.
kill_keeps_open(p) ==
  /\ p \in alive
  /\ alive' = alive \ {p}
  /\ UNCHANGED <<dir, data, open, ls, writes>>

\* Scheduler::kill, for a process that exits, faults or is given up.
kill(p) ==
  /\ p \in alive
  /\ alive' = alive \ {p}
  /\ open' = [open EXCEPT ![p] = [d \in Descriptors |-> Closed]]
  /\ UNCHANGED <<dir, data, ls, writes>>

------------------------------------------------------------------------------
(* `ls` of the shell: one `list` call per entry, until one is refused *)

\* The files before a slot.
Before(s) == {t \in FileSlots : t < s}

\* entry_at: the entry that has `index` others before it.
entry_at(index) ==
  {s \in FileSlots : Cardinality(Before(s)) = index}

\* A listing changes nothing that another could see, so one is followed.
list_files(p) ==
  /\ p \in alive
  /\ ls = NoListing
  /\ ls' = [at |-> "listing", by |-> p, index |-> 0, shown |-> {},
            there |-> {dir[s].name : s \in FileSlots}]
  /\ UNCHANGED <<dir, data, alive, open, writes>>

\* A call that cannot read the directory is refused with a number of its own,
\* and the shell stops on any: "cut" is a listing that ended so.
List(p, unreadable) ==
  /\ p \in alive
  /\ ls.at = "listing" /\ ls.by = p
  /\ LET found == entry_at(ls.index) IN
     ls' = IF unreadable THEN [ls EXCEPT !.at = "cut"]
           ELSE IF found = {} THEN [ls EXCEPT !.at = "done"]
           ELSE [ls EXCEPT !.index = @ + 1,
                           !.shown = @ \cup {dir[s].name : s \in found}]
  /\ UNCHANGED <<dir, data, alive, open, writes>>

Next ==
  \/ \E p \in Procs, spelled \in Spellings : Open(p, spelled)
  \/ \E p \in Procs, d \in Descriptors, len \in 0 .. MaxSize : Read(p, d, len)
  \/ \E p \in Procs, d \in Descriptors : Close(p, d)
  \/ \E spelled \in Spellings, size \in 0 .. MaxSize, stops \in BOOLEAN :
       WriteFile(spelled, size, stops)
  \/ \E p \in Procs : kill(p) \/ list_files(p)
  \/ \E p \in Procs, unreadable \in BOOLEAN : List(p, unreadable)

Spec == Init /\ [][Next]_vars

------------------------------------------------------------------------------
(* Properties *)

OpenFile == [entry : Entries, position : 0 .. MaxSize, version : 0 .. MaxWrites]

\* The table of each process and the directory have the shape their types
\* give them, and no position is past the end of its file.
TypeOK ==
  /\ \A s \in Slots : dir[s] \in Entries \cup {NeverUsed, Deleted}
  /\ data \in [Chains -> 0 .. MaxWrites]
  /\ alive \subseteq Procs
  /\ \A p \in Procs, d \in Descriptors : open[p][d] # Closed =>
       open[p][d] \in OpenFile /\ open[p][d].position <= open[p][d].entry.size
  /\ writes \in 0 .. MaxWrites

\* A descriptor that is open reads the bytes the file had when it was opened,
\* to the end: the entry it copied is still the directory's and nobody has
\* written where its bytes are. `fs::write_file`: "Refuses if anybody has
\* that name open", which "removes the whole class".
OpenFilesDoNotChange ==
  TypeOK /\ \A p \in Procs, d \in Descriptors : open[p][d] # Closed =>
    /\ \E s \in FileSlots : dir[s] = open[p][d].entry
    /\ data[open[p][d].entry.chain] = open[p][d].version

\* A file is kept from being written only by a process that can still close
\* it (`kill`: "a descriptor it left open would keep a file unwritable for
\* ever").
OnlyTheLivingHoldFiles ==
  \A spelled \in Spellings :
    anyone_has_open(spelled) => \E p \in alive : holds(p, spelled)

\* A listing made of one call per index passes over no file that was there
\* when it began, although files are written between the calls: an entry never
\* moves to a smaller index. So one that ends because there is no such index
\* has shown them all (`entry_at`: "which is what a listing loop stops on"),
\* and one that a read error cuts short lacks only files that come after
\* those it has shown. It may show one twice.
ListingMissesNothing ==
  ls # NoListing => \A name \in ls.there \ ls.shown :
    /\ ls.at # "done"
    /\ \E s \in FileSlots : dir[s].name = name /\ Cardinality(Before(s)) >= ls.index
==============================================================================
