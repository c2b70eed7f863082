-------------------------------- MODULE Xtask --------------------------------
(***************************************************************************)
(* `cargo xtask`: it builds the disk and the USB stick (prepare_disk,      *)
(* usb_image) and boots the kernel in an emulator to judge the boot from   *)
(* its logs (boot_test, soak_test). The machine and the judge are two      *)
(* processes that share files: the machine writes them whenever it likes,  *)
(* the judge reads one, then another, then asks whether the machine is     *)
(* still there, then sleeps. The clock counts the judge's sleeps.          *)
(*                                                                         *)
(* A log is, for each kind of line the judge looks for, the numbers of the *)
(* lines of that kind in the order they were written.                      *)
(***************************************************************************)
EXTENDS FatReader

CONSTANTS
  Commands,       \* what may be asked: [kind, features, marker, repeat, setup]
  TIMEOUT,        \* sleeps before a boot is given up
  DURATION,       \* sleeps of a soak
  MIN_TICKS, MIN_ROUNDS,
  MAX_PROGRESS_SILENCE,
  RESETS_AT_START, \* what the emulator logs while it makes the machine
  MAX_RESETS       \* bound on the resets of one machine

ASSUME XtaskAssumption ==
  {TIMEOUT, DURATION, MIN_TICKS, MIN_ROUNDS, MAX_PROGRESS_SILENCE} \subseteq Nat \ {0}

VARIABLES
  command, pc,
  disk, esp, stick,  \* what was built
  attempt, clock,
  log, serial,       \* the files the debug port and COM1 go to
  qemu_log,          \* CPU resets in the emulator's own log
  guest,             \* the machine
  found,             \* whether the wait ended with what it waited for
  progress,          \* what a soak's polls have seen
  verdict            \* on the boot that was judged last

files == <<log, serial, qemu_log>>
vars == <<command, pc, disk, esp, stick, attempt, clock, files, guest, found, progress, verdict>>

Setup   == command.setup
Default == command.marker = "DEFAULT_MARKER"

\* Nothing has come out of the machine yet. What it has said, and when, is
\* kept apart from the files to be compared with them.
NewGuest(works) ==
  [state |-> "starting", com1 |-> works, stage |-> 0, pending |-> "", ticks |-> 0, rounds |-> 0,
   since |-> 0, resets |-> 0, said |-> {}, here |-> {}, sent |-> {}, lost |-> {},
   tick_times |-> {}, round_times |-> {}]

Kinds == {"post_exit", "boot_ok", "ring3_shell", "DEFAULT_MARKER", "all_ok", "failed", "soak", "tick",
          "round", "trouble"}
NoLog == [kind \in Kinds |-> <<>>]

NoProgress == [resets_at_boot |-> -1, early_exit |-> FALSE, ticks |-> 0, ticks_changed_at |-> 0,
               rounds |-> 0, rounds_changed_at |-> 0]

NoImage == Refused("absent")

Init ==
  /\ command \in Commands
  /\ pc = "build" /\ disk = NoImage /\ esp = NoImage /\ stick = NoImage
  /\ attempt = 1 /\ clock = 0
  /\ log = NoLog /\ serial = {} /\ qemu_log = 0
  /\ guest = [NewGuest(TRUE) EXCEPT !.state = "off"]
  /\ found = FALSE /\ progress = NoProgress /\ verdict = "none"

------------------------------------------------------------------------------
(* Building *)

KernelFeatures == {"heap-stress", "soak"}
BOOT_ONLY_FEATURES == {"inventory"}

build_commands(features) ==
  [harlan_kernel |-> features \ BOOT_ONLY_FEATURES, harlan_boot |-> features]

\* build, up to the disk: cargo refuses a feature a package has not got.
Build ==
  /\ pc = "build"
  /\ pc' = IF build_commands(command.features).harlan_kernel \subseteq KernelFeatures
           THEN "disk" ELSE "failed"
  /\ UNCHANGED <<command, disk, esp, stick, attempt, clock, files, guest, found, progress, verdict>>

Named(base, extension) == <<<<base, extension>>>>

disk_contents(user_program, shell) ==
  <<[path |-> Named("HELLO", "ELF"), size |-> user_program],
    [path |-> Named("SHELL", "ELF"), size |-> shell],
    [path |-> Named("HELLO", "TXT"), size |-> 1],
    [path |-> Named("LONG", "BIN"), size |-> 2 * CELLS + 1],
    [path |-> Named("EMPTY", "BIN"), size |-> 0]>>

DiskFiles == disk_contents(Setup.user_program, Setup.shell)

\* prepare_disk, and what the command does next.
PrepareDisk ==
  /\ pc = "disk"
  /\ disk' = format(Setup.sectors, Setup.sectors_per_cluster, "HARLAN", DiskFiles)
  /\ pc' = CASE disk'.err # "none"            -> "failed"
             [] command.kind = "usb_image"     -> "esp"
             [] command.kind = "build"         -> "done"
             [] OTHER                          -> "launch"
  /\ UNCHANGED <<command, esp, stick, attempt, clock, files, guest, found, progress, verdict>>

\* usb_image: first the boot loader's partition, then that and the disk. (It
\* lays the disk out a second time, to the same bytes.)
FormatEsp ==
  /\ pc = "esp"
  /\ esp' = esp_volume(Setup.bootloader, Setup.esp_sectors)
  /\ pc' = IF esp'.err # "none" THEN "failed" ELSE "stick"
  /\ UNCHANGED <<command, disk, stick, attempt, clock, files, guest, found, progress, verdict>>

UsbImage ==
  /\ pc = "stick"
  /\ stick' = usb_image(esp.image, disk.image)
  /\ pc' = IF stick'.err # "none" THEN "failed" ELSE "done"
  /\ UNCHANGED <<command, disk, esp, attempt, clock, files, guest, found, progress, verdict>>

------------------------------------------------------------------------------
(* The machine *)

Says == guest.state = "on" /\ guest.pending = ""

\* One line of the log, to the debug port and then to COM1 (klog's sink). The
\* judge may look between the two.
Say(kind, number, then) ==
  /\ Says
  /\ log' = [log EXCEPT ![kind] = Append(@, number)]
  /\ guest' = [then EXCEPT !.pending = IF guest.com1 THEN kind ELSE "",
                           !.said = @ \cup {kind}, !.here = @ \cup {kind}]
  /\ UNCHANGED <<command, pc, disk, esp, stick, attempt, clock, serial, qemu_log, found, progress, verdict>>

ReachesCom1 ==
  /\ guest.state \in {"on", "halted"} /\ guest.pending # ""
  /\ serial' = serial \cup {guest.pending}
  /\ guest' = [guest EXCEPT !.pending = "", !.sent = @ \cup {guest.pending}]
  /\ UNCHANGED <<command, pc, disk, esp, stick, attempt, clock, log, qemu_log, found, progress, verdict>>

\* The emulator opens its files, emptying them.
Opens ==
  /\ guest.state = "starting"
  /\ log' = NoLog /\ serial' = {} /\ qemu_log' = RESETS_AT_START
  /\ guest' = [guest EXCEPT !.state = "on", !.since = clock]
  /\ UNCHANGED <<command, pc, disk, esp, stick, attempt, clock, found, progress, verdict>>

Stages == <<"post_exit", "boot_ok">>

Boots ==
  /\ guest.stage < Len(Stages)
  /\ Say(Stages[guest.stage + 1], 0, [guest EXCEPT !.stage = @ + 1])

Up == guest.stage = Len(Stages)

\* What the kernel finds on the disk it was given.
OnDisk(name) ==
  LET v == mount(disk.image) IN v.err = "none" /\ find(v, name).is = "Entry"

\* The shell on the disk, or the kernel's own when that one did not load.
ShellComesUp ==
  /\ command.kind = "boot_test" /\ Up
  /\ {"ring3_shell", "DEFAULT_MARKER"} \cap guest.here = {}
  /\ \/ OnDisk(<<"SHELL", "ELF">>) /\ Say("ring3_shell", 0, guest)
     \/ Say("DEFAULT_MARKER", 0, guest)

\* The other program checks the file system and says what came of it.
ProgramAnswers ==
  /\ command.kind = "boot_test" /\ Up
  /\ OnDisk(<<"HELLO", "ELF">>)
  /\ {"all_ok", "failed"} \cap guest.here = {}
  /\ \E answer \in {"all_ok", "failed"} : Say(answer, 0, guest)

SoakBegins ==
  /\ command.kind = "soak_test" /\ Up
  /\ Say("soak", 0, [guest EXCEPT !.stage = @ + 1, !.since = clock])

Soaking == guest.stage = Len(Stages) + 1

\* A line of either comes less often than the judge looks: every 100 ticks
\* (a second), and every SOAK_ROUND_CYCLES of the heap.
Due(times) == \A c \in times \cup {guest.since} : c < clock

Ticks ==
  /\ command.kind = "soak_test" /\ guest.stage > 0 /\ Due(guest.tick_times)
  /\ Say("tick", guest.ticks + 1,
         [guest EXCEPT !.ticks = @ + 1, !.tick_times = @ \cup {clock}])

Rounds ==
  /\ Soaking /\ Due(guest.round_times)
  /\ Say("round", guest.rounds + 1,
         [guest EXCEPT !.rounds = @ + 1, !.round_times = @ \cup {clock}])

\* A panic or an exception: a line, and nothing after it. Or an NMI, after
\* which the machine goes on; bound: one per start, and only where a judge
\* looks for such lines, in a soak.
Trouble ==
  \/ Say("trouble", 0, [guest EXCEPT !.state = "halted"])
  \/ command.kind = "soak_test" /\ "trouble" \notin guest.here /\ Say("trouble", 0, guest)

\* The machine starts over, and the emulator's log says so.
Resets ==
  /\ guest.state \in {"on", "halted"} /\ qemu_log < RESETS_AT_START + MAX_RESETS
  /\ qemu_log' = qemu_log + 1
  /\ guest' = [guest EXCEPT !.state = "on", !.stage = 0, !.pending = "", !.ticks = 0,
                            !.rounds = 0, !.since = clock, !.here = {},
                            !.lost = @ \cup {guest.pending},
                            !.resets = IF "soak" \in guest.said THEN @ + 1 ELSE @]
  /\ UNCHANGED <<command, pc, disk, esp, stick, attempt, clock, log, serial, found, progress, verdict>>

Exits ==
  /\ guest.state \in {"starting", "on"}
  /\ guest' = [guest EXCEPT !.state = "exited"]
  /\ UNCHANGED <<command, pc, disk, esp, stick, attempt, clock, files, found, progress, verdict>>

Machine ==
  \/ Opens \/ ReachesCom1 \/ Boots \/ ShellComesUp \/ ProgramAnswers \/ SoakBegins
  \/ Ticks \/ Rounds \/ Trouble \/ Resets \/ Exits

------------------------------------------------------------------------------
(* The judge, waiting *)

Polls(here, next) ==
  /\ pc = here
  /\ pc' = next
  /\ UNCHANGED <<command, disk, esp, stick, attempt>>

\* Mutant: the last boot's logs are left where they are.
Launch_over_old_logs ==
  /\ Polls("launch", IF command.kind = "soak_test" THEN "duration" ELSE "poll")
  /\ \E com1 \in (IF command.kind = "soak_test" THEN {FALSE} ELSE BOOLEAN) : guest' = NewGuest(com1)
  /\ clock' = 0 /\ found' = FALSE /\ progress' = NoProgress /\ verdict' = "none"
  /\ UNCHANGED files

\* Old logs are removed before the emulator is started. A soak gives COM1 no
\* file to go to.
Launch ==
  /\ Polls("launch", IF command.kind = "soak_test" THEN "duration" ELSE "poll")
  /\ log' = NoLog /\ serial' = {} /\ qemu_log' = 0
  /\ \E com1 \in (IF command.kind = "soak_test" THEN {FALSE} ELSE BOOLEAN) : guest' = NewGuest(com1)
  /\ clock' = 0 /\ found' = FALSE /\ progress' = NoProgress /\ verdict' = "none"

InLog == {kind \in Kinds : log[kind] # <<>>}

\* What ends the wait: a shell and the program, or the marker asked for.
Awaited ==
  IF ~Default THEN command.marker \in InLog
  ELSE /\ InLog \cap {"ring3_shell", "DEFAULT_MARKER"} # {}
       /\ InLog \cap {"all_ok", "failed"} # {}

\* boot_test_once's loop: the log, the process, the clock, a sleep.
PollLog ==
  /\ Polls("poll", IF Awaited THEN "kill" ELSE "poll_exit")
  /\ found' = Awaited
  /\ UNCHANGED <<clock, files, guest, progress, verdict>>

PollExit ==
  /\ Polls("poll_exit", IF guest.state = "exited" THEN "kill"
                         ELSE IF clock > TIMEOUT THEN "kill" ELSE "sleep")
  /\ UNCHANGED <<clock, files, guest, found, progress, verdict>>

Sleep ==
  /\ Polls("sleep", IF command.kind = "soak_test" THEN "duration" ELSE "poll")
  /\ clock' = clock + 1
  /\ UNCHANGED <<files, guest, found, progress, verdict>>

\* soak_test's loop: the duration and the process, then the log.
SoakPolls ==
  /\ Polls("duration", IF clock >= DURATION \/ guest.state = "exited" THEN "kill" ELSE "soak_log")
  /\ progress' = [progress EXCEPT !.early_exit = clock < DURATION /\ guest.state = "exited"]
  /\ UNCHANGED <<clock, files, guest, found, verdict>>

\* latest_ticks and latest_heap_cycles; 0 stands for none.
latest(kind) == IF log[kind] = <<>> THEN 0 ELSE Last(log[kind])

\* refresh_progress, for the ticks and for the rounds.
refresh_progress(p) ==
  LET ticks  == latest("tick") # 0 /\ latest("tick") # p.ticks
      rounds == latest("round") # 0 /\ latest("round") # p.rounds
  IN [p EXCEPT !.ticks = IF ticks THEN latest("tick") ELSE @,
               !.ticks_changed_at = IF ticks THEN clock ELSE @,
               !.rounds = IF rounds THEN latest("round") ELSE @,
               !.rounds_changed_at = IF rounds THEN clock ELSE @]

\* The log is read; the first time the marker is in it, the emulator's log
\* is read after it.
SoakReadsLog ==
  /\ Polls("soak_log", IF progress.resets_at_boot = -1 /\ "soak" \in InLog THEN "soak_resets"
                        ELSE "sleep")
  /\ progress' = refresh_progress(progress)
  /\ UNCHANGED <<clock, files, guest, found, verdict>>

SoakCountsResets ==
  /\ Polls("soak_resets", "sleep")
  /\ progress' = [progress EXCEPT !.resets_at_boot = qemu_log]
  /\ UNCHANGED <<clock, files, guest, found, verdict>>

Kill ==
  /\ Polls("kill", "judge")
  /\ guest' = [guest EXCEPT !.state = IF @ = "exited" THEN @ ELSE "killed"]
  /\ UNCHANGED <<clock, files, found, progress, verdict>>

------------------------------------------------------------------------------
(* The judge, judging *)

\* boot_test_once, after the wait.
BootPasses ==
  /\ found
  /\ Default => /\ "ring3_shell" \in InLog
                /\ "ring3_shell" \in serial
                /\ "failed" \notin InLog
                /\ "all_ok" \in InLog

Once(marker) == Len(log[marker]) = 1

\* analyze_soak finds no problem.
analyze_soak(baseline) ==
  /\ "trouble" \notin InLog
  /\ Once("post_exit") /\ Once("boot_ok") /\ Once("soak")
  /\ \A k \in 1 .. Len(log["tick"]) - 1 : log["tick"][k] < log["tick"][k + 1]
  /\ latest("tick") >= MIN_TICKS
  /\ \A k \in DOMAIN log["round"] : log["round"][k] = k
  /\ latest("round") >= MIN_ROUNDS
  /\ ~(progress.ticks # 0 /\ clock - progress.ticks_changed_at > MAX_PROGRESS_SILENCE)
  /\ ~(progress.rounds # 0 /\ clock - progress.rounds_changed_at > MAX_PROGRESS_SILENCE)
  /\ qemu_log <= baseline

SoakPasses ==
  LET baseline == IF progress.resets_at_boot = -1 THEN qemu_log ELSE progress.resets_at_boot
  IN analyze_soak(baseline) /\ ~progress.early_exit

\* One boot is judged; the first that fails ends the test.
Judge ==
  LET passes == IF command.kind = "soak_test" THEN SoakPasses ELSE BootPasses IN
  /\ pc = "judge"
  /\ verdict' = IF passes THEN "passes" ELSE "fails"
  /\ attempt' = attempt + 1
  /\ pc' = IF ~passes THEN "failed" ELSE IF attempt < command.repeat THEN "launch" ELSE "done"
  /\ UNCHANGED <<command, disk, esp, stick, clock, files, guest, found, progress>>

Builds == Build \/ PrepareDisk \/ FormatEsp \/ UsbImage

Judges ==
  \/ Launch \/ PollLog \/ PollExit \/ Sleep \/ SoakPolls \/ SoakReadsLog \/ SoakCountsResets
  \/ Kill \/ Judge

Next == Builds \/ Judges \/ Machine

Spec == Init /\ [][Next]_vars

------------------------------------------------------------------------------
(* Properties *)

\* Every file is where `find` looks for it, and from wherever it is read,
\* one unit at a time or to the end, `read_at` gives back what was put there.
FilesReadBack(v) ==
  \A k \in DOMAIN DiskFiles :
    LET file == DiskFiles[k]
        e    == find(v, file.path[1])
    IN /\ e.is = "Entry" /\ ~e.directory /\ e.size = file.size
       /\ \A offset \in 0 .. file.size, n \in {1, file.size + 1} :
            read_at(v, e, offset, n) =
              SubSeq(Contents(file), offset + 1, Min({offset + n, file.size}))

FreeClusters(v) == {c \in Clusters(v) : next_cluster(v, c).is = "free"}

\* What another checker asks of a volume: every cluster in use belongs to
\* one file or to the root, every copy of the table says so, chains end, and
\* the hint about free clusters is true.
NothingIsLost(v) ==
  LET chains == [k \in DOMAIN DiskFiles |-> Follow(v, find(v, DiskFiles[k].path[1]).first_cluster)]
      free   == FreeClusters(v)
      info   == v.image[CELLS]
  IN /\ \A c \in Clusters(v), t \in 1 .. FAT_COUNT : NextIn(v, t, c) = next_cluster(v, c)
     /\ \A k \in DOMAIN chains :
          /\ Len(chains[k]) = Needed(v.boot, DiskFiles[k])
          /\ chains[k] # <<>> => next_cluster(v, Last(chains[k])).is = "end"
     /\ Clusters(v) \ free =
          {v.boot.root_cluster} \cup UNION {ToSet(chains[k]) : k \in DOMAIN chains}
     /\ \A j, k \in DOMAIN chains : j # k => ToSet(chains[j]) \cap ToSet(chains[k]) = {}
     /\ info.free = Cardinality(free)
     /\ free # {} => info.next_free = Min(free)
     /\ v.image[(BACKUP_BOOT_SECTOR + 1) * CELLS] = info
     /\ v.image[BACKUP_BOOT_SECTOR * CELLS] = v.image[0]

\* A disk `prepare_disk` did not refuse to lay out is one this kernel mounts,
\* with the geometry the tool printed, knows as its own (`is_ours`), and reads
\* every file of; its tables are the smallest that have an entry for every
\* cluster (the comment on `sectors_per_fat_for`), and nothing on it is lost
\* or shared.
DiskReadsBack ==
  disk.err = "none" /\ attempt = 1 /\ pc \in {"esp", "launch", "done"} =>
    LET v == mount(disk.image) IN
    /\ v.err = "none" /\ v.boot = disk.geometry
    /\ is_ours(v)
    /\ \A size \in 1 .. v.boot.sectors_per_fat :
         Fits(Setup.sectors, Setup.sectors_per_cluster, size) <=> size = v.boot.sectors_per_fat
    /\ FilesReadBack(v)
    /\ NothingIsLost(v)

LastLba == Cardinality(DOMAIN stick.image) \div CELLS - 1

\* A stick `usb_image` laid out says the same from either end: one EFI System
\* Partition, where the path firmware looks for leads to the boot loader, and
\* which is not a volume the kernel would write to; and one partition that is
\* the disk, byte for byte. They are aligned, within what the header calls
\* usable and apart from each other, and the protective MBR covers it all.
StickBoots ==
  stick.err = "none" =>
    LET parts == partitions_from(stick.image, 1)
        h     == stick.image[CELLS]
        boot  == mount(Part(stick.image, parts[1]))
        efi   == lookup(boot, BootLoader)
    IN /\ Len(parts) = 2
       /\ h.other_lba = LastLba /\ partitions_from(stick.image, LastLba) = parts
       /\ \A k \in 1 .. 2 : /\ parts[k].first % FIRST_USABLE = 0
                            /\ parts[k].first >= h.first_usable /\ parts[k].last <= h.last_usable
       /\ parts[1].last < parts[2].first
       /\ parts[1].type = "ESP_TYPE" /\ boot.err = "none" /\ ~is_ours(boot)
       /\ efi.is = "Entry"
       /\ read_at(boot, efi, 0, efi.size) = Contents([path |-> BootLoader, size |-> Setup.bootloader])
       /\ Part(stick.image, parts[2]) = disk.image
       /\ stick.image[0].covered = LastLba

\* A machine of which a soak may say nothing bad: it came up once, it said
\* nothing alarming, and it ticked and went round often enough, to the end.
Late(times) == \E c \in times : c + MAX_PROGRESS_SILENCE >= DURATION /\ c <= DURATION - 2
Healthy(g) ==
  /\ "soak" \in g.said /\ g.resets = 0 /\ "trouble" \notin g.said
  /\ g.ticks >= MIN_TICKS /\ g.rounds >= MIN_ROUNDS

\* A green result is true of the machine that was just booted, not only of
\* the files: the shell and the program on the disk answered, on both
\* ports, and no check failed; or, after a soak, the machine never reset
\* once it was soaking, however late the judge counted, and went on to the
\* end. Of a boot test the shell and the program may have answered on either
\* side of a reset: the judge reads the whole log, and looks for no reset.
GreenIsTrue ==
  verdict = "passes" =>
    CASE command.kind = "soak_test" ->
           /\ Healthy(guest)
           /\ \E c \in guest.tick_times : c + MAX_PROGRESS_SILENCE + 1 >= DURATION
           /\ \E c \in guest.round_times : c + MAX_PROGRESS_SILENCE + 1 >= DURATION
      [] Default -> /\ {"ring3_shell", "all_ok"} \subseteq guest.said
                    /\ "failed" \notin guest.said
                    /\ "ring3_shell" \in guest.sent
      [] OTHER -> command.marker \in guest.said

\* And a red one has a reason in the machine, or in its being stopped (or
\* starting over) while the shell's line was between the two ports.
RedIsTrue ==
  /\ verdict = "fails" =>
       CASE command.kind = "soak_test" ->
              \/ guest.state = "exited" \/ ~Healthy(guest) \/ qemu_log > RESETS_AT_START
              \/ ~Late(guest.tick_times) \/ ~Late(guest.round_times)
         [] Default ->
              \/ guest.state = "exited" \/ clock > TIMEOUT
              \/ "failed" \in guest.said \/ "ring3_shell" \notin guest.said
              \/ ~guest.com1 \/ "ring3_shell" \in guest.lost \cup {guest.pending}
         [] OTHER -> guest.state = "exited" \/ clock > TIMEOUT
  /\ pc = "failed" /\ verdict = "none" => ~({disk.err, esp.err, stick.err} \subseteq {"none", "absent"})

\* `boot-test` and `soak-test` answer for the boots they have just seen, and
\* never for a log somebody else left: see GreenIsTrue and RedIsTrue.
VerdictIsTrue == GreenIsTrue /\ RedIsTrue
==============================================================================
