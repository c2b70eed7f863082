------------------------------ MODULE EventLog ------------------------------
(***************************************************************************)
(* The system event log: the ring of lines in memory                       *)
(* (kernel/src/events.rs), the count of boots in BOOTS.TXT and the file    *)
(* EVENTS.LOG the ring is flushed to (`count_this_boot` and `write_events` *)
(* in kernel/src/lib.rs), over machines that stop and start again.         *)
(*                                                                         *)
(* A line is who recorded it (`start`, the start of the machine, and       *)
(* `nth`, its number in that start, which no line of the real file shows), *)
(* the boot number printed on it and its length.  A text is a sequence of  *)
(* bytes, each the n-th byte of some line; the last one is the newline.    *)
(* Writing a file replaces it whole or leaves it as it was, which is what  *)
(* Fat32 shows of the writer; an error may be reported for either.         *)
(* Programs that write EVENTS.LOG or BOOTS.TXT themselves (ADR 0031, point *)
(* 14) are left out, and with them a BOOTS.TXT that says 4294967295, at    *)
(* which the count overflows.                                              *)
(***************************************************************************)
EXTENDS Integers, Sequences, FiniteSets, SequencesExt

CONSTANTS
    EVENTS,        \* lines the ring holds (128)
    LINE,          \* length of the longest line (72)
    MAX_FILE,      \* bytes the file may hold (32768)
    BOOT_COLUMN,   \* the largest boot number that fits its column (99999)
    MaxStarts,     \* bound: times the machine starts
    MaxWritten     \* bound: lines recorded in one start

\* The largest flush fits the file, as 128 * 72 does in 32768.
ASSUME EventsAssumption ==
    /\ {EVENTS, LINE, MAX_FILE, BOOT_COLUMN, MaxStarts, MaxWritten} \subseteq Nat \ {0}
    /\ EVENTS * LINE <= MAX_FILE

VARIABLES
    lines, written, flushed, boot,   \* the ring
    boots,      \* what BOOTS.TXT says; 0 when there is none
    log,        \* the bytes of EVENTS.LOG
    pc,         \* where the boot is
    before,     \* `count_this_boot`: what BOOTS.TXT said
    mine, old,  \* `write_events`: its two buffers
    failed,     \* a flush of this start reported an error
    misread,    \* a file that is there could not be read, ever
    starts      \* how often the machine has started

ring == <<lines, written, flushed, boot>>
vars == <<lines, written, flushed, boot, boots, log, pc, before, mine, old, failed, misread, starts>>

NoLine == [start |-> 0, nth |-> 0, boot |-> 0, len |-> 0]

-----------------------------------------------------------------------------
(* The ring.                                                               *)

Least(m, n) == IF m < n THEN m ELSE n
Most(m, n) == IF m < n THEN n ELSE m

Ring == [lines |-> lines, written |-> written, boot |-> boot]

write_line(r, len) ==
    [r EXCEPT !.lines[r.written % EVENTS] =
                  [start |-> starts, nth |-> r.written, boot |-> r.boot, len |-> len],
              !.written = @ + 1]

\* Mutant: lines from before the number keep their zero.
this_boot_later_lines(r, number) == [r EXCEPT !.boot = number]

\* Lines from before the number was known get it filled in, if it fits.
this_boot(r, number) ==
    LET have == Least(r.written, EVENTS)
        held == {(r.written - have + step) % EVENTS : step \in 0 .. have - 1}
    IN  [r EXCEPT !.boot = number,
                  !.lines = [at \in DOMAIN r.lines |->
                      IF at \in held /\ number <= BOOT_COLUMN
                      THEN [r.lines[at] EXCEPT !.boot = number] ELSE r.lines[at]]]

SetRing(r) == lines' = r.lines /\ written' = r.written /\ boot' = r.boot

Bytes(line) == [n \in 1 .. line.len |-> [line |-> line, nth |-> n]]

\* The oldest line not yet written down and how many there are.
unflushed(done) ==
    LET first == Most(done, Most(0, written - EVENTS))
    IN  [first |-> first, count |-> written - first]

\* Bytes of the unflushed lines that fit `room`, and how many lines that is.
TakeLine(room, taking, line) ==
    IF taking.full \/ Len(taking.text) + line.len > room
    THEN [taking EXCEPT !.full = TRUE]
    ELSE [taking EXCEPT !.text = @ \o Bytes(line), !.taken = @ + 1]

copy_into(room) ==
    LET owed == unflushed(flushed)
        step(taking, line) == TakeLine(room, taking, line)
        owing == [n \in 1 .. owed.count |-> lines[(owed.first + n - 1) % EVENTS]]
        copied == FoldLeft(step, [text |-> <<>>, taken |-> 0, full |-> FALSE], owing)
    IN  [text |-> copied.text, flushed |-> owed.first + copied.taken]

-----------------------------------------------------------------------------
(* Texts.                                                                  *)

IsNewline(byte) == byte.nth = byte.line.len

\* Mutant: a line is skipped even when the cut falls on a line's start.
newest_whole_lines_skip(text, room) ==
    LET cut == Len(text) - room
        breaks == {n \in cut + 1 .. Len(text) : IsNewline(text[n])}
        from == IF breaks = {} THEN Len(text)
                ELSE CHOOSE n \in breaks : \A m \in breaks : n <= m
    IN  IF cut <= 0 THEN text ELSE SubSeq(text, from + 1, Len(text))

\* The last `room` bytes of a text, from the first line that starts there.
newest_whole_lines(text, room) ==
    LET cut == Len(text) - room
        breaks == {n \in cut .. Len(text) : IsNewline(text[n])}
        from == IF breaks = {} THEN Len(text)
                ELSE CHOOSE n \in breaks : \A m \in breaks : n <= m
    IN  IF cut <= 0 THEN text ELSE SubSeq(text, from + 1, Len(text))

join(older, newer) ==
    LET new_kept == newest_whole_lines(newer, MAX_FILE)
    IN  newest_whole_lines(older, MAX_FILE - Len(new_kept)) \o new_kept

-----------------------------------------------------------------------------
(* A boot: events, then the boot is counted, then events and flushes.      *)

\* A line is never cut short by `put`: the longest one the kernel records, of
\* a fault, with the widest numbers, takes 70 of its 72 bytes.
Record ==
    /\ pc \in {"early", "running"}
    /\ written < MaxWritten
    /\ \E len \in 1 .. LINE : SetRing(write_line(Ring, len))
    /\ UNCHANGED <<flushed, boots, log, pc, before, mine, old, failed, misread, starts>>

\* Not there, or not to be read: counting begins again at one.
CountRead ==
    /\ pc = "early"
    /\ \/ before' = boots /\ pc' = "counting" /\ UNCHANGED misread
       \/ before' = 0 /\ pc' = "counting" /\ misread' = TRUE
       \/ pc' = "running" /\ UNCHANGED <<before, misread>>
    /\ UNCHANGED <<ring, boots, log, mine, old, failed, starts>>

\* The writer records `Wrote`, then the number is made known, then `Boot`.
CountWrite ==
    /\ pc = "counting"
    /\ LET this == before + 1 IN
       \/ /\ boots' = this
          /\ SetRing(write_line(this_boot(write_line(Ring, 1), this), 1))
       \/ boots' \in {boots, this} /\ UNCHANGED <<lines, written, boot>>
    /\ pc' = "running"
    /\ UNCHANGED <<flushed, log, before, mine, old, failed, misread, starts>>

\* Mutant: what was copied out is not marked.
EventsCopy_unmarked ==
    /\ pc = "running" /\ written < MaxWritten
    /\ mine' = copy_into(EVENTS * LINE).text
    /\ pc' = "reading"
    /\ UNCHANGED <<ring, boots, log, before, old, failed, misread, starts>>

\* `write_events`: copy out, which marks the lines as gone, ...
EventsCopy ==
    /\ pc = "running" /\ written < MaxWritten
    /\ LET copied == copy_into(EVENTS * LINE)
       IN  mine' = copied.text /\ flushed' = copied.flushed
    /\ pc' = "reading"
    /\ UNCHANGED <<lines, written, boot, boots, log, before, old, failed, misread, starts>>

\* ... read what is there, ...
EventsRead ==
    /\ pc = "reading"
    /\ \/ old' = log /\ pc' = "writing" /\ UNCHANGED <<mine, failed, misread>>
       \/ old' = <<>> /\ pc' = "writing" /\ misread' = TRUE /\ UNCHANGED <<mine, failed>>
       \/ mine' = <<>> /\ pc' = "running" /\ failed' = TRUE /\ UNCHANGED <<old, misread>>
    /\ UNCHANGED <<ring, boots, log, before, starts>>

\* ... join, write.  The write is itself recorded, for the next flush.
EventsWrite ==
    /\ pc = "writing"
    /\ LET joined == join(old, mine) IN
       \/ log' = joined /\ SetRing(write_line(Ring, 1)) /\ UNCHANGED failed
       \/ log' \in {log, joined} /\ failed' = TRUE /\ UNCHANGED <<lines, written, boot>>
    /\ pc' = "running"
    /\ mine' = <<>> /\ old' = <<>>
    /\ UNCHANGED <<flushed, boots, before, misread, starts>>

\* The machine stops at any point and is started again.
Restart ==
    /\ starts < MaxStarts
    /\ starts' = starts + 1
    /\ lines' = [at \in 0 .. EVENTS - 1 |-> NoLine]
    /\ written' = 0 /\ flushed' = 0 /\ boot' = 0
    /\ pc' = "early"
    /\ before' = 0 /\ mine' = <<>> /\ old' = <<>> /\ failed' = FALSE
    /\ UNCHANGED <<boots, log, misread>>

Init ==
    /\ lines = [at \in 0 .. EVENTS - 1 |-> NoLine]
    /\ written = 0 /\ flushed = 0 /\ boot = 0
    /\ boots = 0 /\ log = <<>>
    /\ pc = "early"
    /\ before = 0 /\ mine = <<>> /\ old = <<>> /\ failed = FALSE /\ misread = FALSE
    /\ starts = 1

Next ==
    \/ Record \/ CountRead \/ CountWrite
    \/ EventsCopy \/ EventsRead \/ EventsWrite \/ Restart

Spec == Init /\ [][Next]_vars

-----------------------------------------------------------------------------
Lines == [start : 1 .. MaxStarts, nth : Nat, boot : Nat, len : 1 .. LINE]
LinesOf(text) == {byte.line : byte \in ToSet(text)}
Before(l, m) == l.start < m.start \/ (l.start = m.start /\ l.nth < m.nth)

\* Types; the file never outgrows what the writer accepts.
TypeOK ==
    /\ lines \in [0 .. EVENTS - 1 -> Lines \cup {NoLine}]
    /\ {written, flushed, boot, boots, before} \subseteq Nat /\ flushed <= written
    /\ LinesOf(log) \cup LinesOf(mine) \cup LinesOf(old) \subseteq Lines
    /\ Len(log) <= MAX_FILE /\ Len(mine) <= EVENTS * LINE
    /\ pc \in {"early", "counting", "running", "reading", "writing"}
    /\ {failed, misread} \subseteq BOOLEAN /\ starts \in 1 .. MaxStarts

\* A text that is whole lines, from the first byte to the last.
LogIsWholeLines ==
    \A n \in DOMAIN log :
        /\ IF n = 1 \/ IsNewline(log[n - 1]) THEN log[n].nth = 1
           ELSE log[n] = [log[n - 1] EXCEPT !.nth = @ + 1]
        /\ n = Len(log) => IsNewline(log[n])

\* A line the ring still holds and no longer owes is in the file, or has
\* made room for newer ones there, unless a flush of this start failed: what
\* `copy_into` marks as gone is gone to the disk.
WhatIsGoneIsInTheFile ==
    (pc \in {"early", "running"} /\ ~failed) =>
        \A k \in Most(0, written - EVENTS) .. flushed - 1 :
            LET line == lines[k % EVENTS]
            IN  \/ line \in LinesOf(log)
                \/ log # <<>> /\ \A l \in LinesOf(log) : Before(line, l)

\* The file is whole lines wherever the limit fell (`join`: "a log cut
\* mid-line is a log that lies"), and tells what happened in the order it
\* happened and nothing twice, over several flushes of one start, writes
\* that failed, and restarts; and what the ring owes it no longer is there.
LogTellsEverythingOnce ==
    /\ TypeOK /\ LogIsWholeLines /\ WhatIsGoneIsInTheFile
    /\ \A m, n \in DOMAIN log :
        (m < n /\ log[m].nth = 1 /\ log[n].nth = 1) => Before(log[m].line, log[n].line)

\* Lines leave the file only from its front and only when the next newest
\* of them would not have fitted: the file is the machine's history, as long
\* as it could be read.
OnlyRoomIsALimitStep ==
    LET left == LinesOf(log) \ LinesOf(log') IN
    (log' # log /\ ~misread) =>
        \A l \in left : \/ Len(log') + l.len > MAX_FILE
                         \/ \E m \in left : Before(l, m)

\* The boot number says when: two starts of the machine never share one, and
\* all lines of one start carry the same, those recorded before the number
\* was read from the disk included, unless it is wider than its column.
\* A count that is there and cannot be read begins again at one.
BootsAreToldApart ==
    ~misread => \A l, m \in LinesOf(log) :
        IF l.start = m.start
        THEN l.boot = m.boot \/ {l.boot, m.boot} \ 0 .. BOOT_COLUMN # {}
        ELSE l.boot = m.boot => l.boot = 0
=============================================================================
