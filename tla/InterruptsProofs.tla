-------------------------- MODULE InterruptsProofs --------------------------
(***************************************************************************)
(* Proofs about module Interrupts, for any number of processes and locks,  *)
(* lines of any length and any number of ticks, keys, NMIs and operations: *)
(* what is done with interrupts off is done undisturbed, and every         *)
(* interrupt is answered once.                                             *)
(***************************************************************************)
EXTENDS Interrupts, SequenceTheorems, TLAPS

Causes == {"timer", "keyboard", "nmi", "spurious", "fault", "breakpoint", "entry"}
Steps == {"answer", "log", "tick", "record", "end", "return"}

\* What a flow may be in the middle of.
Handlers == [what : {"handler"}, cause : Causes, step : Steps, flag : BOOLEAN]
LogLines == [what : {"line"}, left : Int, were : BOOLEAN]
Guards == [what : {"guard"}, lock : Locks, were : BOOLEAN]
Frames == Handlers \cup LogLines \cup Guards \cup [what : {"syscall"}]

IsNmi(frame) == frame.what = "handler" /\ frame.cause = "nmi"

\* Entered with interrupts off.
FoundOff(frame) ==
  \/ frame.what \in {"line", "guard"} /\ ~frame.were
  \/ frame.what = "handler" /\ ~frame.flag

\* What is entered while something else is under way: a line, a critical
\* section or an NMI, each of which found interrupts off.
Inner(frame) == FoundOff(frame) /\ (frame.what = "handler" => frame.cause = "nmi")

\* The shape of a stack.  Only an NMI comes between a line and its end, only
\* the NMI's own line between an NMI and its end, and there is one NMI at most.
Nested(s) ==
  /\ \A i \in DOMAIN s : i > 1 => Inner(s[i])
  /\ \A i \in DOMAIN s : i < Len(s) /\ s[i].what = "line" => IsNmi(s[i + 1])
  /\ \A i \in DOMAIN s : i < Len(s) /\ IsNmi(s[i]) => s[i + 1].what = "line"
  /\ \A i, j \in DOMAIN s : IsNmi(s[i]) /\ IsNmi(s[j]) => i = j

HeldIn(s) == {s[i].lock : i \in {i \in DOMAIN s : s[i].what = "guard"}}

\* The line `line`, partly out, is flow f's, which is still in it, and not an
\* NMI's.
Inside(f, s, line) ==
  \E p \in DOMAIN s : /\ line = <<f, p>> /\ s[p].what = "line"
                      /\ p > 1 => ~IsNmi(s[p - 1])

\* The stack s of the flow f that has the CPU: a lock that is taken is held
\* there, and so is the line that is partly out.
Sound(f, s, taken, line) ==
  /\ s \in Seq(Frames) /\ Nested(s)
  /\ \A l \in Locks : taken[l] => l \in HeldIn(s)
  /\ line # <<>> => Inside(f, s, line)

\* What a flow that does not have the CPU was doing when it lost it.
Parked(s) ==
  s # <<>> => /\ Len(s) = 1
              /\ \/ s[1].what = "syscall"
                 \/ s[1].what = "handler" /\ s[1].step = "return"

Stages == {"mask_all", "init", "init_timer", "init_keyboard", "enable", "boot", "moving",
           "reinstall", "moved", "adopt", "run_first", "processes", "into_the_shell",
           "take", "shell"}

Chips == [remapped : BOOLEAN, mask : SUBSET Lines, irr : SUBSET Lines, isr : SUBSET Lines]
USE DEF Chips

Types ==
  /\ flag \in BOOLEAN /\ flow \in Flows /\ live \subseteq Processes
  /\ stack \in [Flows -> Seq(Frames)]
  /\ pic \in Chips
  /\ locked \in [Locks -> BOOLEAN]
  /\ stage \in Stages

\* Interrupts are on only where nothing is under way.
Stacks ==
  /\ Sound(flow, stack[flow], locked, open)
  /\ flag => stack[flow] = <<>>
  /\ \A f \in Flows \ {flow} : Parked(stack[f])

\* The stages the kernel's code goes through with interrupts off.
Quiet == {"init_timer", "init_keyboard", "enable", "moving", "reinstall", "moved"}

\* What the kernel's own code has reached, and what that means.
Reached ==
  /\ flow = "kernel" <=> stage # "processes"
  /\ flow # "kernel" => flow \in live
  /\ stage \in {"into_the_shell", "take", "shell"} => live = {}
  /\ console = "shell" => stage = "shell"
  /\ idt = "firmware" <=> stage \in {"mask_all", "init"}
  /\ stage \in {"mask_all", "init", "init_timer"} \/ pic.remapped
  /\ idt = home \/ stage \in {"mask_all", "init", "reinstall"}
  /\ stage \in {"mask_all", "init"} => home = "low"
  /\ stage = "reinstall" => home = "high"

\* What the kernel's own code is interrupted by: no call, no fault, and, where
\* it has turned interrupts off, nothing that found them on.
KernelFrame(frame) ==
  /\ frame.what # "syscall" /\ (frame.what = "handler" => frame.cause # "fault")
  /\ stage \in Quiet => FoundOff(frame)

Bottom ==
  /\ stage \in Quiet => ~flag
  /\ stack["kernel"] # <<>> => KernelFrame(stack["kernel"][1])

\* The inductive invariant.
IInv ==
  /\ Types /\ Stacks /\ Reached /\ Bottom /\ pic.isr = Due(flow)
  /\ spoiled = FALSE /\ panicked = FALSE /\ astray = FALSE

-----------------------------------------------------------------------------
(* Stacks.                                                                 *)

\* Pushing, popping and replacing the top leave the rest of a stack alone.
LEMMA Pushed ==
  ASSUME NEW S, NEW s \in Seq(S), NEW x \in S
  PROVE  /\ Append(s, x) \in Seq(S) /\ Len(Append(s, x)) = Len(s) + 1
         /\ Append(s, x) # <<>> /\ Last(Append(s, x)) = x
         /\ DOMAIN Append(s, x) = DOMAIN s \cup {Len(s) + 1}
         /\ \A i \in DOMAIN s : Append(s, x)[i] = s[i]
         /\ Append(s, x)[Len(s) + 1] = x
BY DEF Last

LEMMA Popped ==
  ASSUME NEW S, NEW s \in Seq(S), s # <<>>
  PROVE  /\ Len(s) \in Nat \ {0} /\ Last(s) \in S /\ Last(s) = s[Len(s)]
         /\ Front(s) \in Seq(S) /\ Len(Front(s)) = Len(s) - 1
         /\ DOMAIN Front(s) = 1 .. Len(s) - 1 /\ DOMAIN s = 1 .. Len(s)
         /\ \A i \in 1 .. Len(s) - 1 : Front(s)[i] = s[i]
<1>1. Len(s) \in Nat \ {0} /\ DOMAIN s = 1 .. Len(s) /\ s \in [1 .. Len(s) -> S]
  BY EmptySeq, LenProperties, Zenon
<1>2. Last(s) \in S /\ Last(s) = s[Len(s)]
  BY <1>1 DEF Last
<1>a. Len(s) \in Nat /\ Len(s) # 0
  BY <1>1, Zenon
<1>b. Len(s) - 1 \in Nat
  BY <1>a
<1>3. PICK n \in Nat : n = Len(s) - 1
  BY <1>b, Zenon
<1>4. \A i \in 1 .. n : s[i] \in S
  BY <1>1, <1>3
<1>5. /\ SubSeq(s, 1, n) \in Seq(S) /\ Len(SubSeq(s, 1, n)) = n
      /\ \A i \in 1 .. n : SubSeq(s, 1, n)[i] = s[i]
  BY <1>4, SubSeqProperties
<1>6. DOMAIN SubSeq(s, 1, n) = 1 .. n
  BY <1>5, LenProperties, Zenon
<1> QED
  BY <1>1, <1>2, <1>3, <1>5, <1>6, Zenon DEF Front

LEMMA Replaced ==
  ASSUME NEW S, NEW s \in Seq(S), s # <<>>, NEW x \in S
  PROVE  LET t == Front(s) \o <<x>>
         IN  /\ t \in Seq(S) /\ Len(t) = Len(s) /\ DOMAIN t = 1 .. Len(s) /\ t # <<>>
             /\ \A i \in 1 .. Len(s) - 1 : t[i] = s[i]
             /\ t[Len(s)] = x /\ Last(t) = x
<1>1. /\ Front(s) \in Seq(S) /\ Len(Front(s)) = Len(s) - 1 /\ Len(s) \in Nat \ {0}
      /\ \A i \in 1 .. Len(s) - 1 : Front(s)[i] = s[i]
  BY Popped, Zenon
<1>2. PICK r \in Seq(S) : r = Front(s)
  BY <1>1, Zenon
<1>3. /\ r \o <<x>> \in Seq(S) /\ Len(r \o <<x>>) = Len(r) + 1
      /\ \A i \in 1 .. Len(r) : (r \o <<x>>)[i] = r[i]
      /\ (r \o <<x>>)[Len(r) + 1] = x
  OBVIOUS
<1> QED
  BY <1>1, <1>2, <1>3 DEF Last

\* What a frame's fields are, by its kind.
LEMMA FrameFields ==
  ASSUME NEW x \in Frames
  PROVE  /\ x.what \in {"handler", "line", "guard", "syscall"}
         /\ x.what = "handler" => x \in Handlers
         /\ x.what = "line" => x \in LogLines
         /\ x.what = "guard" => x \in Guards
BY Zenon DEF Frames, Handlers, LogLines, Guards

\* What is entered.
LEMMA NewFrames ==
  ASSUME flag \in BOOLEAN
  PROVE  /\ \A cause \in Causes, step \in Steps :
              LET h == Handler(cause, step)
              IN  /\ h \in Handlers /\ h \in Frames
                  /\ h.what = "handler" /\ h.cause = cause /\ h.step = step /\ h.flag = flag
         /\ LINE \in Nat => LogLine \in Frames /\ LogLine.what = "line" /\ LogLine.were = flag
         /\ \A l \in Locks : LET g == [what |-> "guard", lock |-> l, were |-> flag]
                              IN  g \in Frames /\ g.what = "guard" /\ g.lock = l /\ g.were = flag
         /\ [what |-> "syscall"] \in Frames /\ [what |-> "syscall"].what = "syscall"
<1>1. ASSUME NEW cause \in Causes, NEW step \in Steps
      PROVE  LET h == Handler(cause, step)
             IN  /\ h \in Handlers /\ h \in Frames
                 /\ h.what = "handler" /\ h.cause = cause /\ h.step = step /\ h.flag = flag
  BY Zenon DEF Handler, Handlers, Frames
<1>2. LINE \in Nat => LogLine \in Frames /\ LogLine.what = "line" /\ LogLine.were = flag
  BY DEF LogLine, LogLines, Frames
<1>3. ASSUME NEW l \in Locks
      PROVE  LET g == [what |-> "guard", lock |-> l, were |-> flag]
             IN  g \in Frames /\ g.what = "guard" /\ g.lock = l /\ g.were = flag
  BY Zenon DEF Guards, Frames
<1>4. [what |-> "syscall"] \in Frames /\ [what |-> "syscall"].what = "syscall"
  BY Zenon DEF Frames
<1> QED
  BY <1>1, <1>2, <1>3, <1>4, Zenon

\* A handler's next step, and a line's next piece.
LEMMA FrameSteps ==
  ASSUME NEW x \in Frames
  PROVE  /\ x.what = "handler" => \A step \in Steps :
              LET y == [x EXCEPT !.step = step]
              IN  /\ y \in Frames /\ y.what = x.what /\ y.cause = x.cause
                  /\ y.flag = x.flag /\ y.step = step
         /\ x.what = "line" =>
              LET y == [x EXCEPT !.left = @ - 1]
              IN  y \in Frames /\ y.what = x.what /\ y.were = x.were
<1>1. ASSUME x.what = "handler", NEW step \in Steps
      PROVE  LET y == [x EXCEPT !.step = step]
             IN  /\ y \in Frames /\ y.what = x.what /\ y.cause = x.cause
                 /\ y.flag = x.flag /\ y.step = step
  <2>1. x \in Handlers
    BY <1>1, FrameFields, Zenon
  <2>2. [x EXCEPT !.step = step] \in Handlers
    BY <2>1, Zenon DEF Handlers
  <2> QED
    BY <2>1, <2>2, Zenon DEF Handlers, Frames
<1>2. ASSUME x.what = "line"
      PROVE  LET y == [x EXCEPT !.left = @ - 1]
             IN  y \in Frames /\ y.what = x.what /\ y.were = x.were
  <2>1. x \in LogLines
    BY <1>2, FrameFields, Zenon
  <2>2. [x EXCEPT !.left = @ - 1] \in LogLines
    BY <2>1 DEF LogLines
  <2> QED
    BY <2>1, <2>2, Zenon DEF LogLines, Frames
<1> QED
  BY <1>1, <1>2, Zenon

\* Entering something more.
LEMMA PushKeeps ==
  ASSUME NEW f, NEW s, NEW taken, NEW after, NEW line, NEW x \in Frames,
         Sound(f, s, taken, line),
         s # <<>> => /\ Inner(x)
                     /\ Last(s).what = "line" => IsNmi(x)
                     /\ IsNmi(Last(s)) => x.what = "line",
         IsNmi(x) => \A i \in DOMAIN s : ~IsNmi(s[i]),
         \A l \in Locks : after[l] => taken[l] \/ (x.what = "guard" /\ x.lock = l)
  PROVE  Sound(f, Append(s, x), after, line)
<1> DEFINE t == Append(s, x)
<1>0. s \in Seq(Frames) /\ Nested(s)
  BY Zenon DEF Sound
<1>1. /\ t \in Seq(Frames) /\ Len(t) = Len(s) + 1 /\ DOMAIN t = DOMAIN s \cup {Len(s) + 1}
      /\ \A i \in DOMAIN s : t[i] = s[i]
      /\ t[Len(s) + 1] = x
  BY <1>0, Pushed
<1>2. Len(s) \in Nat /\ DOMAIN s = 1 .. Len(s) /\ (s = <<>> <=> Len(s) = 0)
  BY <1>0, EmptySeq, LenProperties, Zenon
<1> HIDE DEF t
<1>3. s # <<>> => Last(s) = s[Len(s)]
  BY Zenon DEF Last
<1>4. Nested(t)
  <2>1. \A i \in DOMAIN t : i > 1 => Inner(t[i])
    BY <1>0, <1>1, <1>2 DEF Nested
  <2>2. \A i \in DOMAIN t : i < Len(t) /\ t[i].what = "line" => IsNmi(t[i + 1])
    BY <1>0, <1>1, <1>2, <1>3 DEF Nested
  <2>3. \A i \in DOMAIN t : i < Len(t) /\ IsNmi(t[i]) => t[i + 1].what = "line"
    BY <1>0, <1>1, <1>2, <1>3 DEF Nested
  <2>4. \A i, j \in DOMAIN t : IsNmi(t[i]) /\ IsNmi(t[j]) => i = j
    BY <1>0, <1>1, <1>2, Zenon DEF Nested
  <2> QED
    BY <2>1, <2>2, <2>3, <2>4, Zenon DEF Nested
<1>5. HeldIn(s) \subseteq HeldIn(t) /\ (x.what = "guard" => x.lock \in HeldIn(t))
  BY <1>1, <1>2, Zenon DEF HeldIn
<1>6. \A l \in Locks : after[l] => l \in HeldIn(t)
  BY <1>5, Zenon DEF Sound
<1>7. line # <<>> => Inside(f, t, line)
  <2>1. ASSUME line # <<>> PROVE Inside(f, t, line)
    <3>1. PICK p \in DOMAIN s : /\ line = <<f, p>> /\ s[p].what = "line"
                                /\ p > 1 => ~IsNmi(s[p - 1])
      BY <2>1, Zenon DEF Sound, Inside
    <3>2. p \in DOMAIN t /\ t[p] = s[p] /\ (p > 1 => t[p - 1] = s[p - 1])
      BY <1>1, <1>2, <3>1
    <3> QED
      BY <3>1, <3>2, Zenon DEF Inside
  <2> QED
    BY <2>1, Zenon
<1> QED
  BY <1>1, <1>4, <1>6, <1>7, Zenon DEF Sound, t

\* Leaving what was entered last.
LEMMA PopKeeps ==
  ASSUME NEW f, NEW s, NEW taken, NEW after, NEW line, NEW now,
         Sound(f, s, taken, line), s # <<>>,
         \A l \in Locks : after[l] => taken[l] /\ (Last(s).what = "guard" => l # Last(s).lock),
         now # <<>> => /\ now = line
                       /\ \/ Last(s).what # "line"
                          \/ Len(s) > 1 /\ IsNmi(s[Len(s) - 1])
  PROVE  Sound(f, Front(s), after, now)
<1> DEFINE t == Front(s)
<1>0. s \in Seq(Frames) /\ Nested(s)
  BY Zenon DEF Sound
<1>1. /\ Len(s) \in Nat \ {0} /\ Last(s) = s[Len(s)] /\ t \in Seq(Frames) /\ Len(t) = Len(s) - 1
      /\ DOMAIN t = 1 .. Len(s) - 1 /\ DOMAIN s = 1 .. Len(s)
      /\ \A i \in 1 .. Len(s) - 1 : t[i] = s[i]
  BY <1>0, Popped, Zenon
<1> HIDE DEF t
<1>4. Nested(t)
  BY <1>0, <1>1 DEF Nested
<1>6. \A l \in Locks : after[l] => l \in HeldIn(t)
  <2>1. SUFFICES ASSUME NEW l \in Locks, after[l] PROVE l \in HeldIn(t)
    BY Zenon
  <2>2. l \in HeldIn(s)
    BY <2>1, Zenon DEF Sound
  <2>3. PICK i \in DOMAIN s : s[i].what = "guard" /\ l = s[i].lock
    BY <2>2, Zenon DEF HeldIn
  <2>4. i # Len(s)
    BY <1>1, <2>1, <2>3, Zenon
  <2>5. i \in DOMAIN t /\ t[i] = s[i]
    BY <1>1, <2>3, <2>4
  <2> QED
    BY <2>3, <2>5, Zenon DEF HeldIn
<1>7. now # <<>> => Inside(f, t, now)
  <2>1. ASSUME now # <<>> PROVE Inside(f, t, now)
    <3>1. PICK p \in DOMAIN s : /\ line = <<f, p>> /\ s[p].what = "line"
                                /\ p > 1 => ~IsNmi(s[p - 1])
      BY <2>1, Zenon DEF Sound, Inside
    <3>2. p # Len(s)
      BY <1>1, <2>1, <3>1, Zenon
    <3>3. p \in DOMAIN t /\ t[p] = s[p] /\ (p > 1 => t[p - 1] = s[p - 1])
      BY <1>1, <3>1, <3>2
    <3> QED
      BY <2>1, <3>1, <3>3, Zenon DEF Inside
  <2> QED
    BY <2>1, Zenon
<1> QED
  BY <1>1, <1>4, <1>6, <1>7, Zenon DEF Sound, t

\* Going on with what was entered last.
LEMMA StepKeeps ==
  ASSUME NEW f, NEW s, NEW taken, NEW line, NEW now, NEW x \in Frames,
         Sound(f, s, taken, line), s # <<>>, x.what = Last(s).what, x.what # "guard",
         IsNmi(x) <=> IsNmi(Last(s)), Inner(Last(s)) => Inner(x),
         \/ now = line
         \/ now = <<f, Len(s)>> /\ x.what = "line" /\ (Len(s) > 1 => ~IsNmi(s[Len(s) - 1]))
  PROVE  Sound(f, Front(s) \o <<x>>, taken, now)
<1> DEFINE t == Front(s) \o <<x>>
<1>0. s \in Seq(Frames) /\ Nested(s)
  BY Zenon DEF Sound
<1>1. /\ Len(s) \in Nat \ {0} /\ Last(s) = s[Len(s)] /\ DOMAIN s = 1 .. Len(s)
  BY <1>0, Popped, Zenon
<1>2. /\ t \in Seq(Frames) /\ Len(t) = Len(s) /\ DOMAIN t = 1 .. Len(s)
      /\ \A i \in 1 .. Len(s) - 1 : t[i] = s[i]
      /\ t[Len(s)] = x
  BY <1>0, Replaced
<1> HIDE DEF t
<1>3. \A i \in 1 .. Len(s) : /\ t[i].what = s[i].what /\ (IsNmi(t[i]) <=> IsNmi(s[i]))
                             /\ Inner(s[i]) => Inner(t[i])
  <2>a. Len(s) \in Nat
    BY <1>1, Zenon
  <2>1. \A i \in 1 .. Len(s) : i = Len(s) \/ i \in 1 .. Len(s) - 1
    BY <2>a
  <2> QED
    BY <1>1, <1>2, <2>1, Zenon
<1>4. Nested(t)
  <2>1. \A i \in 1 .. Len(s) : i < Len(s) => i + 1 \in 1 .. Len(s)
    BY <1>1
  <2> QED
    BY <1>0, <1>1, <1>2, <1>3, <2>1 DEF Nested
<1>6. \A l \in Locks : taken[l] => l \in HeldIn(t)
  <2>1. HeldIn(s) \subseteq HeldIn(t)
    <3>1. SUFFICES ASSUME NEW i \in DOMAIN s, s[i].what = "guard" PROVE s[i].lock \in HeldIn(t)
      BY Zenon DEF HeldIn
    <3>2. i \in DOMAIN t /\ t[i] = s[i]
      BY <1>1, <1>2, <3>1
    <3> QED
      BY <3>1, <3>2, Zenon DEF HeldIn
  <2> QED
    BY <2>1, Zenon DEF Sound
<1>7. now # <<>> => Inside(f, t, now)
  <2>1. ASSUME now # <<>>, now = line PROVE Inside(f, t, now)
    <3>1. PICK p \in DOMAIN s : /\ line = <<f, p>> /\ s[p].what = "line"
                                /\ p > 1 => ~IsNmi(s[p - 1])
      BY <2>1, Zenon DEF Sound, Inside
    <3>2. p > 1 => p - 1 \in 1 .. Len(s)
      BY <1>1, <3>1
    <3> QED
      BY <1>1, <1>2, <1>3, <2>1, <3>1, <3>2, Zenon DEF Inside
  <2>2. ASSUME now = <<f, Len(s)>>, x.what = "line", Len(s) > 1 => ~IsNmi(s[Len(s) - 1])
        PROVE  Inside(f, t, now)
    <3>1. Len(s) \in 1 .. Len(s) /\ (Len(s) > 1 => Len(s) - 1 \in 1 .. Len(s))
      BY <1>1
    <3> QED
      BY <1>2, <1>3, <2>2, <3>1, Zenon DEF Inside
  <2> QED
    BY <2>1, <2>2, Zenon
<1> QED
  BY <1>2, <1>4, <1>6, <1>7, Zenon DEF Sound, t

-----------------------------------------------------------------------------
(* States.                                                                 *)

\* The line a frame has still to acknowledge.
Owed(frame) == {line \in Lines : /\ frame.what = "handler" /\ frame.cause = Cause(line)
                                 /\ frame.step = "answer"}

DueIn(s) == {line \in Lines : \E i \in DOMAIN s :
                s[i].what = "handler" /\ s[i].cause = Cause(line) /\ s[i].step = "answer"}

\* Only the outermost frame may have a line to acknowledge.
LEMMA OwedByTheFirst ==
  ASSUME NEW s \in Seq(Frames), Nested(s)
  PROVE  DueIn(s) = IF s = <<>> THEN {} ELSE Owed(s[1])
<1>1. Len(s) \in Nat /\ DOMAIN s = 1 .. Len(s) /\ (s = <<>> <=> Len(s) = 0)
  BY EmptySeq, LenProperties, Zenon
<1>2. ASSUME NEW line \in Lines, NEW i \in DOMAIN s, s[i].what = "handler",
             s[i].cause = Cause(line)
      PROVE  i = 1
  BY <1>1, <1>2 DEF Nested, Inner, Cause
<1>3. CASE s = <<>>
  BY <1>1, <1>3 DEF DueIn
<1>4. CASE s # <<>>
  <2>1. 1 \in DOMAIN s
    BY <1>1, <1>4
  <2> QED
    BY <1>2, <1>4, <2>1, Zenon DEF DueIn, Owed
<1> QED
  BY <1>3, <1>4, Zenon

\* What goes on in the flow that has the CPU, and leaves the kernel's own code
\* where it is, concerns that flow's stack only.
LEMMA Carried ==
  ASSUME IInv, NEW t, t = stack'[flow], flow' = flow, stack' = [stack EXCEPT ![flow] = t],
         live' = live, Boot' = Boot, Unseen' = Unseen,
         flag' \in BOOLEAN, locked' \in [Locks -> BOOLEAN],
         pic' \in Chips,
         pic'.remapped = pic.remapped, pic'.isr = DueIn(t),
         Sound(flow, t, locked', open'), flag' => t = <<>>, stage \in Quiet => ~flag',
         flow = "kernel" /\ t # <<>> => KernelFrame(t[1])
  PROVE  IInv'
<1>0. /\ flow \in Flows /\ stack \in [Flows -> Seq(Frames)] /\ t \in Seq(Frames)
      /\ live \subseteq Processes /\ stage \in Stages
      /\ \A f \in Flows \ {flow} : Parked(stack[f])
  BY Zenon DEF IInv, Types, Stacks, Sound
<1>1. stack'[flow] = t /\ \A f \in Flows \ {flow} : stack'[f] = stack[f]
  BY <1>0, Zenon
<1>2. stack' \in [Flows -> Seq(Frames)]
  BY <1>0, Zenon
<1>3. /\ idt' = idt /\ home' = home /\ stage' = stage /\ console' = console
      /\ spoiled' = spoiled /\ panicked' = panicked /\ astray' = astray
  BY Zenon DEF Boot, Unseen
<1>4. Types'
  BY <1>0, <1>2, <1>3, Zenon DEF Types
<1>5. Stacks'
  BY <1>0, <1>1, Zenon DEF Stacks
<1>6. Reached'
  BY <1>3, Zenon DEF IInv, Reached
<1>7. Bottom'
  <2>1. "kernel" \in Flows
    BY Zenon DEF Flows
  <2>2. CASE flow = "kernel"
    BY <1>1, <1>3, <2>2, Zenon DEF Bottom, KernelFrame
  <2>3. CASE flow # "kernel"
    BY <1>1, <1>3, <2>1, <2>3, Zenon DEF Bottom, KernelFrame, IInv
  <2> QED
    BY <2>2, <2>3, Zenon
<1>8. pic'.isr = Due(flow)'
  <2>1. Due(flow)' = DueIn(stack'[flow'])
    BY Zenon DEF Due, DueIn
  <2> QED
    BY <1>1, <2>1, Zenon
<1> QED
  BY <1>3, <1>4, <1>5, <1>6, <1>7, <1>8, Zenon DEF IInv

\* The stack of the flow that has the CPU.
LEMMA Current ==
  ASSUME IInv
  PROVE  /\ flow \in Flows /\ stack \in [Flows -> Seq(Frames)] /\ stack[flow] \in Seq(Frames)
         /\ Nested(stack[flow]) /\ Sound(flow, stack[flow], locked, open)
         /\ flag => stack[flow] = <<>>
         /\ pic.isr = DueIn(stack[flow])
         /\ pic.isr = IF stack[flow] = <<>> THEN {} ELSE Owed(stack[flow][1])
<1>1. /\ flow \in Flows /\ stack \in [Flows -> Seq(Frames)] /\ stack[flow] \in Seq(Frames)
      /\ Nested(stack[flow]) /\ Sound(flow, stack[flow], locked, open)
      /\ flag => stack[flow] = <<>>
  BY Zenon DEF IInv, Types, Stacks, Sound
<1>2. pic.isr = DueIn(stack[flow])
  BY Zenon DEF IInv, Due, DueIn
<1> QED
  BY <1>1, <1>2, OwedByTheFirst, Zenon

\* Entering x, with interrupts off from here on, from a stack u.
LEMMA Entered ==
  ASSUME IInv, NEW x \in Frames, NEW u, Sound(flow, u, locked, open),
         flow' = flow, stack' = [stack EXCEPT ![flow] = Append(u, x)],
         live' = live, Boot' = Boot, Unseen' = Unseen, open' = open, flag' = FALSE,
         locked' \in [Locks -> BOOLEAN],
         \A l \in Locks : locked'[l] => locked[l] \/ (x.what = "guard" /\ x.lock = l),
         pic' \in Chips,
         pic'.remapped = pic.remapped,
         pic'.isr = IF u = <<>> THEN Owed(x) ELSE Owed(u[1]),
         u # <<>> => /\ Inner(x)
                     /\ Last(u).what = "line" => IsNmi(x)
                     /\ IsNmi(Last(u)) => x.what = "line",
         IsNmi(x) => \A i \in DOMAIN u : ~IsNmi(u[i]),
         flow = "kernel" => IF u = <<>> THEN KernelFrame(x) ELSE KernelFrame(u[1])
  PROVE  IInv'
<1> DEFINE t == Append(u, x)
<1>0. flow \in Flows /\ stack \in [Flows -> Seq(Frames)] /\ u \in Seq(Frames)
  BY Current, Zenon DEF Sound
<1>1. stack' = [stack EXCEPT ![flow] = t] /\ stack'[flow] = t
  BY <1>0, Zenon
<1>2. /\ t \in Seq(Frames) /\ Len(t) = Len(u) + 1 /\ DOMAIN t = DOMAIN u \cup {Len(u) + 1}
      /\ \A i \in DOMAIN u : t[i] = u[i]
      /\ t[Len(u) + 1] = x
  BY <1>0, Pushed
<1>3. Len(u) \in Nat /\ DOMAIN u = 1 .. Len(u) /\ (u = <<>> <=> Len(u) = 0)
  BY <1>0, EmptySeq, LenProperties, Zenon
<1>4. t # <<>> /\ t[1] = IF u = <<>> THEN x ELSE u[1]
  BY <1>2, <1>3, EmptySeq
<1>5. Sound(flow, t, locked', open)
  BY <1>0, PushKeeps, Zenon
<1>6. pic'.isr = DueIn(t)
  <2>1. Nested(t)
    BY <1>5, Zenon DEF Sound
  <2>2. DueIn(t) = Owed(t[1])
    BY <1>2, <1>4, <2>1, OwedByTheFirst, Zenon
  <2> HIDE DEF t
  <2> QED
    BY <1>0, <1>4, <2>2, Zenon
<1>7. flow = "kernel" => KernelFrame(t[1])
  BY <1>4, Zenon
<1> HIDE DEF t
<1> QED
  BY <1>1, <1>5, <1>6, <1>7, Carried, Zenon

\* With nothing under way, no lock is taken, no line is partly out and nothing
\* is in service.
LEMMA Nothing ==
  ASSUME IInv, stack[flow] = <<>>
  PROVE  /\ \A l \in Locks : ~locked[l]
         /\ open = <<>> /\ pic.isr = {}
<1>1. DOMAIN stack[flow] = {}
  BY EmptySeq
<1>2. Sound(flow, stack[flow], locked, open) /\ pic.isr = {}
  BY Current, Zenon
<1> QED
  BY <1>1, <1>2, Zenon DEF Sound, HeldIn, Inside

\* A call, or a handler that is not an NMI's, is all its flow is in.
LEMMA Alone ==
  ASSUME IInv, stack[flow] # <<>>, Last(stack[flow]).what \in {"handler", "syscall"},
         ~IsNmi(Last(stack[flow]))
  PROVE  /\ Len(stack[flow]) = 1 /\ Last(stack[flow]) = stack[flow][1]
         /\ \A l \in Locks : ~locked[l]
         /\ open = <<>>
<1> DEFINE s == stack[flow]
<1>1. s \in Seq(Frames) /\ Nested(s) /\ Sound(flow, s, locked, open)
  BY Current, Zenon
<1>2. Len(s) \in Nat \ {0} /\ Last(s) = s[Len(s)] /\ DOMAIN s = 1 .. Len(s)
  BY <1>1, Popped, Zenon
<1> HIDE DEF s
<1>3. Len(s) = 1
  <2>1. ~Inner(Last(s))
    BY Zenon DEF Inner, FoundOff, IsNmi, s
  <2> QED
    BY <1>1, <1>2, <2>1 DEF Nested
<1>4. DOMAIN s = {1} /\ s[1].what \notin {"guard", "line"}
  BY <1>2, <1>3 DEF s
<1>5. (\A l \in Locks : ~locked[l]) /\ open = <<>>
  BY <1>1, <1>4, Zenon DEF Sound, HeldIn, Inside
<1> QED
  BY <1>2, <1>3, <1>5, Zenon DEF s

\* A handler's next step.
LEMMA Stepped ==
  ASSUME IInv, stack[flow] # <<>>, Last(stack[flow]).what = "handler", NEW step \in Steps \ {"answer"}
  PROVE  LET y == [Last(stack[flow]) EXCEPT !.step = step]
             u == Front(stack[flow]) \o <<y>>
         IN  /\ NextStep(flow, step) = [stack EXCEPT ![flow] = u]
             /\ y.what = "handler" /\ y.cause = Last(stack[flow]).cause /\ y.step = step
             /\ y.flag = Last(stack[flow]).flag
             /\ u \in Seq(Frames) /\ u # <<>> /\ Last(u) = y /\ Len(u) = Len(stack[flow])
             /\ Sound(flow, u, locked, open)
             /\ Last(stack[flow]).step # "answer" => pic.isr = Owed(u[1])
             /\ Last(stack[flow]).cause # "nmi" => Owed(u[1]) = {} /\ Len(u) = 1
             /\ flow = "kernel" => KernelFrame(u[1])
<1> DEFINE s == stack[flow]
           y == [Last(s) EXCEPT !.step = step]
           u == Front(s) \o <<y>>
<1>1. /\ s \in Seq(Frames) /\ Nested(s) /\ Sound(flow, s, locked, open) /\ flow \in Flows
      /\ pic.isr = IF s = <<>> THEN {} ELSE Owed(s[1])
  BY Current, Zenon
<1>2. Len(s) \in Nat \ {0} /\ Last(s) = s[Len(s)] /\ DOMAIN s = 1 .. Len(s) /\ Last(s) \in Frames
  BY <1>1, Popped, Zenon
<1>3. /\ y \in Frames /\ y.what = "handler" /\ y.cause = Last(s).cause
      /\ y.flag = Last(s).flag /\ y.step = step
  BY <1>2, FrameSteps, ZenonT(30)
<1>4. NextStep(flow, step) = [stack EXCEPT ![flow] = u]
  BY Zenon DEF NextStep
<1> HIDE DEF y
<1>5. /\ u \in Seq(Frames) /\ Len(u) = Len(s) /\ DOMAIN u = 1 .. Len(s)
      /\ \A i \in 1 .. Len(s) - 1 : u[i] = s[i]
      /\ u[Len(s)] = y
  <2>1. s # <<>>
    BY Zenon
  <2> HIDE DEF s
  <2> QED
    BY <1>1, <1>3, <2>1, Replaced
<1>6. Sound(flow, u, locked, open)
  <2>1. (IsNmi(y) <=> IsNmi(Last(s))) /\ (Inner(Last(s)) => Inner(y))
    BY <1>3, Zenon DEF IsNmi, Inner, FoundOff
  <2> QED
    BY <1>1, <1>3, <2>1, StepKeeps, Zenon
<1> HIDE DEF u
<1>7. u # <<>> /\ Last(u) = y
  BY <1>2, <1>5, EmptySeq, Zenon DEF Last
<1> HIDE DEF s
<1>8. CASE Len(s) = 1
  <2>1. u[1] = y /\ s[1] = Last(s) /\ s # <<>>
    BY <1>2, <1>5, <1>8, Zenon DEF s
  <2>2. Owed(y) = {}
    BY <1>3, Zenon DEF Owed
  <2>3. Last(s).step # "answer" => Owed(Last(s)) = {}
    BY Zenon DEF Owed
  <2>4. flow = "kernel" => KernelFrame(y)
    <3>1. flow = "kernel" => KernelFrame(s[1])
      BY <2>1, Zenon DEF IInv, Bottom, s
    <3> QED
      BY <1>3, <2>1, <3>1, Zenon DEF KernelFrame, FoundOff, s
  <2>5. Last(s).step # "answer" => pic.isr = Owed(u[1])
    BY <1>1, <2>1, <2>2, <2>3, Zenon
  <2>6. Owed(u[1]) = {} /\ Len(u) = 1
    BY <1>5, <1>8, <2>1, <2>2, Zenon
  <2> QED
    BY <1>3, <1>4, <1>5, <1>6, <1>7, <2>1, <2>4, <2>5, <2>6, Zenon DEF s, u, y
<1>9. CASE Len(s) # 1
  <2>a. Len(s) \in Nat /\ Len(s) # 0
    BY <1>2, Zenon
  <2>b. \A n \in Nat : n # 0 /\ n # 1 => 1 \in 1 .. n - 1
    OBVIOUS
  <2>1. u[1] = s[1] /\ s # <<>>
    BY <1>5, <1>9, <2>a, <2>b, Zenon DEF s
  <2>2. flow = "kernel" => KernelFrame(s[1])
    BY <2>1, Zenon DEF IInv, Bottom, s
  <2>3. Last(s).cause = "nmi"
    BY <1>9, Alone, Zenon DEF s, IsNmi
  <2>4. pic.isr = Owed(u[1])
    BY <1>1, <2>1, Zenon
  <2> QED
    BY <1>3, <1>4, <1>5, <1>6, <1>7, <2>1, <2>2, <2>3, <2>4, Zenon DEF s, u, y
<1> QED
  BY <1>8, <1>9, Zenon

\* Leaving what was entered last: the flag comes back only if that found it on.
LEMMA Returned ==
  ASSUME IInv, stack[flow] # <<>>, flow' = flow, stack' = [stack EXCEPT ![flow] = Front(@)],
         live' = live, Boot' = Boot, Unseen' = Unseen, pic' = pic,
         flag' \in BOOLEAN, flag' => ~FoundOff(Last(stack[flow])),
         locked' \in [Locks -> BOOLEAN],
         \A l \in Locks : locked'[l] => /\ locked[l]
                                        /\ Last(stack[flow]).what = "guard" => l # Last(stack[flow]).lock,
         open' # <<>> => /\ open' = open
                         /\ \/ Last(stack[flow]).what # "line"
                            \/ Len(stack[flow]) > 1 /\ IsNmi(stack[flow][Len(stack[flow]) - 1]),
         Owed(Last(stack[flow])) = {}
  PROVE  IInv'
<1> DEFINE s == stack[flow]
           t == Front(s)
<1>0. /\ flow \in Flows /\ stack \in [Flows -> Seq(Frames)] /\ s \in Seq(Frames) /\ Nested(s)
      /\ Sound(flow, s, locked, open)
      /\ pic.isr = IF s = <<>> THEN {} ELSE Owed(s[1])
  BY Current, Zenon
<1>1. stack' = [stack EXCEPT ![flow] = t] /\ stack'[flow] = t
  BY <1>0, Zenon
<1>2. /\ Len(s) \in Nat \ {0} /\ Last(s) = s[Len(s)] /\ t \in Seq(Frames) /\ Len(t) = Len(s) - 1
      /\ DOMAIN t = 1 .. Len(s) - 1 /\ DOMAIN s = 1 .. Len(s)
      /\ \A i \in 1 .. Len(s) - 1 : t[i] = s[i]
  BY <1>0, Popped, Zenon
<1>3. Sound(flow, t, locked', open')
  BY <1>0, PopKeeps, Zenon
<1>a. s # <<>>
  BY Zenon
<1>b. \A n \in Nat \ {0} : /\ n - 1 \in Nat /\ (n # 1 => n > 1 /\ 1 \in 1 .. n - 1 /\ n - 1 # 0)
                           /\ n \in 1 .. n /\ 1 \in 1 .. n
  OBVIOUS
<1>4. Len(s) # 1 => FoundOff(Last(s))
  <2> HIDE DEF s, t
  <2>1. Len(s) # 1 => Len(s) > 1 /\ Len(s) \in DOMAIN s
    BY <1>2, <1>b, Zenon
  <2> QED
    BY <1>0, <1>2, <2>1, Zenon DEF Nested, Inner
<1>5. Len(s) = 1 <=> t = <<>>
  <2> HIDE DEF s, t
  <2>1. t = <<>> <=> Len(t) = 0
    BY <1>2, EmptySeq, Zenon
  <2> QED
    BY <1>2, <2>1
<1>6. t # <<>> => t[1] = s[1]
  BY <1>2, <1>5, <1>b, Zenon
<1>7. flow = "kernel" => KernelFrame(s[1])
  BY <1>a, Zenon DEF IInv, Bottom
<1>8. stage \in Quiet => ~flag'
  <2>1. stage \in Quiet => flow = "kernel"
    BY Zenon DEF IInv, Reached, Quiet
  <2>2. Len(s) = 1 => Last(s) = s[1]
    BY <1>2, Zenon
  <2> QED
    BY <1>4, <1>7, <2>1, <2>2, Zenon DEF KernelFrame
<1>9. pic'.isr = DueIn(t)
  <2>1. Nested(t)
    BY <1>3, Zenon DEF Sound
  <2>2. DueIn(t) = IF t = <<>> THEN {} ELSE Owed(t[1])
    BY <1>2, <2>1, OwedByTheFirst, Zenon
  <2>3. Len(s) = 1 => Last(s) = s[1]
    BY <1>2, Zenon
  <2> HIDE DEF t
  <2> QED
    BY <1>0, <1>5, <1>6, <2>2, <2>3, Zenon
<1>10. /\ pic' \in Chips
       /\ pic'.remapped = pic.remapped
  BY Zenon DEF IInv, Types
<1>11. flag' => t = <<>>
  BY <1>4, <1>5, Zenon
<1>12. flow = "kernel" /\ t # <<>> => KernelFrame(t[1])
  BY <1>6, <1>7, Zenon
<1> HIDE DEF t, s
<1> QED
  BY <1>1, <1>3, <1>8, <1>9, <1>10, <1>11, <1>12, Carried, Zenon

\* A flow that does not have the CPU holds no lock, is in no line and has
\* nothing to acknowledge.
LEMMA ParkedIsSound ==
  ASSUME NEW f, NEW s \in Seq(Frames), Parked(s), NEW taken, \A l \in Locks : ~taken[l]
  PROVE  Sound(f, s, taken, <<>>) /\ DueIn(s) = {} /\ HeldIn(s) = {}
<1>1. Len(s) \in Nat /\ DOMAIN s = 1 .. Len(s) /\ (s = <<>> <=> Len(s) = 0)
  BY EmptySeq, LenProperties, Zenon
<1>2. CASE s = <<>>
  <2>1. DOMAIN s = {}
    BY <1>1, <1>2
  <2> QED
    BY <2>1, Zenon DEF Sound, Nested, DueIn, HeldIn
<1>3. CASE s # <<>>
  <2>1. DOMAIN s = {1} /\ Len(s) = 1 /\ s[1].what # "guard"
        /\ (s[1].what = "handler" => s[1].step # "answer")
    BY <1>1, <1>3 DEF Parked
  <2>2. Nested(s)
    BY <2>1 DEF Nested
  <2> QED
    BY <2>1, <2>2, Zenon DEF Sound, DueIn, HeldIn
<1> QED
  BY <1>2, <1>3, Zenon

\* The CPU goes to flow g, and what had it is left with stack t.
LEMMA Switched ==
  ASSUME IInv, NEW g \in Flows, NEW t \in Seq(Frames), Parked(t),
         \A l \in Locks : ~locked[l], open = <<>>, pic.isr = {},
         flow' = g, stack' = [stack EXCEPT ![flow] = t], flag' = FALSE,
         live' \subseteq live, stage' \in Stages, stage' \notin Quiet, Reached',
         flow = "kernel" => t = <<>>,
         locked' = locked, open' = open, pic' = pic, Unseen' = Unseen
  PROVE  IInv'
<1>0. /\ flow \in Flows /\ stack \in [Flows -> Seq(Frames)]
      /\ live \subseteq Processes /\ locked \in [Locks -> BOOLEAN]
      /\ pic \in Chips
      /\ \A f \in Flows \ {flow} : Parked(stack[f])
  BY Zenon DEF IInv, Types, Stacks
<1>1. stack'[flow] = t /\ \A f \in Flows \ {flow} : stack'[f] = stack[f]
  BY <1>0, Zenon
<1>2. stack' \in [Flows -> Seq(Frames)]
  BY <1>0, Zenon
<1>3. \A f \in Flows : Parked(stack'[f])
  BY <1>0, <1>1, Zenon
<1>4. stack'[g] \in Seq(Frames)
  BY <1>2, Zenon
<1>5. Sound(g, stack'[g], locked, <<>>) /\ DueIn(stack'[g]) = {}
  BY <1>3, <1>4, ParkedIsSound, Zenon
<1>6. Types'
  BY <1>0, <1>2, Zenon DEF Types
<1>7. Stacks'
  BY <1>3, <1>5, Zenon DEF Stacks
<1>8. Bottom'
  <2>1. "kernel" \in Flows
    BY Zenon DEF Flows
  <2>2. CASE flow = "kernel"
    BY <1>1, <2>2, Zenon DEF Bottom
  <2>3. CASE flow # "kernel"
    BY <1>1, <2>1, <2>3, Zenon DEF Bottom, KernelFrame, IInv
  <2> QED
    BY <2>2, <2>3, Zenon
<1>9. pic'.isr = Due(flow)'
  <2>1. Due(flow)' = DueIn(stack'[flow'])
    BY Zenon DEF Due, DueIn
  <2> QED
    BY <1>5, <2>1, Zenon
<1> QED
  BY <1>6, <1>7, <1>8, <1>9, Zenon DEF IInv, Unseen

\* The kernel's own code goes on, from where nothing else is under way.
LEMMA Staged ==
  ASSUME IInv, flow = "kernel", stack[flow] = <<>>, flow' = flow, stack' = stack,
         live' = live, locked' = locked, open' = open, Unseen' = Unseen,
         flag' \in BOOLEAN, stage' \in Quiet => ~flag', stage' \in Stages, Reached',
         pic' \in Chips,
         pic'.isr = pic.isr
  PROVE  IInv'
<1>1. Types'
  BY Zenon DEF IInv, Types
<1>2. Stacks'
  BY Zenon DEF IInv, Stacks
<1>3. Bottom'
  BY Zenon DEF Bottom
<1>4. pic'.isr = Due(flow)'
  BY DEF IInv, Due
<1> QED
  BY <1>1, <1>2, <1>3, <1>4, Zenon DEF IInv, Unseen

\* The same, into the breakpoint that tries the tables.
LEMMA Tried ==
  ASSUME IInv, flow = "kernel", stack[flow] = <<>>, flow' = flow, SelfTest,
         live' = live, locked' = locked, open' = open, Unseen' = Unseen, pic' = pic,
         flag' = FALSE, stage' \in Stages, Reached'
  PROVE  IInv'
<1> DEFINE x == [Handler("breakpoint", "log") EXCEPT !.flag = FALSE]
<1>a. PICK h \in Handlers : /\ h = Handler("breakpoint", "log")
                            /\ h.cause = "breakpoint" /\ h.step = "log"
  <2>1. flag \in BOOLEAN /\ "breakpoint" \in Causes /\ "log" \in Steps
    BY Zenon DEF IInv, Types, Causes, Steps
  <2> QED
    BY <2>1, NewFrames
<1>1. /\ x \in Handlers /\ x.what = "handler" /\ x.cause = "breakpoint" /\ x.step = "log"
      /\ x.flag = FALSE
  <2>1. x = [h EXCEPT !.flag = FALSE]
    BY <1>a, Zenon
  <2> HIDE DEF x
  <2> QED
    BY <1>a, <2>1, Zenon DEF Handlers
<1>2. /\ x \in Frames /\ FoundOff(x) /\ ~IsNmi(x) /\ x.what = "handler"
      /\ x.cause = "breakpoint" /\ Owed(x) = {}
  <2> HIDE DEF x
  <2> QED
    BY <1>1, Zenon DEF Frames, FoundOff, IsNmi, Owed
<1>3. /\ flow \in Flows /\ stack \in [Flows -> Seq(Frames)] /\ Sound(flow, <<>>, locked, open)
      /\ live \subseteq Processes /\ locked \in [Locks -> BOOLEAN]
      /\ pic \in Chips
      /\ \A f \in Flows \ {flow} : Parked(stack[f])
  BY Current, Zenon DEF IInv, Types, Stacks
<1>4. stack' = [stack EXCEPT ![flow] = Append(<<>>, x)]
  BY Zenon DEF SelfTest, Push
<1> HIDE DEF x
<1> DEFINE t == Append(<<>>, x)
<1>5. Sound(flow, t, locked, open)
  <2>1. DOMAIN <<>> = {}
    OBVIOUS
  <2> QED
    BY <1>2, <1>3, <2>1, PushKeeps, Zenon
<1>6. t \in Seq(Frames) /\ t # <<>> /\ t[1] = x
  BY <1>2
<1>7. DueIn(t) = {}
  <2>1. Nested(t)
    BY <1>5, Zenon DEF Sound
  <2> HIDE DEF t
  <2> QED
    BY <1>2, <1>6, <2>1, OwedByTheFirst, Zenon
<1> HIDE DEF t
<1>8. stack' = [stack EXCEPT ![flow] = t]
  BY <1>4, Zenon DEF t
<1>9. stack'[flow] = t /\ \A f \in Flows \ {flow} : stack'[f] = stack[f]
  BY <1>3, <1>8, Zenon
<1>10. stack' \in [Flows -> Seq(Frames)]
  BY <1>3, <1>6, <1>8, Zenon
<1>11. Types'
  BY <1>3, <1>10, Zenon DEF Types
<1>12. Stacks'
  BY <1>3, <1>5, <1>9, Zenon DEF Stacks
<1>13. Bottom'
  BY <1>2, <1>6, <1>9, Zenon DEF Bottom, KernelFrame
<1>14. pic'.isr = Due(flow)'
  <2>1. Due(flow)' = DueIn(stack'[flow'])
    BY Zenon DEF Due, DueIn
  <2> QED
    BY <1>7, <1>9, <2>1, Nothing, Zenon
<1> QED
  BY <1>11, <1>12, <1>13, <1>14, Zenon DEF IInv, Unseen

-----------------------------------------------------------------------------
(* The actions.                                                            *)

\* The kernel's own code.
LEMMA StagesKeep ==
  ASSUME InterruptsAssumption, IInv
  PROVE  /\ MaskAll \/ InterruptsInit \/ InitTimer => IInv'
         /\ \A answers \in BOOLEAN : InitKeyboard(answers) => IInv'
         /\ Enable \/ StartMove \/ StayLow \/ Jump \/ ReinstallDescriptors \/ EnableAgain => IInv'
         /\ Adopt \/ IntoTheShell \/ Take => IInv'
<1>0. flag \in BOOLEAN /\ pic \in Chips /\ Reached /\ (stage \in Quiet => ~flag)
  BY Zenon DEF IInv, Types, Bottom
<1>1. ASSUME MaskAll PROVE IInv'
  <2>1. /\ flow = "kernel" /\ stack[flow] = <<>> /\ stage = "mask_all" /\ stage' = "init"
        /\ pic' = [pic EXCEPT !.mask = Lines]
        /\ UNCHANGED <<flow, stack, live, locked, open, Unseen, flag, idt, home, console>>
    BY <1>1, Zenon DEF MaskAll, Kernel, mask_all, Rest
  <2>2. pic' \in Chips /\ pic'.isr = pic.isr
    BY <1>0, <2>1, Zenon
  <2>3. Reached' /\ stage' \in Stages /\ stage' \notin Quiet
    BY <1>0, <2>1, Zenon DEF Reached, Stages, Quiet
  <2> QED
    BY <1>0, <2>1, <2>2, <2>3, Staged, Zenon
<1>2. ASSUME InterruptsInit PROVE IInv'
  <2>1. /\ flow = "kernel" /\ stack[flow] = <<>> /\ stage = "init" /\ stage' = "init_timer"
        /\ flag' = FALSE /\ idt' = "low" /\ SelfTest
        /\ UNCHANGED <<flow, live, locked, open, Unseen, pic, home, console>>
    BY <1>2, Zenon DEF InterruptsInit, Kernel, Rest
  <2>2. Reached' /\ stage' \in Stages
    BY <1>0, <2>1, Zenon DEF Reached, Stages
  <2> QED
    BY <2>1, <2>2, Tried, ZenonT(30)
<1>3. ASSUME InitTimer PROVE IInv'
  <2>1. /\ flow = "kernel" /\ stack[flow] = <<>> /\ stage = "init_timer"
        /\ stage' = "init_keyboard" /\ pic' = unmask(remap, TIMER)
        /\ UNCHANGED <<flow, stack, live, locked, open, Unseen, flag, idt, home, console>>
    BY <1>3, Zenon DEF InitTimer, Kernel, Rest
  <2>2. pic' \in Chips /\ pic'.isr = {} /\ pic'.remapped
    <3>a. remap \in Chips /\ remap.isr = {} /\ remap.remapped
      BY Zenon DEF remap
    <3>1. PICK r \in Chips : r = remap /\ r.isr = {} /\ r.remapped
      BY <3>a, Zenon
    <3>2. pic' = [r EXCEPT !.mask = @ \ {TIMER}]
      BY <2>1, <3>1, Zenon DEF unmask
    <3> QED
      BY <3>1, <3>2, Zenon
  <2>3. Reached' /\ stage' \in Stages /\ ~flag'
    BY <1>0, <2>1, <2>2, Zenon DEF Reached, Stages, Quiet
  <2> QED
    BY <1>0, <2>1, <2>2, <2>3, Staged, Nothing, Zenon
<1>4. ASSUME NEW answers \in BOOLEAN, InitKeyboard(answers) PROVE IInv'
  <2>1. /\ flow = "kernel" /\ stack[flow] = <<>> /\ stage = "init_keyboard"
        /\ stage' = "enable" /\ pic' = IF answers THEN unmask(pic, KEYBOARD) ELSE pic
        /\ UNCHANGED <<flow, stack, live, locked, open, Unseen, flag, idt, home, console>>
    BY <1>4, Zenon DEF InitKeyboard, Kernel, Rest
  <2>2. pic' \in Chips /\ pic'.isr = pic.isr /\ pic'.remapped = pic.remapped
    BY <1>0, <2>1, Zenon DEF unmask
  <2>3. Reached' /\ stage' \in Stages /\ ~flag'
    BY <1>0, <2>1, <2>2, Zenon DEF Reached, Stages, Quiet
  <2> QED
    BY <1>0, <2>1, <2>2, <2>3, Staged, Zenon
<1>5. ASSUME Enable \/ StartMove \/ StayLow \/ EnableAgain \/ IntoTheShell PROVE IInv'
  <2>1. /\ flow = "kernel" /\ stack[flow] = <<>>
        /\ \/ stage = "enable" /\ stage' = "boot" /\ flag' = TRUE
           \/ stage = "boot" /\ stage' = "moving" /\ flag' = FALSE
           \/ stage \in {"moving", "moved"} /\ stage' = "adopt" /\ flag' = TRUE
           \/ stage = "into_the_shell" /\ stage' = "take" /\ flag' = TRUE
        /\ UNCHANGED <<flow, stack, live, locked, open, Unseen, pic, idt, home, console>>
    BY <1>5, Zenon DEF Enable, StartMove, StayLow, EnableAgain, IntoTheShell, Kernel, Rest
  <2>2. Reached' /\ stage' \in Stages /\ (stage' \in Quiet => ~flag') /\ flag' \in BOOLEAN
    BY <1>0, <2>1, ZenonT(30) DEF Reached, Stages, Quiet
  <2> QED
    BY <1>0, <2>1, <2>2, Staged, Zenon
<1>6. ASSUME Jump PROVE IInv'
  <2>1. /\ flow = "kernel" /\ stack[flow] = <<>> /\ stage = "moving" /\ stage' = "reinstall"
        /\ home' = "high"
        /\ UNCHANGED <<flow, stack, live, locked, open, Unseen, flag, pic, idt, console>>
    BY <1>6, Zenon DEF Jump, Kernel, Rest
  <2>2. Reached' /\ stage' \in Stages /\ ~flag'
    BY <1>0, <2>1, Zenon DEF Reached, Stages, Quiet
  <2> QED
    BY <1>0, <2>1, <2>2, Staged, Zenon
<1>7. ASSUME ReinstallDescriptors PROVE IInv'
  <2>1. /\ flow = "kernel" /\ stack[flow] = <<>> /\ stage = "reinstall" /\ stage' = "moved"
        /\ idt' = "high" /\ SelfTest /\ flag' = flag
        /\ UNCHANGED <<flow, live, locked, open, Unseen, pic, home, console>>
    BY <1>7, Zenon DEF ReinstallDescriptors, Kernel, Rest
  <2>2. Reached' /\ stage' \in Stages /\ flag' = FALSE
    BY <1>0, <2>1, Zenon DEF Reached, Stages, Quiet
  <2> QED
    BY <2>1, <2>2, Tried, ZenonT(30)
<1>8. ASSUME Adopt \/ Take PROVE IInv'
  <2>1. /\ flow = "kernel" /\ stack[flow] = <<>>
        /\ IF locked["CONSOLE"] THEN panicked' = TRUE
           ELSE /\ panicked' = panicked
                /\ \/ stage = "adopt" /\ stage' = "run_first" /\ console' = "module"
                   \/ stage = "take" /\ stage' = "shell" /\ console' = "shell"
        /\ UNCHANGED <<flow, stack, live, locked, open, spoiled, astray, flag, pic, idt, home>>
    BY <1>8, Zenon DEF Adopt, Take, ChangeConsole, Kernel
  <2>2. ~locked["CONSOLE"]
    BY <2>1, Nothing, Zenon DEF InterruptsAssumption
  <2>3. Reached' /\ stage' \in Stages /\ stage' \notin Quiet
    BY <1>0, <2>1, <2>2, Zenon DEF Reached, Stages, Quiet
  <2> QED
    BY <1>0, <2>1, <2>2, <2>3, Staged, Zenon DEF Unseen
<1> QED
  BY <1>1, <1>2, <1>3, <1>4, <1>5, <1>6, <1>7, <1>8, Zenon

\* A handler's step, and no more.
LEMMA SteppedOnly ==
  ASSUME IInv, stack[flow] # <<>>, Last(stack[flow]).what = "handler",
         NEW step \in Steps \ {"answer"}, stack' = NextStep(flow, step),
         UNCHANGED <<flag, flow, Boot, live, locked, open, Unseen>>,
         pic' \in Chips,
         pic'.remapped = pic.remapped,
         \/ Last(stack[flow]).step # "answer" /\ pic'.isr = pic.isr
         \/ Last(stack[flow]).cause # "nmi" /\ pic'.isr = {}
  PROVE  IInv'
<1>0. /\ flow \in Flows /\ stack \in [Flows -> Seq(Frames)] /\ flag \in BOOLEAN
      /\ (flag => stack[flow] = <<>>) /\ locked \in [Locks -> BOOLEAN]
  BY Current, ZenonT(30) DEF IInv, Types
<1>1. PICK u : /\ NextStep(flow, step) = [stack EXCEPT ![flow] = u]
               /\ u \in Seq(Frames) /\ u # <<>> /\ Sound(flow, u, locked, open)
               /\ Last(stack[flow]).step # "answer" => pic.isr = Owed(u[1])
               /\ Last(stack[flow]).cause # "nmi" => Owed(u[1]) = {}
               /\ flow = "kernel" => KernelFrame(u[1])
  <2> DEFINE y == [Last(stack[flow]) EXCEPT !.step = step]
             v == Front(stack[flow]) \o <<y>>
  <2>1. /\ NextStep(flow, step) = [stack EXCEPT ![flow] = v]
        /\ v \in Seq(Frames) /\ v # <<>> /\ Sound(flow, v, locked, open)
        /\ Last(stack[flow]).step # "answer" => pic.isr = Owed(v[1])
        /\ Last(stack[flow]).cause # "nmi" => Owed(v[1]) = {}
        /\ flow = "kernel" => KernelFrame(v[1])
    BY Stepped, Zenon
  <2> QED
    BY <2>1, Zenon
<1>2. stack' = [stack EXCEPT ![flow] = u] /\ stack'[flow] = u
  BY <1>0, <1>1, Zenon
<1>3. pic'.isr = DueIn(u)
  <2>1. Nested(u)
    BY <1>1, Zenon DEF Sound
  <2>2. DueIn(u) = Owed(u[1])
    BY <1>1, <2>1, OwedByTheFirst, Zenon
  <2> QED
    BY <1>1, <2>2, ZenonT(30)
<1> QED
  BY <1>0, <1>1, <1>2, <1>3, Carried, Zenon

\* Who gets the CPU.
LEMMA SwitchesKeep ==
  ASSUME InterruptsAssumption, IInv, NEW g \in Flows,
         TickHandler(g) \/ FaultEnds(g) \/ Yield(g) \/ Exit(g) \/ RunFirst(g)
  PROVE  IInv'
<1>0. /\ flow \in Flows /\ stack \in [Flows -> Seq(Frames)] /\ flag \in BOOLEAN
      /\ stack[flow] \in Seq(Frames) /\ (flag => stack[flow] = <<>>)
      /\ locked \in [Locks -> BOOLEAN] /\ live \subseteq Processes /\ stage \in Stages
      /\ pic \in Chips
      /\ pic.isr = IF stack[flow] = <<>> THEN {} ELSE Owed(stack[flow][1])
  BY Current, Zenon DEF IInv, Types
<1>1. (flow = "kernel" <=> stage # "processes") /\ (flow # "kernel" => flow \in live)
  BY Zenon DEF IInv, Reached
<1>2. ASSUME flow # "kernel", NEW left \in SUBSET live, g \in left \/ (left = {} /\ g = "kernel"),
             flow' = g, live' = left, stage' = IF g = "kernel" THEN "into_the_shell" ELSE stage,
             UNCHANGED <<pic, idt, home, console>>
      PROVE  stage' \in Stages /\ stage' \notin Quiet /\ Reached'
  <2>1. /\ stage = "processes" /\ idt # "firmware" /\ pic.remapped /\ idt = home
        /\ console # "shell"
    BY <1>1, <1>2, Zenon DEF IInv, Reached
  <2>2. CASE g = "kernel"
    <3>1. left = {} /\ stage' = "into_the_shell"
      BY <1>0, <1>2, <2>2, Zenon DEF InterruptsAssumption
    <3> QED
      BY <1>2, <2>1, <2>2, <3>1, Zenon DEF Reached, Stages, Quiet
  <2>3. CASE g # "kernel"
    BY <1>2, <2>1, <2>3, Zenon DEF Reached, Stages, Quiet
  <2> QED
    BY <2>2, <2>3, Zenon
<1>3. ASSUME stack[flow] # <<>>, Last(stack[flow]).what \in {"handler", "syscall"},
             Last(stack[flow]).what = "handler" => /\ Last(stack[flow]).cause # "nmi"
                                                   /\ Last(stack[flow]).step # "answer"
      PROVE  /\ flag = FALSE /\ Len(stack[flow]) = 1 /\ Last(stack[flow]) = stack[flow][1]
             /\ \A l \in Locks : ~locked[l]
             /\ open = <<>> /\ pic.isr = {}
             /\ flow = "kernel" => KernelFrame(Last(stack[flow]))
  <2>1. /\ Len(stack[flow]) = 1 /\ Last(stack[flow]) = stack[flow][1]
        /\ \A l \in Locks : ~locked[l]
        /\ open = <<>>
    BY <1>3, Alone, Zenon DEF IsNmi
  <2>2. Owed(stack[flow][1]) = {}
    BY <1>3, <2>1, ZenonT(30) DEF Owed
  <2>3. flow = "kernel" => KernelFrame(stack[flow][1])
    BY <1>3, Zenon DEF IInv, Bottom
  <2> QED
    BY <1>0, <1>3, <2>1, <2>2, <2>3, ZenonT(30)
<1>4. ASSUME TickHandler(g) PROVE IInv'
  <2>1. /\ stack[flow] # <<>> /\ Last(stack[flow]).what = "handler"
        /\ Last(stack[flow]).cause = "timer" /\ Last(stack[flow]).step = "tick"
    BY <1>4, Zenon DEF TickHandler, At, In, Top
  <2>2. "return" \in Steps \ {"answer"}
    BY Zenon DEF Steps
  <2>3. CASE flow \in live
    <3>1. /\ SwitchTo(g, NextStep(flow, "return"), live)
          /\ UNCHANGED <<flag, pic, idt, home, console, locked, open, Unseen>>
      BY <1>4, <2>3, Zenon DEF TickHandler
    <3> DEFINE y == [Last(stack[flow]) EXCEPT !.step = "return"]
               t == Front(stack[flow]) \o <<y>>
    <3>2. /\ NextStep(flow, "return") = [stack EXCEPT ![flow] = t]
          /\ y.what = "handler" /\ y.step = "return"
          /\ t \in Seq(Frames) /\ t # <<>> /\ Last(t) = y /\ Len(t) = Len(stack[flow])
      BY <2>1, <2>2, Stepped, Zenon
    <3>3. Parked(t)
      <4>1. Len(t) = 1
        BY <1>3, <2>1, <3>2, ZenonT(30)
      <4> HIDE DEF t, y
      <4> QED
        BY <3>2, <4>1, Zenon DEF Parked, Last
    <3> HIDE DEF t, y
    <3>4. flow # "kernel"
      BY <1>0, <2>3, Zenon DEF InterruptsAssumption
    <3>5. stage' \in Stages /\ stage' \notin Quiet /\ Reached'
      BY <1>2, <3>1, <3>4, Zenon DEF SwitchTo
    <3>6. /\ flow' = g /\ stack' = [stack EXCEPT ![flow] = t] /\ live' = live /\ flag' = flag
      BY <3>1, <3>2, Zenon DEF SwitchTo
    <3>7. flag = FALSE /\ (\A l \in Locks : ~locked[l]) /\ open = <<>> /\ pic.isr = {}
      BY <1>3, <2>1, Zenon
    <3> QED
      BY <3>1, <3>2, <3>3, <3>4, <3>5, <3>6, <3>7, Switched, ZenonT(30)
  <2>4. CASE flow \notin live
    BY <1>0, <1>4, <2>1, <2>2, <2>4, SteppedOnly, Zenon DEF TickHandler, Boot
  <2> QED
    BY <2>3, <2>4, Zenon
<1>5. ASSUME End(g), stack[flow] # <<>>, Last(stack[flow]).what \in {"handler", "syscall"},
             Last(stack[flow]).what = "handler" => /\ Last(stack[flow]).cause = "fault"
                                                   /\ Last(stack[flow]).step # "answer"
      PROVE  IInv'
  <2>1. /\ flag = FALSE /\ (\A l \in Locks : ~locked[l]) /\ open = <<>> /\ pic.isr = {}
        /\ flow = "kernel" => KernelFrame(Last(stack[flow]))
    BY <1>3, <1>5, Zenon
  <2>2. flow # "kernel"
    BY <1>5, <2>1, Zenon DEF KernelFrame
  <2>3. /\ SwitchTo(g, [stack EXCEPT ![flow] = <<>>], live \ {flow})
        /\ UNCHANGED <<flag, pic, idt, home, console, locked, open, Unseen>>
    BY <1>5, Zenon DEF End
  <2>4. stage' \in Stages /\ stage' \notin Quiet /\ Reached'
    BY <1>2, <2>2, <2>3, Zenon DEF SwitchTo
  <2>5. flow' = g /\ stack' = [stack EXCEPT ![flow] = <<>>] /\ live' \subseteq live
    BY <2>3, Zenon DEF SwitchTo
  <2>6. <<>> \in Seq(Frames) /\ Parked(<<>>)
    BY DEF Parked
  <2> QED
    BY <2>1, <2>3, <2>4, <2>5, <2>6, Switched, ZenonT(30)
<1>6. ASSUME FaultEnds(g) PROVE IInv'
  BY <1>5, <1>6, Zenon DEF FaultEnds, At, In, Top
<1>7. ASSUME Exit(g) PROVE IInv'
  BY <1>5, <1>7, Zenon DEF Exit, In, Top
<1>8. ASSUME Yield(g) PROVE IInv'
  <2>1. /\ stack[flow] # <<>> /\ Last(stack[flow]).what = "syscall"
        /\ SwitchTo(g, stack, live)
        /\ UNCHANGED <<flag, pic, idt, home, console, locked, open, Unseen>>
    BY <1>8, ZenonT(30) DEF Yield, In, Top
  <2>2. /\ flag = FALSE /\ (\A l \in Locks : ~locked[l]) /\ open = <<>> /\ pic.isr = {}
        /\ flow = "kernel" => KernelFrame(Last(stack[flow]))
        /\ Len(stack[flow]) = 1 /\ Last(stack[flow]) = stack[flow][1]
    BY <1>3, <2>1, ZenonT(30)
  <2>3. flow # "kernel"
    BY <2>1, <2>2, ZenonT(30) DEF KernelFrame
  <2>4. stage' \in Stages /\ stage' \notin Quiet /\ Reached'
    BY <1>2, <2>1, <2>3, ZenonT(30) DEF SwitchTo
  <2>5. flow' = g /\ stack' = [stack EXCEPT ![flow] = stack[flow]] /\ live' = live
    BY <1>0, <2>1, Zenon DEF SwitchTo
  <2>6. Parked(stack[flow])
    BY <2>1, <2>2, ZenonT(30) DEF Parked
  <2> QED
    BY <1>0, <2>1, <2>2, <2>3, <2>4, <2>5, <2>6, Switched, ZenonT(30)
<1>9. ASSUME RunFirst(g) PROVE IInv'
  <2>1. /\ flow = "kernel" /\ stack[flow] = <<>> /\ stage = "run_first" /\ g \in live
        /\ flow' = g /\ stage' = "processes" /\ flag' = FALSE
        /\ UNCHANGED <<stack, pic, idt, home, console, live, locked, open, Unseen>>
    BY <1>9, Zenon DEF RunFirst, Kernel
  <2>2. (\A l \in Locks : ~locked[l]) /\ open = <<>> /\ pic.isr = {}
    BY <2>1, Nothing, Zenon
  <2>3. stage' \in Stages /\ stage' \notin Quiet
    BY <2>1, Zenon DEF Stages, Quiet
  <2>4. Reached'
    <3>1. idt # "firmware" /\ pic.remapped /\ idt = home /\ console # "shell" /\ g # "kernel"
      BY <1>0, <2>1, Zenon DEF IInv, Reached, InterruptsAssumption
    <3> QED
      BY <2>1, <3>1, Zenon DEF Reached
  <2>5. Parked(stack[flow]) /\ stack' = [stack EXCEPT ![flow] = stack[flow]]
    BY <1>0, <2>1, Zenon DEF Parked
  <2> QED
    BY <1>0, <2>1, <2>2, <2>3, <2>4, <2>5, Switched, ZenonT(30)
<1> QED
  BY <1>4, <1>6, <1>7, <1>8, <1>9, Zenon

\* A handler's step into a line of the log or a critical section.
LEMMA SteppedInto ==
  ASSUME IInv, stack[flow] # <<>>, Last(stack[flow]).what = "handler",
         Last(stack[flow]).step # "answer", NEW step \in Steps \ {"answer"}, NEW x \in Frames,
         \/ x.what = "line"
         \/ x.what = "guard" /\ Last(stack[flow]).cause # "nmi",
         x.were = flag, stack' = [NextStep(flow, step) EXCEPT ![flow] = Append(@, x)],
         flag' = FALSE, UNCHANGED <<flow, pic, Boot, live, open, Unseen>>,
         locked' \in [Locks -> BOOLEAN],
         \A l \in Locks : locked'[l] => locked[l] \/ (x.what = "guard" /\ x.lock = l)
  PROVE  IInv'
<1>0. /\ flow \in Flows /\ stack \in [Flows -> Seq(Frames)] /\ flag \in BOOLEAN
      /\ (flag => stack[flow] = <<>>) /\ locked \in [Locks -> BOOLEAN]
      /\ pic \in Chips
  BY Current, Zenon DEF IInv, Types
<1>1. PICK u : /\ NextStep(flow, step) = [stack EXCEPT ![flow] = u]
               /\ u \in Seq(Frames) /\ u # <<>> /\ Sound(flow, u, locked, open)
               /\ Last(u).what = "handler" /\ Last(u).cause = Last(stack[flow]).cause
               /\ pic.isr = Owed(u[1])
               /\ flow = "kernel" => KernelFrame(u[1])
  <2> DEFINE y == [Last(stack[flow]) EXCEPT !.step = step]
             v == Front(stack[flow]) \o <<y>>
  <2>1. /\ NextStep(flow, step) = [stack EXCEPT ![flow] = v]
        /\ v \in Seq(Frames) /\ v # <<>> /\ Sound(flow, v, locked, open)
        /\ Last(v) = y /\ y.what = "handler" /\ y.cause = Last(stack[flow]).cause
        /\ pic.isr = Owed(v[1])
        /\ flow = "kernel" => KernelFrame(v[1])
    BY Stepped, Zenon
  <2> QED
    BY <2>1, Zenon
<1>2. stack' = [stack EXCEPT ![flow] = Append(u, x)]
  BY <1>0, <1>1, Zenon
<1>3. ~IsNmi(x) /\ Inner(x) /\ Last(u).what # "line" /\ (IsNmi(Last(u)) => x.what = "line")
  BY <1>0, <1>1, Zenon DEF IsNmi, Inner, FoundOff
<1> QED
  BY <1>0, <1>1, <1>2, <1>3, Entered, Zenon

\* The handlers that keep the CPU.
LEMMA HandlersKeep ==
  ASSUME InterruptsAssumption, IInv
  PROVE  /\ TimerAnswers \/ KeyboardAnswers => IInv'
         /\ TimerLogs \/ HandlerLogs \/ FaultLogs => IInv'
         /\ FaultRecords => IInv'
<1>0. /\ flow \in Flows /\ stack \in [Flows -> Seq(Frames)] /\ flag \in BOOLEAN
      /\ (flag => stack[flow] = <<>>) /\ locked \in [Locks -> BOOLEAN]
      /\ pic \in Chips
      /\ pic.isr = IF stack[flow] = <<>> THEN {} ELSE Owed(stack[flow][1])
  BY Current, Zenon DEF IInv, Types
<1>1. {"log", "tick", "record", "end", "return"} \subseteq Steps \ {"answer"}
  BY Zenon DEF Steps
<1>2. ASSUME NEW cause \in {"timer", "keyboard"}, NEW step \in {"log", "return"},
             At(flow, cause, "answer"), pic' = send_eoi, stack' = NextStep(flow, step),
             UNCHANGED <<flag, flow, Boot, live, locked, open, Unseen>>
      PROVE  IInv'
  <2>1. /\ stack[flow] # <<>> /\ Last(stack[flow]).what = "handler"
        /\ Last(stack[flow]).cause = cause /\ Last(stack[flow]).step = "answer"
    BY <1>2, Zenon DEF At, In, Top
  <2>2. Last(stack[flow]) = stack[flow][1]
    BY <2>1, Alone, Zenon DEF IsNmi
  <2>3. pic.isr = {line \in Lines : cause = Cause(line)}
    BY <1>0, <2>1, <2>2, Zenon DEF Owed
  <2>4. \A line, lower \in pic.isr : ~(lower < line)
    BY <2>3 DEF Lines, TIMER, KEYBOARD, Cause
  <2>5. /\ pic' \in Chips
        /\ pic'.remapped = pic.remapped /\ pic'.isr = {}
    <3>1. {line \in pic.isr : \E lower \in pic.isr : lower < line} = {}
      BY <2>4, Zenon
    <3>2. pic' = [pic EXCEPT !.isr = {}]
      BY <1>2, <3>1, Zenon DEF send_eoi
    <3> QED
      BY <1>0, <3>2, Zenon
  <2> QED
    BY <1>1, <1>2, <2>1, <2>5, SteppedOnly, Zenon
<1>3. ASSUME TimerAnswers \/ KeyboardAnswers PROVE IInv'
  BY <1>2, <1>3, Zenon DEF TimerAnswers, KeyboardAnswers
<1>4. ASSUME NEW cause, NEW step \in {"tick", "record", "return"}, At(flow, cause, "log"),
             StartLine(NextStep(flow, step))
      PROVE  IInv'
  <2>1. /\ stack[flow] # <<>> /\ Last(stack[flow]).what = "handler"
        /\ Last(stack[flow]).step = "log"
    BY <1>4, Zenon DEF At, In, Top
  <2>2. /\ stack' = [NextStep(flow, step) EXCEPT ![flow] = Append(@, LogLine)]
        /\ flag' = FALSE /\ UNCHANGED <<flow, pic, Boot, live, locked, open, Unseen>>
    BY <1>4, Zenon DEF StartLine
  <2>3. PICK x \in Frames : x = LogLine /\ x.what = "line" /\ x.were = flag
    BY <1>0, NewFrames, Zenon DEF InterruptsAssumption
  <2> QED
    BY <1>0, <1>1, <2>1, <2>2, <2>3, SteppedInto, Zenon
<1>5. ASSUME TimerLogs PROVE IInv'
  <2>1. CASE StartLine(NextStep(flow, "tick"))
    BY <1>4, <1>5, <2>1, Zenon DEF TimerLogs
  <2>2. CASE /\ stack' = NextStep(flow, "tick")
             /\ UNCHANGED <<flag, flow, pic, Boot, live, locked, open, raised, ticks, ops, Unseen>>
    <3>1. /\ stack[flow] # <<>> /\ Last(stack[flow]).what = "handler"
          /\ Last(stack[flow]).step = "log"
      BY <1>5, Zenon DEF TimerLogs, At, In, Top
    <3> QED
      BY <1>0, <1>1, <2>2, <3>1, SteppedOnly, Zenon
  <2> QED
    BY <1>5, <2>1, <2>2, Zenon DEF TimerLogs
<1>6. ASSUME HandlerLogs \/ FaultLogs PROVE IInv'
  BY <1>4, <1>6, Zenon DEF HandlerLogs, FaultLogs
<1>7. ASSUME FaultRecords PROVE IInv'
  <2>1. /\ stack[flow] # <<>> /\ Last(stack[flow]).what = "handler"
        /\ Last(stack[flow]).step = "record" /\ Last(stack[flow]).cause = "fault"
    BY <1>7, Zenon DEF FaultRecords, At, In, Top
  <2>2. "RING" \in Locks /\ ~locked["RING"]
    BY <2>1, Alone, Zenon DEF InterruptsAssumption, IsNmi
  <2>3. PICK x \in Frames : /\ x = [what |-> "guard", lock |-> "RING", were |-> flag]
                            /\ x.what = "guard" /\ x.lock = "RING" /\ x.were = flag
    <3>1. LET g == [what |-> "guard", lock |-> "RING", were |-> flag]
          IN  g \in Frames /\ g.what = "guard" /\ g.lock = "RING" /\ g.were = flag
      BY <1>0, <2>2, NewFrames, Zenon
    <3> QED
      BY <3>1, Zenon
  <2>4. /\ stack' = [NextStep(flow, "end") EXCEPT ![flow] = Append(@, x)] /\ flag' = FALSE
        /\ locked' = [locked EXCEPT !["RING"] = TRUE]
        /\ UNCHANGED <<flow, pic, Boot, live, open, Unseen>>
    BY <1>7, <2>2, <2>3, Zenon DEF FaultRecords, Lock, Boot, Unseen
  <2>5. /\ locked' \in [Locks -> BOOLEAN]
        /\ \A m \in Locks : locked'[m] => locked[m] \/ (x.what = "guard" /\ x.lock = m)
    BY <1>0, <2>3, <2>4, Zenon
  <2> QED
    BY <1>1, <2>1, <2>3, <2>4, <2>5, SteppedInto, ZenonT(30)
<1> QED
  BY <1>3, <1>5, <1>6, <1>7, Zenon

\* The line that is partly out is the one being written, unless an NMI's is.
LEMMA OpenIsHere ==
  ASSUME NEW f, NEW s, NEW taken, NEW line, Sound(f, s, taken, line), s # <<>>,
         Last(s).what = "line", line # <<>>, Len(s) > 1 => ~IsNmi(s[Len(s) - 1])
  PROVE  line = <<f, Len(s)>>
<1>0. s \in Seq(Frames) /\ Nested(s)
  BY Zenon DEF Sound
<1>1. Len(s) \in Nat \ {0} /\ Last(s) = s[Len(s)] /\ DOMAIN s = 1 .. Len(s)
  BY <1>0, Popped, Zenon
<1>2. PICK p \in DOMAIN s : /\ line = <<f, p>> /\ s[p].what = "line"
                            /\ p > 1 => ~IsNmi(s[p - 1])
  BY Zenon DEF Sound, Inside
<1>3. PICK n \in Nat \ {0} : n = Len(s)
  BY <1>1, Zenon
<1>4. p \in 1 .. n /\ s[n].what = "line" /\ DOMAIN s = 1 .. n /\ (n > 1 => ~IsNmi(s[n - 1]))
  BY <1>1, <1>2, <1>3, Zenon
<1>5. /\ \A i \in 1 .. n : i < n /\ s[i].what = "line" => IsNmi(s[i + 1])
      /\ \A i \in 1 .. n : i < n /\ IsNmi(s[i]) => s[i + 1].what = "line"
      /\ \A i, j \in 1 .. n : IsNmi(s[i]) /\ IsNmi(s[j]) => i = j
  BY <1>0, <1>3, <1>4, Zenon DEF Nested
<1>6. ASSUME p < n PROVE FALSE
  <2>1. IsNmi(s[p + 1]) /\ p + 1 \in 1 .. n
    BY <1>2, <1>4, <1>5, <1>6
  <2>2. p + 1 # n
    BY <1>4, <2>1, Zenon DEF IsNmi
  <2>3. s[p + 1 + 1].what = "line" /\ p + 2 \in 1 .. n /\ p + 1 + 1 = p + 2
    BY <1>4, <1>5, <2>1, <2>2
  <2>4. p + 2 # n
    BY <1>4, <2>1
  <2>5. IsNmi(s[p + 2 + 1]) /\ p + 3 \in 1 .. n /\ p + 2 + 1 = p + 3
    BY <1>4, <1>5, <2>3, <2>4
  <2>6. p + 1 = p + 3
    BY <1>5, <2>1, <2>5, Zenon
  <2> QED
    BY <1>4, <2>6
<1>7. p = n
  BY <1>4, <1>6
<1> QED
  BY <1>2, <1>3, <1>7, Zenon

\* One piece more of a line.
LEMMA PieceKeeps ==
  ASSUME InterruptsAssumption, IInv, WritePiece
  PROVE  IInv'
<1> DEFINE s == stack[flow]
           x == [Last(s) EXCEPT !.left = @ - 1]
<1>0. /\ flow \in Flows /\ stack \in [Flows -> Seq(Frames)] /\ flag \in BOOLEAN
      /\ s \in Seq(Frames) /\ (flag => s = <<>>) /\ Nested(s)
      /\ Sound(flow, s, locked, open) /\ locked \in [Locks -> BOOLEAN]
      /\ pic \in Chips
      /\ pic.isr = IF s = <<>> THEN {} ELSE Owed(s[1])
  BY Current, Zenon DEF IInv, Types
<1>1. s # <<>> /\ Last(s).what = "line" /\ flag = FALSE
  BY <1>0, Zenon DEF WritePiece, In, Top
<1>2. Len(s) \in Nat \ {0} /\ Last(s) = s[Len(s)] /\ Last(s) \in LogLines /\ Last(s) \in Frames
  BY <1>0, <1>1, Popped, FrameFields, Zenon
<1>3. ByNmi(flow) <=> Len(s) > 1 /\ IsNmi(s[Len(s) - 1])
  BY Zenon DEF ByNmi, IsNmi
<1>4. Unseen' = Unseen
  <2>1. ~ByNmi(flow) => open \in {<<>>, <<flow, Len(s)>>}
    <3> HIDE DEF s
    <3> QED
      BY <1>0, <1>1, <1>3, OpenIsHere, Zenon
  <2>2. /\ panicked' = panicked /\ astray' = astray
        /\ spoiled' = (spoiled \/ (~ByNmi(flow) /\ open \notin {<<>>, Here(flow)}))
    BY Zenon DEF WritePiece
  <2>3. spoiled' = FALSE
    BY <2>1, <2>2, Zenon DEF Here, IInv
  <2> QED
    BY <2>2, <2>3, Zenon DEF Unseen, IInv
<1>5. UNCHANGED <<flow, pic, Boot, live, locked>>
  BY Zenon DEF WritePiece
<1>6. Owed(Last(s)) = {}
  BY <1>1, Zenon DEF Owed
<1>7. CASE Last(s).left > 1
  <2>1. /\ stack' = [stack EXCEPT ![flow] = Front(s) \o <<x>>] /\ flag' = flag
        /\ open' = IF ByNmi(flow) THEN open ELSE <<flow, Len(s)>>
    <3>1. /\ stack' = [stack EXCEPT ![flow] = Front(@) \o <<[Last(@) EXCEPT !.left = Last(s).left - 1]>>]
          /\ flag' = flag /\ open' = IF ByNmi(flow) THEN open ELSE <<flow, Len(s)>>
      BY <1>7, ZenonT(30) DEF WritePiece, Top, Here
    <3> QED
      BY <3>1, Zenon
  <2>2. x \in Frames /\ x.what = "line" /\ x.were = Last(s).were
    BY <1>1, <1>2, FrameSteps, Zenon
  <2> HIDE DEF x
  <2>3. /\ x.what = Last(s).what /\ x.what # "guard" /\ ~IsNmi(x) /\ ~IsNmi(Last(s))
        /\ (FoundOff(Last(s)) <=> FoundOff(x)) /\ (Inner(Last(s)) => Inner(x))
        /\ Owed(x) = {}
    BY <1>1, <2>2, Zenon DEF IsNmi, Inner, FoundOff, Owed
  <2> DEFINE t == Front(s) \o <<x>>
  <2> HIDE DEF s
  <2>4. Sound(flow, t, locked, open')
    BY <1>0, <1>1, <1>3, <2>1, <2>2, <2>3, StepKeeps, ZenonT(30)
  <2>5. /\ t \in Seq(Frames) /\ t # <<>> /\ \A i \in 1 .. Len(s) - 1 : t[i] = s[i]
        /\ t[Len(s)] = x
    <3>1. s \in Seq(Frames) /\ s # <<>> /\ x \in Frames
      BY <1>0, <1>1, <2>2, Zenon
    <3> QED
      BY <3>1, Replaced
  <2> HIDE DEF t
  <2>6. t[1] = IF Len(s) = 1 THEN x ELSE s[1]
    <3>1. \A n \in Nat \ {0} : n # 1 => 1 \in 1 .. n - 1
      OBVIOUS
    <3> QED
      BY <1>2, <2>5, <3>1, Zenon
  <2>7. Len(s) = 1 => Last(s) = s[1]
    BY <1>2, Zenon
  <2>8. pic.isr = DueIn(t)
    <3>1. Nested(t)
      BY <2>4, Zenon DEF Sound
    <3>2. DueIn(t) = Owed(t[1])
      BY <2>5, <3>1, OwedByTheFirst, Zenon
    <3> QED
      BY <1>0, <1>1, <1>6, <2>3, <2>6, <2>7, <3>2, Zenon
  <2>9. flow = "kernel" => KernelFrame(t[1])
    <3>1. flow = "kernel" => KernelFrame(s[1])
      BY <1>1, Zenon DEF IInv, Bottom, s
    <3>2. KernelFrame(Last(s)) => KernelFrame(x)
      BY <1>1, <2>2, <2>3, Zenon DEF KernelFrame
    <3> QED
      BY <2>6, <2>7, <3>1, <3>2, Zenon
  <2>10. stack' = [stack EXCEPT ![flow] = t] /\ stack'[flow] = t
    BY <1>0, <2>1, Zenon DEF t
  <2> QED
    BY <1>0, <1>1, <1>4, <1>5, <2>1, <2>4, <2>5, <2>8, <2>9, <2>10, Carried, Zenon
<1>8. CASE ~(Last(s).left > 1)
  <2>1. /\ stack' = [stack EXCEPT ![flow] = Front(@)] /\ flag' = (flag \/ Last(s).were)
        /\ open' = IF ByNmi(flow) THEN open ELSE <<>>
    BY <1>8, Zenon DEF WritePiece, Top, Pop
  <2>2. flag' \in BOOLEAN /\ (flag' => Last(s).were)
    BY <1>1, <1>2, <2>1, Zenon DEF LogLines
  <2>3. flag' => ~FoundOff(Last(s))
    BY <1>1, <2>2, Zenon DEF FoundOff
  <2>4. open' # <<>> => open' = open /\ Len(s) > 1 /\ IsNmi(s[Len(s) - 1])
    BY <1>3, <2>1, Zenon
  <2> QED
    BY <1>0, <1>1, <1>4, <1>5, <1>6, <2>1, <2>2, <2>3, <2>4, Returned, Zenon
<1> QED
  BY <1>7, <1>8, Zenon

\* A process's fault, or its call.
LEMMA TrapsKeep ==
  ASSUME InterruptsAssumption, IInv
  PROVE  Fault \/ Syscall => IInv'
<1>0. /\ flow \in Flows /\ stack \in [Flows -> Seq(Frames)] /\ flag \in BOOLEAN
      /\ locked \in [Locks -> BOOLEAN] /\ live \subseteq Processes
      /\ Sound(flow, stack[flow], locked, open)
      /\ pic \in Chips
      /\ pic.isr = IF stack[flow] = <<>> THEN {} ELSE Owed(stack[flow][1])
  BY Current, Zenon DEF IInv, Types
<1>1. ASSUME NEW x \in Frames, ~IsNmi(x), Owed(x) = {}, flow \in live, stack[flow] = <<>>,
             stack' = [stack EXCEPT ![flow] = Append(@, x)], flag' = FALSE,
             UNCHANGED <<flow, pic, Boot, live, locked, open, Unseen>>
      PROVE  IInv'
  <2>1. flow # "kernel"
    BY <1>0, <1>1, Zenon DEF InterruptsAssumption
  <2>2. stack' = [stack EXCEPT ![flow] = Append(stack[flow], x)]
    BY <1>1, Zenon
  <2> QED
    BY <1>0, <1>1, <2>1, <2>2, Entered, Zenon
<1>2. ASSUME Fault PROVE IInv'
  <2>1. "fault" \in Causes /\ "log" \in Steps
    BY Zenon DEF Causes, Steps
  <2>2. PICK x \in Frames : /\ x = Handler("fault", "log") /\ x.cause = "fault" /\ x.step = "log"
    <3>1. LET h == Handler("fault", "log")
          IN  h \in Frames /\ h.cause = "fault" /\ h.step = "log"
      <4>1. flag \in BOOLEAN
        BY <1>0, Zenon
      <4> QED
        BY <2>1, <4>1, NewFrames
    <3> QED
      BY <3>1, Zenon
  <2>3. ~IsNmi(x) /\ Owed(x) = {}
    BY <2>2, Zenon DEF IsNmi, Owed
  <2> QED
    BY <1>1, <1>2, <2>2, <2>3, Zenon DEF Fault, Push
<1>3. ASSUME Syscall PROVE IInv'
  <2>1. PICK x \in Frames : x = [what |-> "syscall"] /\ x.what = "syscall"
    BY <1>0, NewFrames, ZenonT(30)
  <2>2. ~IsNmi(x) /\ Owed(x) = {}
    BY <2>1, Zenon DEF IsNmi, Owed
  <2> QED
    BY <1>1, <1>3, <2>1, <2>2, Zenon DEF Syscall, Push
<1> QED
  BY <1>2, <1>3, Zenon

\* What is left again.
LEMMA ReturnsKeep ==
  ASSUME InterruptsAssumption, IInv
  PROVE  Iret \/ Unlock \/ SyscallReturns => IInv'
<1>0. /\ flow \in Flows /\ stack \in [Flows -> Seq(Frames)] /\ flag \in BOOLEAN
      /\ stack[flow] \in Seq(Frames) /\ (flag => stack[flow] = <<>>)
      /\ locked \in [Locks -> BOOLEAN]
  BY Current, Zenon DEF IInv, Types
<1>1. ASSUME stack[flow] # <<>> PROVE Last(stack[flow]) \in Frames
  BY <1>0, <1>1, Popped, Zenon
<1>2. ASSUME Iret PROVE IInv'
  <2>1. /\ stack[flow] # <<>> /\ Last(stack[flow]).what = "handler"
        /\ Last(stack[flow]).step = "return" /\ flag' = Last(stack[flow]).flag
        /\ stack' = [stack EXCEPT ![flow] = Front(@)]
        /\ UNCHANGED <<flow, pic, Boot, live, locked, open, Unseen>>
    BY <1>2, Zenon DEF Iret, In, Top, Pop
  <2>2. Last(stack[flow]) \in Handlers
    BY <1>1, <2>1, FrameFields, Zenon
  <2>3. flag' \in BOOLEAN
    BY <2>1, <2>2, Zenon DEF Handlers
  <2>4. flag' => ~FoundOff(Last(stack[flow]))
    BY <2>1, Zenon DEF FoundOff
  <2>5. Owed(Last(stack[flow])) = {}
    BY <2>1, Zenon DEF Owed
  <2> QED
    BY <1>0, <2>1, <2>3, <2>4, <2>5, Returned, Zenon
<1>3. ASSUME Unlock PROVE IInv'
  <2>1. /\ stack[flow] # <<>> /\ Last(stack[flow]).what = "guard"
        /\ flag' = (flag \/ Last(stack[flow]).were)
        /\ locked' = [locked EXCEPT ![Last(stack[flow]).lock] = FALSE]
        /\ stack' = [stack EXCEPT ![flow] = Front(@)]
        /\ UNCHANGED <<flow, pic, Boot, live, open, Unseen>>
    BY <1>3, Zenon DEF Unlock, In, Top, Pop, released_flag
  <2>2. Last(stack[flow]) \in Guards
    BY <1>1, <2>1, FrameFields, Zenon
  <2>3. flag' \in BOOLEAN /\ (flag' => Last(stack[flow]).were)
    BY <1>0, <2>1, <2>2, Zenon DEF Guards
  <2>4. flag' => ~FoundOff(Last(stack[flow]))
    BY <2>1, <2>3, Zenon DEF FoundOff
  <2>5. Owed(Last(stack[flow])) = {}
    BY <2>1, Zenon DEF Owed
  <2>6. /\ locked' \in [Locks -> BOOLEAN]
        /\ \A l \in Locks : locked'[l] => locked[l] /\ l # Last(stack[flow]).lock
    BY <1>0, <2>1, Zenon
  <2> QED
    BY <2>1, <2>3, <2>4, <2>5, <2>6, Returned, Zenon
<1>4. ASSUME SyscallReturns PROVE IInv'
  <2>1. /\ stack[flow] # <<>> /\ Last(stack[flow]).what = "syscall" /\ flag' = TRUE
        /\ stack' = [stack EXCEPT ![flow] = Front(@)]
        /\ UNCHANGED <<flow, pic, Boot, live, locked, open, Unseen>>
    BY <1>4, Zenon DEF SyscallReturns, In, Top, Pop
  <2>2. ~FoundOff(Last(stack[flow])) /\ Owed(Last(stack[flow])) = {}
    BY <2>1, Zenon DEF FoundOff, Owed
  <2> QED
    BY <1>0, <2>1, <2>2, Returned, Zenon
<1> QED
  BY <1>2, <1>3, <1>4, Zenon

\* The log and the lock.
LEMMA LogAndLockKeep ==
  ASSUME InterruptsAssumption, IInv
  PROVE  /\ Log => IInv'
         /\ \A l \in Locks : TakeLock(l) => IInv'
<1>0. /\ flow \in Flows /\ stack \in [Flows -> Seq(Frames)] /\ flag \in BOOLEAN
      /\ Sound(flow, stack[flow], locked, open) /\ (flag => stack[flow] = <<>>)
      /\ pic \in Chips
      /\ locked \in [Locks -> BOOLEAN]
      /\ pic.isr = IF stack[flow] = <<>> THEN {} ELSE Owed(stack[flow][1])
  BY Current, Zenon DEF IInv, Types
<1>1. ASSUME InKernel(flow)
      PROVE  stack[flow] # <<>> => Last(stack[flow]).what # "line" /\ ~IsNmi(Last(stack[flow]))
  BY <1>1, Zenon DEF InKernel, In, Top, IsNmi
<1>2. ASSUME NEW x \in Frames, x.what \in {"line", "guard"}, x.were = flag
      PROVE  /\ ~IsNmi(x) /\ Owed(x) = {}
             /\ stack[flow] # <<>> => Inner(x)
             /\ flow = "kernel" =>
                  IF stack[flow] = <<>> THEN KernelFrame(x) ELSE KernelFrame(stack[flow][1])
  <2>1. ~IsNmi(x) /\ Owed(x) = {} /\ (~flag => FoundOff(x) /\ Inner(x))
    BY <1>2, Zenon DEF IsNmi, Owed, FoundOff, Inner
  <2>2. KernelFrame(x)
    BY <1>2, <2>1, Zenon DEF KernelFrame, IInv, Bottom
  <2>3. flow = "kernel" /\ stack[flow] # <<>> => KernelFrame(stack[flow][1])
    BY Zenon DEF IInv, Bottom
  <2> QED
    BY <1>0, <2>1, <2>2, <2>3, Zenon
<1>3. ASSUME Log PROVE IInv'
  <2>1. /\ stack' = [stack EXCEPT ![flow] = Append(stack[flow], LogLine)] /\ flag' = FALSE
        /\ InKernel(flow) /\ UNCHANGED <<flow, pic, Boot, live, locked, open, Unseen>>
    BY <1>3, Zenon DEF Log, StartLine
  <2>2. PICK x \in Frames : x = LogLine /\ x.what = "line" /\ x.were = flag
    BY <1>0, NewFrames, Zenon DEF InterruptsAssumption
  <2> QED
    BY <1>0, <1>1, <1>2, <2>1, <2>2, Entered, Zenon
<1>4. ASSUME NEW l \in Locks, TakeLock(l) PROVE IInv'
  <2>1. ~locked[l]
    BY <1>0, <1>4, Zenon DEF TakeLock, Held, Sound, HeldIn
  <2>2. PICK x \in Frames : /\ x = [what |-> "guard", lock |-> l, were |-> flag]
                            /\ x.what = "guard" /\ x.lock = l /\ x.were = flag
    <3>1. LET g == [what |-> "guard", lock |-> l, were |-> flag]
          IN  g \in Frames /\ g.what = "guard" /\ g.lock = l /\ g.were = flag
      BY <1>0, NewFrames, Zenon
    <3> QED
      BY <3>1, Zenon
  <2>3. /\ stack' = [stack EXCEPT ![flow] = Append(stack[flow], x)] /\ flag' = FALSE
        /\ InKernel(flow) /\ locked' = [locked EXCEPT ![l] = TRUE]
        /\ UNCHANGED <<flow, pic, Boot, live, open, Unseen>>
    BY <1>4, <2>1, <2>2, Zenon DEF TakeLock, Lock, Boot, Unseen
  <2>4. /\ locked' \in [Locks -> BOOLEAN]
        /\ \A m \in Locks : locked'[m] => locked[m] \/ (x.what = "guard" /\ x.lock = m)
    BY <1>0, <2>2, <2>3, Zenon
  <2> QED
    BY <1>0, <1>1, <1>2, <2>2, <2>3, <2>4, Entered, Zenon
<1> QED
  BY <1>3, <1>4, Zenon

\* The devices and the CPU.
LEMMA DevicesKeep ==
  ASSUME InterruptsAssumption, IInv
  PROVE  /\ TimerRaises \/ KeyboardRaises => IInv'
         /\ \A line \in Lines : Deliver(line) => IInv'
         /\ Nmi \/ Spurious => IInv'
<1>0. /\ flow \in Flows /\ stack \in [Flows -> Seq(Frames)] /\ flag \in BOOLEAN
      /\ Sound(flow, stack[flow], locked, open) /\ (flag => stack[flow] = <<>>)
      /\ pic \in Chips
      /\ locked \in [Locks -> BOOLEAN]
      /\ pic.isr = DueIn(stack[flow])
      /\ pic.isr = IF stack[flow] = <<>> THEN {} ELSE Owed(stack[flow][1])
  BY Current, Zenon DEF IInv, Types
<1>1. ASSUME NEW line \in Lines, NEW r, pic' = [pic EXCEPT !.irr = r], r \in SUBSET Lines,
             UNCHANGED <<flag, flow, stack, Boot, live, locked, open, Unseen>>
      PROVE  IInv'
  <2>1. /\ pic' \in Chips
        /\ pic'.remapped = pic.remapped /\ pic'.isr = pic.isr
    BY <1>0, <1>1, Zenon
  <2>2. Types' /\ Stacks' /\ Reached' /\ Bottom'
    BY <1>1, <2>1, Zenon DEF IInv, Types, Stacks, Reached, Bottom, KernelFrame, Boot
  <2>3. Due(flow)' = Due(flow)
    BY <1>1, Zenon DEF Due
  <2> QED
    BY <1>1, <2>1, <2>2, <2>3, Zenon DEF IInv, Unseen
<1>2. ASSUME TimerRaises \/ KeyboardRaises PROVE IInv'
  <2>1. PICK line \in Lines : /\ pic' = [pic EXCEPT !.irr = @ \union {line}]
                              /\ UNCHANGED <<flag, flow, stack, Boot, live, locked, open, Unseen>>
    BY <1>2, Zenon DEF TimerRaises, KeyboardRaises, Raise, Lines, Boot, Unseen
  <2>2. pic.irr \union {line} \in SUBSET Lines
    BY <1>0, Zenon
  <2> QED
    BY <1>1, <2>1, <2>2, Zenon
<1>3. ASSUME NEW line \in Lines, Deliver(line) PROVE IInv'
  <2>1. CASE idt = "firmware"
    <3>1. /\ pic' = [pic EXCEPT !.irr = @ \ {line}]
          /\ UNCHANGED <<flag, flow, stack, Boot, live, locked, open, Unseen>>
      BY <1>3, <2>1, Zenon DEF Deliver, Boot, Unseen
    <3>2. pic.irr \ {line} \in SUBSET Lines
      BY <1>0, Zenon
    <3> QED
      BY <1>1, <3>1, <3>2, Zenon
  <2>2. CASE idt # "firmware"
    <3> DEFINE x == Handler(Cause(line), "answer")
    <3>1. /\ pic' = [pic EXCEPT !.irr = @ \ {line}, !.isr = @ \union {line}]
          /\ stack' = [stack EXCEPT ![flow] = Append(@, x)] /\ flag' = FALSE
          /\ astray' = (astray \/ ~pic.remapped \/ idt # home)
          /\ UNCHANGED <<flow, Boot, live, locked, open, spoiled, panicked>> /\ flag
      BY <1>3, <2>2, Zenon DEF Deliver, Push, Boot
    <3>2. stack[flow] = <<>> /\ pic.isr = {}
      BY <1>0, <3>1, Zenon
    <3>3. stage \notin Quiet \cup {"mask_all", "init"}
      BY <2>2, <3>1, Zenon DEF IInv, Bottom, Reached
    <3>4. astray' = astray
      <4>1. pic.remapped /\ idt = home
        BY <3>3, Zenon DEF IInv, Reached, Quiet
      <4> QED
        BY <3>1, <4>1, Zenon DEF IInv
    <3>5. /\ x \in Frames /\ x.what = "handler" /\ x.cause = Cause(line)
          /\ x.step = "answer" /\ x.flag = flag
      <4>1. Cause(line) \in Causes /\ "answer" \in Steps
        BY Zenon DEF Cause, Causes, Steps
      <4> QED
        BY <1>0, <4>1, NewFrames
    <3> HIDE DEF x
    <3>6. Owed(x) = {line}
      BY <3>5, Zenon DEF Owed, Cause, Lines, TIMER, KEYBOARD
    <3>7. ~IsNmi(x) /\ KernelFrame(x)
      BY <3>3, <3>5, Zenon DEF IsNmi, KernelFrame, Cause
    <3>8. /\ pic' \in Chips
          /\ pic'.remapped = pic.remapped /\ pic'.isr = {line}
      BY <1>0, <3>1, <3>2, Zenon
    <3>9. stack' = [stack EXCEPT ![flow] = Append(stack[flow], x)]
      BY <3>1, Zenon
    <3> QED
      BY <1>0, <3>1, <3>2, <3>4, <3>5, <3>6, <3>7, <3>8, <3>9, Entered, Zenon DEF Unseen
  <2> QED
    BY <2>1, <2>2, Zenon
<1>4. ASSUME Nmi PROVE IInv'
  <2> DEFINE x == Handler("nmi", "log")
  <2>1. /\ stack' = [stack EXCEPT ![flow] = Append(stack[flow], x)] /\ flag' = FALSE
        /\ \A f \in Flows : \A i \in DOMAIN stack[f] :
                stack[f][i].what = "handler" => stack[f][i].cause # "nmi"
        /\ UNCHANGED <<flow, pic, Boot, live, locked, open, Unseen>>
    BY <1>4, Zenon DEF Nmi, Push
  <2>2. x \in Frames /\ x.what = "handler" /\ x.cause = "nmi" /\ x.step = "log" /\ x.flag = flag
    <3>1. "nmi" \in Causes /\ "log" \in Steps
      BY Zenon DEF Causes, Steps
    <3> QED
      BY <1>0, <3>1, NewFrames
  <2> HIDE DEF x
  <2>3. IsNmi(x) /\ Owed(x) = {} /\ (~flag => FoundOff(x) /\ Inner(x))
    BY <2>2, Zenon DEF IsNmi, Owed, FoundOff, Inner
  <2>4. \A i \in DOMAIN stack[flow] : ~IsNmi(stack[flow][i])
    BY <1>0, <2>1, Zenon DEF IsNmi
  <2>5. stack[flow] # <<>> => ~IsNmi(Last(stack[flow]))
    <3> DEFINE s == stack[flow]
    <3>1. s \in Seq(Frames)
      BY <1>0, Zenon
    <3> HIDE DEF s
    <3>2. s # <<>> => Len(s) \in DOMAIN s /\ Last(s) = s[Len(s)]
      <4>1. \A n \in Nat \ {0} : n \in 1 .. n
        OBVIOUS
      <4> QED
        BY <3>1, <4>1, Popped, Zenon
    <3> QED
      BY <2>4, <3>2, Zenon DEF s
  <2>6. flow = "kernel" => IF stack[flow] = <<>> THEN KernelFrame(x) ELSE KernelFrame(stack[flow][1])
    BY <2>2, <2>3, Zenon DEF KernelFrame, IInv, Bottom
  <2> QED
    BY <1>0, <2>1, <2>2, <2>3, <2>4, <2>5, <2>6, Entered, Zenon
<1>5. ASSUME Spurious PROVE IInv'
  <2> DEFINE x == Handler("spurious", "return")
  <2>1. /\ stack' = [stack EXCEPT ![flow] = Append(stack[flow], x)] /\ flag' = FALSE /\ flag
        /\ UNCHANGED <<flow, pic, Boot, live, locked, open, Unseen>>
    BY <1>5, Zenon DEF Spurious, Push
  <2>2. /\ x \in Frames /\ x.what = "handler" /\ x.cause = "spurious" /\ x.step = "return"
        /\ x.flag = flag
    <3>1. "spurious" \in Causes /\ "return" \in Steps
      BY Zenon DEF Causes, Steps
    <3> QED
      BY <1>0, <3>1, NewFrames
  <2> HIDE DEF x
  <2>3. ~IsNmi(x) /\ Owed(x) = {}
    BY <2>2, Zenon DEF IsNmi, Owed
  <2>4. stack[flow] = <<>> /\ pic.isr = {} /\ KernelFrame(x)
    BY <1>0, <2>1, <2>2, Zenon DEF KernelFrame, IInv, Bottom
  <2> QED
    BY <1>0, <2>1, <2>2, <2>3, <2>4, Entered, ZenonT(30)
<1> QED
  BY <1>2, <1>3, <1>4, <1>5, Zenon

-----------------------------------------------------------------------------
(* The theorems.                                                           *)

\* The invariant holds from the loader's jump on.
LEMMA IInvHolds ==
  ASSUME InterruptsAssumption
  PROVE  Spec => []IInv
<1>1. Init => IInv
  <2> SUFFICES ASSUME Init PROVE IInv
    BY Zenon
  <2>1. Entry \in Frames /\ Entry.what = "handler" /\ Entry.step = "return"
    BY Zenon DEF Entry, Frames, Handlers, Causes, Steps
  <2>2. flow = "kernel" /\ "kernel" \in Flows /\ stack["kernel"] = <<>>
    BY Zenon DEF Init, Flows
  <2>3. \A f \in Flows \ {"kernel"} : stack[f] = <<Entry>>
    BY Zenon DEF Init
  <2>4. <<>> \in Seq(Frames) /\ <<Entry>> \in Seq(Frames) /\ <<Entry>> # <<>>
        /\ Len(<<Entry>>) = 1 /\ <<Entry>>[1] = Entry
    BY <2>1
  <2>5. Types
    <3>1. stack \in [Flows -> Seq(Frames)]
      BY <2>4, Zenon DEF Init
    <3>2. pic \in Chips
      BY Zenon DEF Init
    <3> QED
      BY <2>2, <3>1, <3>2, Zenon DEF Init, Types, Stages
  <2>6. Parked(<<>>) /\ Parked(<<Entry>>)
    BY <2>1, <2>4, Zenon DEF Parked
  <2>7. (\A l \in Locks : ~locked[l]) /\ open = <<>> /\ pic.isr = {}
    BY Zenon DEF Init
  <2>8. Sound("kernel", <<>>, locked, <<>>) /\ DueIn(<<>>) = {}
    BY <2>4, <2>6, <2>7, ParkedIsSound, Zenon
  <2>9. Stacks
    BY <2>2, <2>3, <2>6, <2>7, <2>8, Zenon DEF Stacks
  <2>10. Reached /\ Bottom
    BY <2>2, Zenon DEF Init, Reached, Bottom, Quiet
  <2>11. Due(flow) = {}
    BY <2>2, <2>8 DEF Due, DueIn
  <2> QED
    BY <2>5, <2>7, <2>9, <2>10, <2>11, Zenon DEF IInv, Init
<1>2. IInv /\ [Next]_vars => IInv'
  <2> SUFFICES ASSUME IInv, [Next]_vars PROVE IInv'
    BY Zenon
  <2>1. CASE UNCHANGED vars
    <3>1. UNCHANGED <<flag, flow, stack, pic, idt, home, stage, live, locked, console, open,
                      spoiled, panicked, astray>>
      BY <2>1, Zenon DEF vars
    <3>2. Types' /\ Stacks' /\ Reached' /\ Bottom'
      BY <3>1, ZenonT(30) DEF IInv, Types, Stacks, Reached, Bottom, KernelFrame
    <3>3. Due(flow)' = Due(flow)
      BY <3>1, Zenon DEF Due
    <3> QED
      BY <3>1, <3>2, <3>3, Zenon DEF IInv
  <2>2. CASE TimerRaises \/ KeyboardRaises \/ Nmi \/ Spurious \/ \E line \in Lines : Deliver(line)
    BY <2>2, DevicesKeep, Zenon
  <2>3. CASE Log \/ \E l \in Locks : TakeLock(l)
    BY <2>3, LogAndLockKeep, Zenon
  <2>4. CASE Iret \/ Unlock \/ SyscallReturns
    BY <2>4, ReturnsKeep, Zenon
  <2>5. CASE WritePiece
    BY <2>5, PieceKeeps, Zenon
  <2>6. CASE TimerAnswers \/ TimerLogs \/ KeyboardAnswers \/ HandlerLogs \/ FaultLogs \/ FaultRecords
    BY <2>6, HandlersKeep, Zenon
  <2>7. CASE Fault \/ Syscall
    BY <2>7, TrapsKeep, Zenon
  <2>8. CASE \E g \in Flows : TickHandler(g) \/ FaultEnds(g) \/ Yield(g) \/ Exit(g) \/ RunFirst(g)
    BY <2>8, SwitchesKeep, Zenon
  <2>9. CASE \/ MaskAll \/ InterruptsInit \/ InitTimer
             \/ \E answers \in BOOLEAN : InitKeyboard(answers)
             \/ Enable \/ StartMove \/ StayLow \/ Jump \/ ReinstallDescriptors \/ EnableAgain
             \/ Adopt \/ IntoTheShell \/ Take
    BY <2>9, StagesKeep, Zenon
  <2>10. CASE Waits
    BY <2>1, <2>10, Zenon DEF Waits
  <2> QED
    BY <2>1, <2>2, <2>3, <2>4, <2>5, <2>6, <2>7, <2>8, <2>9, <2>10, Zenon DEF Next
<1> QED
  BY <1>1, <1>2, PTL DEF Spec

\* Whatever is done with interrupts off is done undisturbed: as long as no code
\* takes a lock it holds itself, no handler and no process finds one taken
\* (`IrqLock::lock` never panics), its holder has the CPU with interrupts off,
\* no line of the log falls into another but an NMI's, and once the kernel's
\* shell has the console no process runs.
THEOREM Undisturbed ==
  ASSUME InterruptsAssumption
  PROVE  Spec => []NothingIsInterruptedInside
<1>1. IInv => NothingIsInterruptedInside
  <2> SUFFICES ASSUME IInv PROVE NothingIsInterruptedInside
    BY Zenon
  <2>1. \A f \in Flows \ {flow} : Parked(stack[f]) /\ stack[f] \in Seq(Frames)
    BY Zenon DEF IInv, Types, Stacks
  <2>2. \A f \in Flows \ {flow} : Held(f) = {}
    <3>1. SUFFICES ASSUME NEW f \in Flows \ {flow} PROVE Held(f) = {}
      BY Zenon
    <3>2. HeldIn(stack[f]) = {}
      <4>1. PICK none : \A l \in Locks : ~none[l]
        <5>1. \A l \in Locks : ~([m \in Locks |-> FALSE][l])
          BY Zenon
        <5> QED
          BY <5>1, Zenon
      <4> QED
        BY <2>1, <4>1, ParkedIsSound, Zenon
    <3> QED
      BY <3>2, Zenon DEF Held, HeldIn
  <2>3. flag => Held(flow) = {}
    <3>1. stack[flow] = <<>> => DOMAIN stack[flow] = {}
      BY EmptySeq
    <3> QED
      BY <3>1, Current, Zenon DEF Held
  <2>4. console = "shell" => live = {}
    BY Zenon DEF IInv, Reached
  <2> QED
    BY <2>2, <2>3, <2>4, Zenon DEF NothingIsInterruptedInside, IInv
<1> QED
  BY <1>1, IInvHolds, PTL

\* Every interrupt is answered: it comes through a table that names the kernel
\* where it runs and a controller set up for it, its own handler acknowledges
\* it once before another flow runs, and nothing is in service where interrupts
\* are on.
THEOREM Answered ==
  ASSUME InterruptsAssumption
  PROVE  Spec => []EveryInterruptIsAnswered
<1>1. IInv => EveryInterruptIsAnswered
  <2> SUFFICES ASSUME IInv PROVE EveryInterruptIsAnswered
    BY Zenon
  <2>1. \A f \in Flows \ {flow} : Parked(stack[f]) /\ stack[f] \in Seq(Frames)
    BY Zenon DEF IInv, Types, Stacks
  <2>2. \A f \in Flows \ {flow} : Due(f) = {}
    <3>1. SUFFICES ASSUME NEW f \in Flows \ {flow} PROVE Due(f) = {}
      BY Zenon
    <3>2. DueIn(stack[f]) = {}
      <4>1. PICK none : \A l \in Locks : ~none[l]
        <5>1. \A l \in Locks : ~([m \in Locks |-> FALSE][l])
          BY Zenon
        <5> QED
          BY <5>1, Zenon
      <4> QED
        BY <2>1, <4>1, ParkedIsSound, Zenon
    <3> QED
      BY <3>2, Zenon DEF Due, DueIn
  <2>3. flag => pic.isr = {}
    BY Current, Nothing, Zenon
  <2> QED
    BY <2>2, <2>3, Zenon DEF EveryInterruptIsAnswered, IInv
<1> QED
  BY <1>1, IInvHolds, PTL
=============================================================================
