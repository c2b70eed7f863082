----------------------------- MODULE Interrupts -----------------------------
(***************************************************************************)
(* Who may interrupt whom: the interrupt flag, the 8259, the descriptor    *)
(* table (arch/x86_64/src/interrupts.rs, pic.rs), and what relies on the   *)
(* flag being off: the kernel's lock (kernel/src/sync.rs), its log         *)
(* (kernel/src/klog.rs) and the console's owner (kernel/src/console.rs).   *)
(*                                                                         *)
(* One CPU runs one flow of control at a time: the kernel's, or that of a  *)
(* process.  `stack[f]` is what flow f is in the middle of, innermost      *)
(* last: an interrupt handler, a syscall, a critical section, a line of    *)
(* the log.  With nothing on its stack the kernel runs its own code, and a *)
(* process is in ring 3.                                                   *)
(***************************************************************************)
EXTENDS Integers, Sequences, FiniteSets

CONSTANTS
    Processes,  \* the processes' flows
    Locks,      \* the kernel's locks, "CONSOLE" and "RING" among them
    LINE,       \* the pieces a line of the log is written in
    LOG_EVERY,  \* the timer logs one tick in so many (100)
    MaxTicks, MaxKeys, MaxNmis,     \* bounds on what the devices raise
    MaxDepth,   \* bound on what one flow is in the middle of
    MaxOps      \* bound on the critical sections and lines entered

\* What the constants have to be: the kernel's flow is no process's, and the
\* locks the handlers and the console take are among the locks.
InterruptsAssumption ==
    "kernel" \notin Processes /\ {"CONSOLE", "RING"} \subseteq Locks /\ LINE \in Nat

VARIABLES
    flag,       \* IF: whether interrupts are on
    flow,       \* who has the CPU
    stack,      \* of each flow
    pic,        \* [remapped, mask, irr, isr]
    idt,        \* whose table the IDTR names: the firmware's, or the image's
    home,       \* at the address the image is run from: "low" or "high"
    stage,      \* how far the kernel's own code is
    live,       \* the processes that still run
    locked,     \* each lock's flag
    console,    \* "context" until it is adopted, then "module", then "shell"
    open,       \* the line that is partly out, if any
    raised,     \* how often each source has asked
    ticks, ops,
    spoiled, panicked, astray   \* something that must not happen has

vars == <<flag, flow, stack, pic, idt, home, stage, live, locked, console, open,
          raised, ticks, ops, spoiled, panicked, astray>>

TIMER == 0
KEYBOARD == 1
Lines == {TIMER, KEYBOARD}
Flows == {"kernel"} \union Processes

\* The innermost of a stack, and what is around it.
Last(s) == s[Len(s)]
Front(s) == SubSeq(s, 1, Len(s) - 1)

Top(f) == Last(stack[f])
In(f, what) == stack[f] # <<>> /\ Top(f).what = what
Push(f, frame) == stack' = [stack EXCEPT ![f] = Append(@, frame)]
Pop(f) == stack' = [stack EXCEPT ![f] = Front(@)]

\* A handler entered through an interrupt gate: the gate clears the flag, and
\* `iretq` puts the saved one back.
Handler(cause, step) == [what |-> "handler", cause |-> cause, step |-> step, flag |-> flag]
At(f, cause, step) == In(f, "handler") /\ Top(f).cause = cause /\ Top(f).step = step
NextStep(f, step) == [stack EXCEPT ![f] = Front(@) \o <<[Last(@) EXCEPT !.step = step]>>]

\* A process that has not run yet: `user::enter` leaves by an `iretq` too.
Entry == [what |-> "handler", cause |-> "entry", step |-> "return", flag |-> TRUE]

Init ==
    /\ flag \in BOOLEAN
    /\ flow = "kernel"
    /\ stack = [f \in Flows |-> IF f = "kernel" THEN <<>> ELSE <<Entry>>]
    /\ pic = [remapped |-> FALSE, mask |-> {}, irr |-> {}, isr |-> {}]
    /\ idt = "firmware" /\ home = "low" /\ stage = "mask_all"
    /\ live = Processes
    /\ locked = [l \in Locks |-> FALSE]
    /\ console = "context"
    /\ open = <<>>
    /\ raised = [timer |-> 0, keyboard |-> 0, nmi |-> 0]
    /\ ticks = 0 /\ ops = 0
    /\ spoiled = FALSE /\ panicked = FALSE /\ astray = FALSE

Unseen == <<spoiled, panicked, astray>>
Boot == <<idt, home, stage, console>>

-----------------------------------------------------------------------------
(* The devices and the CPU's own part.                                     *)

Raise(line, name, most) ==
    /\ raised[name] < most
    /\ raised' = [raised EXCEPT ![name] = @ + 1]
    /\ pic' = [pic EXCEPT !.irr = @ \union {line}]
    /\ UNCHANGED <<flag, flow, stack, Boot, live, locked, open, ticks, ops, Unseen>>

TimerRaises == Raise(TIMER, "timer", MaxTicks)
KeyboardRaises == Raise(KEYBOARD, "keyboard", MaxKeys)

\* The lowest line asked for that is not masked, unless it or a lower one is
\* still in service.
Offered(line) ==
    /\ line \in pic.irr \ pic.mask
    /\ \A other \in pic.isr \union (pic.irr \ (pic.mask \union {line})) : line < other

Cause(line) == IF line = TIMER THEN "timer" ELSE "keyboard"

\* The firmware answers what comes while the table is its own.
Deliver(line) ==
    /\ flag /\ Offered(line)
    /\ IF idt = "firmware"
       THEN /\ pic' = [pic EXCEPT !.irr = @ \ {line}]
            /\ UNCHANGED <<flag, stack, astray>>
       ELSE /\ pic' = [pic EXCEPT !.irr = @ \ {line}, !.isr = @ \union {line}]
            /\ Push(flow, Handler(Cause(line), "answer"))
            /\ flag' = FALSE
            /\ astray' = (astray \/ ~pic.remapped \/ idt # home)
    /\ UNCHANGED <<flow, Boot, live, locked, open, raised, ticks, ops, spoiled, panicked>>

\* The one interrupt the flag does not hold back; the CPU holds back the next
\* until the handler has returned.
Nmi ==
    /\ idt # "firmware" /\ raised.nmi < MaxNmis
    /\ \A f \in Flows : \A i \in DOMAIN stack[f] :
            stack[f][i].what = "handler" => stack[f][i].cause # "nmi"
    /\ raised' = [raised EXCEPT !.nmi = @ + 1]
    /\ Push(flow, Handler("nmi", "log"))
    /\ flag' = FALSE
    /\ UNCHANGED <<flow, pic, Boot, live, locked, open, ticks, ops, Unseen>>

\* The request went away before it was acknowledged: line 7's vector, with
\* nothing in service, and a stub that answers nothing.
Spurious ==
    /\ flag /\ idt # "firmware" /\ ops < MaxOps
    /\ ops' = ops + 1
    /\ Push(flow, Handler("spurious", "return"))
    /\ flag' = FALSE
    /\ UNCHANGED <<flow, pic, Boot, live, locked, open, raised, ticks, Unseen>>

mask_all == [pic EXCEPT !.mask = Lines]

\* The first word empties the mask and what was asked for; the last masks
\* everything again.
remap == [remapped |-> TRUE, mask |-> Lines, irr |-> {}, isr |-> {}]

unmask(chip, line) == [chip EXCEPT !.mask = @ \ {line}]

\* A non-specific end of interrupt: the lowest line in service.
send_eoi == [pic EXCEPT !.isr = {line \in @ : \E lower \in @ : lower < line}]

Iret ==
    /\ In(flow, "handler") /\ Top(flow).step = "return"
    /\ flag' = Top(flow).flag
    /\ Pop(flow)
    /\ UNCHANGED <<flow, pic, Boot, live, locked, open, raised, ticks, ops, Unseen>>

-----------------------------------------------------------------------------
(* The log, and the lock.                                                  *)

LogLine == [what |-> "line", left |-> LINE, were |-> flag]

\* `sink`, with interrupts off; `top` is what the flow goes on with once the
\* line is out.
StartLine(top) ==
    /\ stack' = [top EXCEPT ![flow] = Append(@, LogLine)]
    /\ flag' = FALSE
    /\ UNCHANGED <<flow, pic, Boot, live, locked, open, raised, ticks, Unseen>>

\* Whether the kernel's code is what runs in this flow: not a process's, and
\* not a handler's or a line's.
InKernel(f) ==
    \/ f = "kernel" /\ stack[f] = <<>> /\ stage # "processes"
    \/ In(f, "syscall") \/ In(f, "guard")

Log ==
    /\ InKernel(flow) /\ ops < MaxOps /\ Len(stack[flow]) < MaxDepth
    /\ StartLine(stack)
    /\ ops' = ops + 1

\* Whether the line flow f writes is an NMI's.
ByNmi(f) ==
    /\ Len(stack[f]) > 1
    /\ stack[f][Len(stack[f]) - 1].what = "handler"
    /\ stack[f][Len(stack[f]) - 1].cause = "nmi"

Here(f) == <<f, Len(stack[f])>>

\* One piece more.  The flag comes back with the last if it was on before.
\* An NMI's line, which nothing can hold back, may fall inside another.
WritePiece ==
    /\ In(flow, "line")
    /\ spoiled' = (spoiled \/ (~ByNmi(flow) /\ open \notin {<<>>, Here(flow)}))
    /\ IF Top(flow).left > 1
       THEN /\ stack' = [stack EXCEPT ![flow] = Front(@) \o <<[Last(@) EXCEPT !.left = Top(flow).left - 1]>>]
            /\ flag' = flag
       ELSE /\ Pop(flow)
            /\ flag' = (flag \/ Top(flow).were)
    /\ open' = IF ByNmi(flow) THEN open ELSE IF Top(flow).left > 1 THEN Here(flow) ELSE <<>>
    /\ UNCHANGED <<flow, pic, Boot, live, locked, raised, ticks, ops, panicked, astray>>

\* `IrqLock::lock`.  Taken again, it panics, with interrupts as they were.
Lock(l, top) ==
    /\ IF locked[l]
       THEN /\ panicked' = TRUE
            /\ UNCHANGED <<flag, stack, locked>>
       ELSE /\ panicked' = panicked
            /\ flag' = FALSE
            /\ locked' = [locked EXCEPT ![l] = TRUE]
            /\ stack' = [top EXCEPT ![flow] =
                            Append(@, [what |-> "guard", lock |-> l, were |-> flag])]
    /\ UNCHANGED <<flow, pic, idt, home, live, open, raised, ticks, spoiled, astray>>

\* That no code takes a lock inside its own critical section is an assumption
\* about the users of the lock: a flow may take any that it does not hold
\* itself, whoever else it has interrupted.
Held(f) == {stack[f][i].lock : i \in {i \in DOMAIN stack[f] : stack[f][i].what = "guard"}}

TakeLock(l) ==
    /\ InKernel(flow) /\ l \notin Held(flow)
    /\ ops < MaxOps /\ Len(stack[flow]) < MaxDepth
    /\ Lock(l, stack)
    /\ ops' = ops + 1
    /\ UNCHANGED <<stage, console>>

\* Mutant: a guard turns interrupts on whatever they were.
released_flag_on(were) == TRUE

\* Interrupts once a guard that found them `were` is gone.
released_flag(were) == flag \/ were

\* The guard is dropped.
Unlock ==
    /\ In(flow, "guard")
    /\ locked' = [locked EXCEPT ![Top(flow).lock] = FALSE]
    /\ flag' = released_flag(Top(flow).were)
    /\ Pop(flow)
    /\ UNCHANGED <<flow, pic, Boot, live, open, raised, ticks, ops, Unseen>>

-----------------------------------------------------------------------------
(* Who gets the CPU.                                                       *)

\* To another process, or, with none left, back to the kernel; `top` is what
\* the stacks are left as.
SwitchTo(g, top, left) ==
    /\ g \in left \/ (left = {} /\ g = "kernel")
    /\ flow' = g
    /\ stack' = top
    /\ live' = left
    /\ stage' = IF g = "kernel" THEN "into_the_shell" ELSE stage

\* A process ends, by `exit` or of a fault.
End(g) ==
    /\ SwitchTo(g, [stack EXCEPT ![flow] = <<>>], live \ {flow})
    /\ UNCHANGED <<flag, pic, idt, home, console, locked, open, raised, ticks, ops, Unseen>>

-----------------------------------------------------------------------------
(* The handlers.                                                           *)

\* Mutant: the tick is counted and not acknowledged.
TimerAnswers_without_eoi ==
    /\ At(flow, "timer", "answer")
    /\ ticks' = ticks + 1
    /\ stack' = NextStep(flow, "log")
    /\ UNCHANGED <<flag, flow, pic, Boot, live, locked, open, raised, ops, Unseen>>

TimerAnswers ==
    /\ At(flow, "timer", "answer")
    /\ ticks' = ticks + 1
    /\ pic' = send_eoi
    /\ stack' = NextStep(flow, "log")
    /\ UNCHANGED <<flag, flow, Boot, live, locked, open, raised, ops, Unseen>>

TimerLogs ==
    /\ At(flow, "timer", "log")
    /\ IF ticks % LOG_EVERY = 0
       THEN StartLine(NextStep(flow, "tick")) /\ ops' = ops
       ELSE /\ stack' = NextStep(flow, "tick")
            /\ UNCHANGED <<flag, flow, pic, Boot, live, locked, open, raised, ticks, ops, Unseen>>

\* The handler that was set, if one was: it may give the CPU away, if it took
\* it from a process.
TickHandler(g) ==
    /\ At(flow, "timer", "tick")
    /\ IF flow \in live
       THEN SwitchTo(g, NextStep(flow, "return"), live)
       ELSE g = flow /\ stack' = NextStep(flow, "return") /\ UNCHANGED <<flow, live, stage>>
    /\ UNCHANGED <<flag, pic, idt, home, console, locked, open, raised, ticks, ops, Unseen>>

\* The byte is taken in and then the line acknowledged.
KeyboardAnswers ==
    /\ At(flow, "keyboard", "answer")
    /\ pic' = send_eoi
    /\ stack' = NextStep(flow, "return")
    /\ UNCHANGED <<flag, flow, Boot, live, locked, open, raised, ticks, ops, Unseen>>

\* An NMI is logged and no more, and so is the kernel's own breakpoint.
HandlerLogs ==
    /\ At(flow, "nmi", "log") \/ At(flow, "breakpoint", "log")
    /\ StartLine(NextStep(flow, "return"))
    /\ UNCHANGED ops

\* A process faults: it is logged and recorded, and the process ends.
Fault ==
    /\ flow \in live /\ stack[flow] = <<>>
    /\ Push(flow, Handler("fault", "log"))
    /\ flag' = FALSE
    /\ UNCHANGED <<flow, pic, Boot, live, locked, open, raised, ticks, ops, Unseen>>

FaultLogs ==
    /\ At(flow, "fault", "log")
    /\ StartLine(NextStep(flow, "record"))
    /\ UNCHANGED ops

FaultRecords ==
    /\ At(flow, "fault", "record")
    /\ Lock("RING", NextStep(flow, "end"))
    /\ UNCHANGED <<stage, console, ops>>

FaultEnds(g) == At(flow, "fault", "end") /\ End(g)

-----------------------------------------------------------------------------
(* Processes' calls.                                                       *)

\* FMASK clears the flag on the way in, and `sysretq` brings the caller's back.
Syscall ==
    /\ flow \in live /\ stack[flow] = <<>>
    /\ Push(flow, [what |-> "syscall"])
    /\ flag' = FALSE
    /\ UNCHANGED <<flow, pic, Boot, live, locked, open, raised, ticks, ops, Unseen>>

SyscallReturns ==
    /\ In(flow, "syscall")
    /\ Pop(flow)
    /\ flag' = TRUE
    /\ UNCHANGED <<flow, pic, Boot, live, locked, open, raised, ticks, ops, Unseen>>

Yield(g) ==
    /\ In(flow, "syscall")
    /\ SwitchTo(g, stack, live)
    /\ UNCHANGED <<flag, pic, idt, home, console, locked, open, raised, ticks, ops, Unseen>>

Exit(g) == In(flow, "syscall") /\ End(g)

-----------------------------------------------------------------------------
(* The kernel's own code, in its order.                                    *)

Kernel(from) == flow = "kernel" /\ stack[flow] = <<>> /\ stage = from
Rest == <<flow, live, locked, open, raised, ticks, ops, Unseen>>

MaskAll ==
    /\ Kernel("mask_all")
    /\ pic' = mask_all
    /\ stage' = "init"
    /\ UNCHANGED <<flag, stack, idt, home, console, Rest>>

\* The breakpoint the tables are tried with.
SelfTest == Push("kernel", [Handler("breakpoint", "log") EXCEPT !.flag = FALSE])

InterruptsInit ==
    /\ Kernel("init")
    /\ flag' = FALSE /\ idt' = "low" /\ stage' = "init_timer"
    /\ SelfTest
    /\ UNCHANGED <<pic, home, console, Rest>>

InitTimer ==
    /\ Kernel("init_timer")
    /\ pic' = unmask(remap, TIMER)
    /\ stage' = "init_keyboard"
    /\ UNCHANGED <<flag, stack, idt, home, console, Rest>>

\* A controller that does not answer leaves its line masked.
InitKeyboard(answers) ==
    /\ Kernel("init_keyboard")
    /\ pic' = IF answers THEN unmask(pic, KEYBOARD) ELSE pic
    /\ stage' = "enable"
    /\ UNCHANGED <<flag, stack, idt, home, console, Rest>>

Enable ==
    /\ Kernel("enable")
    /\ flag' = TRUE /\ stage' = "boot"
    /\ UNCHANGED <<stack, pic, idt, home, console, Rest>>

\* Into kernel space: off, prepare the move, and either jump or give up.
StartMove ==
    /\ Kernel("boot")
    /\ flag' = FALSE /\ stage' = "moving"
    /\ UNCHANGED <<stack, pic, idt, home, console, Rest>>

StayLow ==
    /\ Kernel("moving")
    /\ flag' = TRUE /\ stage' = "adopt"
    /\ UNCHANGED <<stack, pic, idt, home, console, Rest>>

Jump ==
    /\ Kernel("moving")
    /\ home' = "high" /\ stage' = "reinstall"
    /\ UNCHANGED <<flag, stack, pic, idt, console, Rest>>

ReinstallDescriptors ==
    /\ Kernel("reinstall")
    /\ idt' = "high" /\ stage' = "moved"
    /\ SelfTest
    /\ UNCHANGED <<flag, pic, home, console, Rest>>

EnableAgain ==
    /\ Kernel("moved")
    /\ flag' = TRUE /\ stage' = "adopt"
    /\ UNCHANGED <<stack, pic, idt, home, console, Rest>>

\* A console handed over or taken back, one critical section long.
ChangeConsole(from, owner, to) ==
    /\ Kernel(from)
    /\ IF locked["CONSOLE"] THEN panicked' = TRUE /\ UNCHANGED <<console, stage>>
       ELSE console' = owner /\ stage' = to /\ panicked' = panicked
    /\ UNCHANGED <<flag, stack, pic, idt, home, flow, live, locked, open, raised, ticks, ops,
                   spoiled, astray>>

Adopt == ChangeConsole("adopt", "module", "run_first")

\* The handlers are set and the first process gets the CPU; how the kernel is
\* held meanwhile is the scheduler's.
RunFirst(g) ==
    /\ Kernel("run_first")
    /\ g \in live
    /\ flow' = g /\ stage' = "processes" /\ flag' = FALSE
    /\ UNCHANGED <<stack, pic, idt, home, console, live, locked, open, raised, ticks, ops, Unseen>>

IntoTheShell ==
    /\ Kernel("into_the_shell")
    /\ flag' = TRUE /\ stage' = "take"
    /\ UNCHANGED <<stack, pic, idt, home, console, Rest>>

Take == ChangeConsole("take", "shell", "shell")

\* The shell waits for a key, or for the next tick.
Waits ==
    /\ Kernel("shell")
    /\ UNCHANGED vars

Next ==
    \/ TimerRaises \/ KeyboardRaises \/ Nmi \/ Spurious
    \/ \E line \in Lines : Deliver(line)
    \/ Iret
    \/ Log \/ WritePiece \/ Unlock
    \/ \E l \in Locks : TakeLock(l)
    \/ TimerAnswers \/ TimerLogs \/ KeyboardAnswers \/ HandlerLogs
    \/ Fault \/ FaultLogs \/ FaultRecords \/ Syscall \/ SyscallReturns
    \/ \E g \in Flows : TickHandler(g) \/ FaultEnds(g) \/ Yield(g) \/ Exit(g) \/ RunFirst(g)
    \/ MaskAll \/ InterruptsInit \/ InitTimer
    \/ \E answers \in BOOLEAN : InitKeyboard(answers)
    \/ Enable \/ StartMove \/ StayLow \/ Jump \/ ReinstallDescriptors \/ EnableAgain
    \/ Adopt \/ IntoTheShell \/ Take \/ Waits

Spec == Init /\ [][Next]_vars

-----------------------------------------------------------------------------
(* Properties.                                                             *)

\* What is being done with interrupts off is done undisturbed.  No lock is
\* taken while it is held (`IrqLock::lock` would panic): whoever is in a
\* critical section has the CPU, with interrupts off, until the outermost guard
\* goes, whatever nests in it and whoever runs next.  No line of the log falls
\* into another, except an NMI's.  And the console the kernel's shell took is
\* no process's any more.
NothingIsInterruptedInside ==
    /\ ~panicked /\ ~spoiled
    /\ \A f \in Flows : Held(f) # {} => f = flow /\ ~flag
    /\ console = "shell" => live = {}

\* The lines whose handler, in flow f, has not acknowledged them yet.
Due(f) == {line \in Lines : \E i \in DOMAIN stack[f] :
                stack[f][i].what = "handler" /\ stack[f][i].cause = Cause(line)
                /\ stack[f][i].step = "answer"}

\* Every interrupt finds its handler, through a table that names the kernel
\* where it now runs and a controller that does not take a line for an
\* exception; each is acknowledged once and by its own handler, before another
\* flow gets the CPU, so that nothing stays in service where interrupts are on
\* and a later line is never held back for good.
EveryInterruptIsAnswered ==
    /\ ~astray
    /\ pic.isr = Due(flow)
    /\ flag => pic.isr = {}
    /\ \A f \in Flows \ {flow} : Due(f) = {}
=============================================================================
