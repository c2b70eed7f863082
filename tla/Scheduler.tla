------------------------------ MODULE Scheduler ------------------------------
(***************************************************************************)
(* The scheduler of the kernel and the messages between processes          *)
(* (kernel/src/scheduler.rs, kernel/src/ipc.rs), with the parts of the     *)
(* syscall handler, the timer interrupt and the context switch that move   *)
(* the CPU from one flow of execution to another.                          *)
(*                                                                         *)
(* A flow is a kernel stack: one per process slot, and the kernel's own.   *)
(* One flow has the CPU; every other one is suspended inside `switch`, and *)
(* can go on only if somebody still has the stack pointer it left.         *)
(*                                                                         *)
(* Code that runs with interrupts off is one step up to the next `switch`. *)
(* Code that runs with interrupts on is cut where a tick would make a      *)
(* difference.                                                             *)
(***************************************************************************)
EXTENDS Integers

CONSTANTS MAX_PROCESSES,  \* slots of the scheduler
          CAPACITY        \* bytes a mailbox holds

ASSUME SizesAssumption == MAX_PROCESSES \in Nat \ {0} /\ CAPACITY \in Nat \ {0}

Slots  == 0 .. MAX_PROCESSES - 1
Kernel == -1                         \* the kernel's own flow
Stale  == -2                         \* a stack pointer that resumes nobody
Nobody == -3                         \* the `None` of an index
Flows  == Slots \cup {Kernel}

States    == {"Empty", "New", "Runnable", "Blocked", "Dead"}
Delivery  == [from : Slots, len : 1 .. CAPACITY]
NoMessage == [from |-> Nobody, len |-> 0]

VARIABLES
  state,        \* per slot; "Empty" is a slot that holds no process
  kernel_rsp,   \* per slot: the flow its saved stack pointer resumes
  mailbox,      \* per slot: the delivery that waits, or NoMessage
  current, switching, handed_over,   \* the fields of `Scheduler`
  KERNEL_RSP,   \* the static of that name: the flow it resumes
  first, rsp,   \* locals of `run_until_empty`, read before the hand-over
  cpu,          \* the flow that is running
  cpu_stack,    \* whose stack the CPU enters the kernel on (TSS and syscall)
  cr3,          \* whose page tables are active
  irq_on,       \* the interrupt flag
  pc,           \* per flow: where it is, or where it goes on from
  in_tick,      \* the flows suspended inside the timer handler
  room          \* per slot: bytes in the buffer its `recv` was given

slotVars  == <<state, kernel_rsp, mailbox>>
localVars == <<first, rsp>>
vars == <<slotVars, current, switching, handed_over, KERNEL_RSP, localVars,
          cpu, cpu_stack, cr3, irq_on, pc, in_tick, room>>

Init ==
  /\ state = [i \in Slots |-> "Empty"]
  /\ kernel_rsp = [i \in Slots |-> Stale]
  /\ mailbox = [i \in Slots |-> NoMessage]
  /\ current = 0 /\ switching = FALSE /\ handed_over = FALSE
  /\ KERNEL_RSP = Stale
  /\ first = 0 /\ rsp = Stale
  /\ cpu = Kernel /\ cpu_stack = Kernel /\ cr3 = Kernel
  /\ irq_on = TRUE
  /\ pc = [f \in Flows |-> IF f = Kernel THEN "booting" ELSE "absent"]
  /\ in_tick = {}
  /\ room = [i \in Slots |-> 0]

------------------------------------------------------------------------------
(* Who is next *)

can_run(s) == s \in {"New", "Runnable"}

\* How many slots after `from` the slot i is, counting round the end: 1 for
\* the next one, MAX_PROCESSES for `from` itself.
StepsAfter(from, i) == IF i > from THEN i - from ELSE i - from + MAX_PROCESSES

Ready(states) == {i \in Slots : can_run(states[i])}

\* Mutant: the search starts at slot 0 instead of after `from`.
next_runnable_from_zero(states, from) ==
  IF Ready(states) = {}
  THEN Nobody
  ELSE CHOOSE i \in Ready(states) : \A j \in Ready(states) : i <= j

next_runnable(states, from) ==
  IF Ready(states) = {}
  THEN Nobody
  ELSE CHOOSE i \in Ready(states) :
         \A j \in Ready(states) : StepsAfter(from, i) <= StepsAfter(from, j)

------------------------------------------------------------------------------
(* Changing stacks *)

\* What a stored stack pointer is worth once the flow f has run on.
AfterResuming(f, stored) == IF stored = f THEN Stale ELSE stored

\* arch::switch: the flow that has the CPU leaves its stack pointer in the
\* slot `save_to` (in KERNEL_RSP when that is Kernel), and the flow that
\* `resume` belongs to goes on with the tables of `space`.
switch(save_to, resume, space) ==
  /\ cpu' = resume
  /\ cr3' = space
  /\ kernel_rsp' = [i \in Slots |-> IF i = save_to THEN cpu
                                    ELSE AfterResuming(resume, kernel_rsp[i])]
  /\ KERNEL_RSP' = IF save_to = Kernel THEN cpu
                   ELSE AfterResuming(resume, KERNEL_RSP)
  /\ rsp' = AfterResuming(resume, rsp)

\* Mutant: the CPU is not told of the new entry stack.
switch_to_unprepared(from, to) ==
  /\ switching' = TRUE
  /\ current' = to
  /\ UNCHANGED cpu_stack
  /\ switch(from, kernel_rsp[to], to)

\* Up to the swap; `switching` is cleared by whoever is resumed.
switch_to(from, to) ==
  /\ switching' = TRUE
  /\ current' = to
  /\ cpu_stack' = to
  /\ switch(from, kernel_rsp[to], to)

leave_for_the_kernel ==
  /\ switch(current, KERNEL_RSP, Kernel)
  /\ UNCHANGED <<current, switching, cpu_stack>>

\* What `switch_to_next` and `end_current` do with the answer of `next_after`.
give_the_cpu_to(next) ==
  IF next = Nobody THEN leave_for_the_kernel ELSE switch_to(current, next)

------------------------------------------------------------------------------
(* The kernel's own flow *)

KernelAt(label) == cpu = Kernel /\ pc[Kernel] = label /\ Kernel \notin in_tick

\* `add`: the first empty slot, with a stack prepared for a first switch.
AddProcess(i) ==
  /\ KernelAt("booting")
  /\ state[i] = "Empty"
  /\ \A j \in Slots : j < i => state[j] # "Empty"
  /\ state' = [state EXCEPT ![i] = "New"]
  /\ kernel_rsp' = [kernel_rsp EXCEPT ![i] = i]
  /\ mailbox' = [mailbox EXCEPT ![i] = NoMessage]
  /\ pc' = [pc EXCEPT ![i] = "prepared"]
  /\ UNCHANGED <<current, switching, handed_over, KERNEL_RSP, localVars,
                 cpu, cpu_stack, cr3, irq_on, in_tick, room>>

\* `run_until_empty` up to and including `handed_over = true`. A tick before
\* that assignment finds `handed_over` false and does nothing.
RunUntilEmpty ==
  /\ KernelAt("booting")
  /\ LET next == next_runnable(state, MAX_PROCESSES - 1) IN
       /\ next # Nobody
       /\ current' = next
       /\ first' = next
       /\ rsp' = kernel_rsp[next]
       /\ cpu_stack' = next
  /\ handed_over' = TRUE
  /\ pc' = [pc EXCEPT ![Kernel] = "handing"]
  /\ UNCHANGED <<slotVars, switching, KERNEL_RSP, cpu, cr3, irq_on, in_tick,
                 room>>

\* Mutant: the stack pointer is read at the switch and not before.
HandOver_rereads ==
  /\ KernelAt("handing")
  /\ switch(Kernel, kernel_rsp[first], first)
  /\ pc' = [pc EXCEPT ![Kernel] = "away"]
  /\ UNCHANGED <<state, mailbox, current, switching, handed_over, first,
                 cpu_stack, irq_on, in_tick, room>>

\* Its switch into the first process. The interrupt flag goes along: the
\* first process starts with whatever the kernel had.
HandOver ==
  /\ KernelAt("handing")
  /\ switch(Kernel, rsp, first)
  /\ pc' = [pc EXCEPT ![Kernel] = "away"]
  /\ UNCHANGED <<state, mailbox, current, switching, handed_over, first,
                 cpu_stack, irq_on, in_tick, room>>

\* Mutant: whoever still waits is left as it is.
KernelBack_leaves_them ==
  /\ KernelAt("away")
  /\ handed_over' = FALSE
  /\ pc' = [pc EXCEPT ![Kernel] = "booting"]
  /\ UNCHANGED <<slotVars, current, switching, KERNEL_RSP, localVars, cpu,
                 cpu_stack, cr3, irq_on, in_tick, room>>

\* The rest of `run_until_empty`, once somebody has left for the kernel.
KernelBack ==
  /\ KernelAt("away")
  /\ handed_over' = FALSE
  /\ state' = [i \in Slots |-> IF state[i] = "Blocked" THEN "Dead"
                               ELSE state[i]]
  /\ pc' = [pc EXCEPT ![Kernel] = "booting"]
  /\ UNCHANGED <<kernel_rsp, mailbox, current, switching, KERNEL_RSP,
                 localVars, cpu, cpu_stack, cr3, irq_on, in_tick, room>>

\* No round is left to run: the kernel's own shell, interrupts on.
IntoTheShell ==
  /\ KernelAt("booting")
  /\ Ready(state) = {}
  /\ pc' = [pc EXCEPT ![Kernel] = "shell"]
  /\ irq_on' = TRUE
  /\ cr3' = Kernel
  /\ UNCHANGED <<slotVars, current, switching, handed_over, KERNEL_RSP,
                 localVars, cpu, cpu_stack, in_tick, room>>

------------------------------------------------------------------------------
(* The timer *)

should_switch_on_tick == handed_over /\ ~switching

\* The whole handler, up to the swap if there is one. The interrupt gate
\* turns interrupts off.
Tick ==
  /\ irq_on
  /\ LET next == next_runnable(state, current) IN
     IF should_switch_on_tick /\ next # current
     THEN /\ in_tick' = in_tick \cup {cpu}
          /\ irq_on' = FALSE
          /\ give_the_cpu_to(next)
          /\ UNCHANGED <<state, mailbox, handed_over, first, pc, room>>
     ELSE UNCHANGED vars

\* A flow that was suspended in the handler has the CPU again: the end of
\* `switch_to`, and the return from the interrupt.
TickReturns ==
  /\ cpu \in in_tick
  /\ switching' = FALSE
  /\ in_tick' = in_tick \ {cpu}
  /\ irq_on' = TRUE
  /\ UNCHANGED <<slotVars, current, handed_over, KERNEL_RSP, localVars, cpu,
                 cpu_stack, cr3, pc, room>>

------------------------------------------------------------------------------
(* A process *)

At(i, label) == cpu = i /\ pc[i] = label /\ i \notin in_tick

\* `scheduler::running()`: the process a syscall or a fault is taken for.
Serving == handed_over /\ state[current] \notin {"Empty", "Dead"}

\* A call from ring 3, taken with interrupts off.
Calls(i) == At(i, "ring3") /\ Serving

\* Mutant: `switching` stays set.
run_first_still_switching(i) ==
  /\ At(i, "prepared")
  /\ state' = [state EXCEPT ![current] = "Runnable"]
  /\ pc' = [pc EXCEPT ![i] = "entering"]
  /\ UNCHANGED <<kernel_rsp, mailbox, current, switching, handed_over,
                 KERNEL_RSP, localVars, cpu, cpu_stack, cr3, irq_on, in_tick,
                 room>>

run_first(i) ==
  /\ At(i, "prepared")
  /\ switching' = FALSE
  /\ state' = [state EXCEPT ![current] = "Runnable"]
  /\ pc' = [pc EXCEPT ![i] = "entering"]
  /\ UNCHANGED <<kernel_rsp, mailbox, current, handed_over, KERNEL_RSP,
                 localVars, cpu, cpu_stack, cr3, irq_on, in_tick, room>>

\* `user::enter`: the slot's own space, and into ring 3 with interrupts on.
enter(i) ==
  /\ At(i, "entering")
  /\ cr3' = i
  /\ irq_on' = TRUE
  /\ pc' = [pc EXCEPT ![i] = "ring3"]
  /\ UNCHANGED <<slotVars, current, switching, handed_over, KERNEL_RSP,
                 localVars, cpu, cpu_stack, in_tick, room>>

\* Giving the turn away when somebody else wants it. With nobody else the
\* call returns having changed nothing.
Yield(i) ==
  /\ Calls(i)
  /\ ~switching
  /\ next_runnable(state, current) # current
  /\ give_the_cpu_to(next_runnable(state, current))
  /\ irq_on' = FALSE
  /\ pc' = [pc EXCEPT ![i] = "yielded"]
  /\ UNCHANGED <<state, mailbox, handed_over, first, in_tick, room>>

YieldReturns(i) ==
  /\ At(i, "yielded")
  /\ switching' = FALSE
  /\ irq_on' = TRUE
  /\ pc' = [pc EXCEPT ![i] = "ring3"]
  /\ UNCHANGED <<slotVars, current, handed_over, KERNEL_RSP, localVars, cpu,
                 cpu_stack, cr3, in_tick, room>>

\* Mutant: a message does not end the wait.
woken_by_nothing(s) == s

woken(s) == IF s = "Blocked" THEN "Runnable" ELSE s

\* Mailbox::deliver: neither empty nor too long, and nothing in the way.
Deliverable(to, len) == len \in 1 .. CAPACITY /\ mailbox[to] = NoMessage

\* The refusals (nobody there, full mailbox, bad length) change nothing.
Send(i, to, len) ==
  /\ Calls(i)
  /\ state[to] \notin {"Empty", "Dead"}
  /\ Deliverable(to, len)
  /\ mailbox' = [mailbox EXCEPT ![to] = [from |-> current, len |-> len]]
  /\ state' = [state EXCEPT ![to] = woken(@)]
  /\ UNCHANGED <<kernel_rsp, current, switching, handed_over, KERNEL_RSP,
                 localVars, cpu, cpu_stack, cr3, irq_on, pc, in_tick, room>>

Recv(i, capacity) ==
  /\ Calls(i)
  /\ room' = [room EXCEPT ![i] = capacity]
  /\ irq_on' = FALSE
  /\ pc' = [pc EXCEPT ![i] = "receiving"]
  /\ UNCHANGED <<slotVars, current, switching, handed_over, KERNEL_RSP,
                 localVars, cpu, cpu_stack, cr3, in_tick>>

BackInRing3(i) == irq_on' = TRUE /\ pc' = [pc EXCEPT ![i] = "ring3"]

\* The loop of `recv`, when a message waits: it is taken if the buffer is
\* large enough and stays where it is if not.
TakeMessage(i) ==
  /\ At(i, "receiving")
  /\ mailbox[current] # NoMessage
  /\ mailbox' = IF room[i] < mailbox[current].len
                THEN mailbox
                ELSE [mailbox EXCEPT ![current] = NoMessage]
  /\ BackInRing3(i)
  /\ UNCHANGED <<state, kernel_rsp, current, switching, handed_over,
                 KERNEL_RSP, localVars, cpu, cpu_stack, cr3, in_tick, room>>

\* Mutant: parked although nobody else can run.
WaitForMessage_alone(i) ==
  /\ At(i, "receiving")
  /\ mailbox[current] = NoMessage
  /\ state' = [state EXCEPT ![current] = "Blocked"]
  /\ give_the_cpu_to(next_runnable(state', current))
  /\ pc' = [pc EXCEPT ![i] = "waiting"]
  /\ UNCHANGED <<mailbox, handed_over, first, irq_on, in_tick, room>>

\* The loop of `recv`, when none does: `wait_for_message` parks the process,
\* unless nobody else could ever write to it.
WaitForMessage(i) ==
  /\ At(i, "receiving")
  /\ mailbox[current] = NoMessage
  /\ LET next == next_runnable(state, current) IN
     IF next \notin {Nobody, current} /\ can_run(state[current])
     THEN /\ state' = [state EXCEPT ![current] = "Blocked"]
          /\ switch_to(current, next)
          /\ pc' = [pc EXCEPT ![i] = "waiting"]
          /\ UNCHANGED irq_on
     ELSE /\ BackInRing3(i)
          /\ UNCHANGED <<state, kernel_rsp, current, switching, KERNEL_RSP,
                         rsp, cpu, cpu_stack, cr3>>
  /\ UNCHANGED <<mailbox, handed_over, first, in_tick, room>>

WaitReturns(i) ==
  /\ At(i, "waiting")
  /\ switching' = FALSE
  /\ pc' = [pc EXCEPT ![i] = "receiving"]
  /\ UNCHANGED <<slotVars, current, handed_over, KERNEL_RSP, localVars, cpu,
                 cpu_stack, cr3, irq_on, in_tick, room>>

\* The end of the running process: dead, and the CPU to whoever is next.
end_current(i) ==
  LET dead == [state EXCEPT ![current] = "Dead"] IN
  /\ state' = dead
  /\ give_the_cpu_to(next_runnable(dead, current))
  /\ irq_on' = FALSE
  /\ pc' = [pc EXCEPT ![i] = "gone"]
  /\ UNCHANGED <<mailbox, handed_over, first, in_tick, room>>

\* Through `exit`, or through a fault the CPU took in ring 3.
Exit(i)  == Calls(i) /\ end_current(i)
Fault(i) == Calls(i) /\ end_current(i)

------------------------------------------------------------------------------

KernelStep == RunUntilEmpty \/ HandOver \/ KernelBack \/ IntoTheShell

\* What a process asks for, or does, in ring 3.
UserStep(i) ==
  \/ Yield(i)
  \/ \E to \in Slots, len \in 1 .. CAPACITY : Send(i, to, len)
  \/ \E capacity \in 0 .. CAPACITY : Recv(i, capacity)
  \/ Exit(i)
  \/ Fault(i)

\* What the kernel does on a process's own stack.
ServiceStep(i) ==
  \/ run_first(i)
  \/ enter(i)
  \/ YieldReturns(i)
  \/ TakeMessage(i)
  \/ WaitForMessage(i)
  \/ WaitReturns(i)

Next ==
  \/ \E i \in Slots : AddProcess(i)
  \/ KernelStep
  \/ Tick
  \/ TickReturns
  \/ \E i \in Slots : UserStep(i) \/ ServiceStep(i)

Spec == Init /\ [][Next]_vars

\* The CPU does not stop in the middle of the kernel's code, and between two
\* ticks it has ten milliseconds for it. The timer does not stop either, and
\* the interrupt controller holds its request until interrupts are on, so a
\* tick that is possible again and again is taken. Nothing is assumed of what
\* a process does in ring 3.
Fairness ==
  /\ SF_vars(KernelStep)
  /\ WF_vars(TickReturns)
  /\ \A i \in Slots : SF_vars(ServiceStep(i))
  /\ SF_vars(Tick)

FairSpec == Spec /\ Fairness

------------------------------------------------------------------------------
(* Properties *)

KernelLabels  == {"booting", "handing", "away", "shell"}
ProcessLabels == {"absent", "prepared", "entering", "ring3", "yielded",
                  "receiving", "waiting", "gone"}

\* Every variable has the type its declaration in scheduler.rs or ipc.rs
\* gives it; in particular the CPU is never sent to a stack pointer that
\* resumes nobody.
TypeOK ==
  /\ state \in [Slots -> States]
  /\ kernel_rsp \in [Slots -> Flows \cup {Stale}]
  /\ mailbox \in [Slots -> Delivery \cup {NoMessage}]
  /\ current \in Slots /\ switching \in BOOLEAN /\ handed_over \in BOOLEAN
  /\ KERNEL_RSP \in Flows \cup {Stale}
  /\ first \in Slots /\ rsp \in Flows \cup {Stale}
  /\ cpu \in Flows /\ cpu_stack \in Flows /\ cr3 \in Flows
  /\ irq_on \in BOOLEAN
  /\ pc \in [Flows -> KernelLabels \cup ProcessLabels]
  /\ in_tick \in SUBSET Flows
  /\ room \in [Slots -> 0 .. CAPACITY]

Alive(i) == state[i] \notin {"Empty", "Dead"}

\* Slot i leads back to its process by way of the kernel: a tick caught
\* `run_until_empty` between `handed_over = true` and its switch, and the
\* kernel still has the stack pointer it read before.
ThroughTheKernel(i) ==
  /\ pc[Kernel] = "handing" /\ first = i /\ rsp = i
  /\ IF cpu = Kernel THEN TRUE ELSE kernel_rsp[i] = Kernel

\* No stack is ever lost: whatever ticks, calls and exits have done, every
\* live process that does not have the CPU can be resumed from its slot, and
\* so can the kernel from KERNEL_RSP (`leave_for_the_kernel` never jumps to
\* the zero the static starts with) or from a slot that will get a turn.
EveryFlowIsHeld ==
  /\ \A i \in Slots : Alive(i) /\ cpu # i =>
       kernel_rsp[i] = i \/ ThroughTheKernel(i)
  /\ cpu # Kernel =>
       \/ KERNEL_RSP = Kernel
       \/ \E i \in Ready(state) : kernel_rsp[i] = Kernel

\* Whoever runs is who the scheduler says (`running()`), on page tables and
\* with an entry stack of its own, and was not dead or waiting when it was
\* given the CPU (`prepare_cpu_for`: "forgetting one means the next entry
\* writes on somebody else's stack").
RunsAsItself ==
  cpu \in Slots => /\ current = cpu /\ cpu_stack = cpu /\ cr3 = cpu
                   /\ can_run(state[cpu]) /\ Serving

\* The guard of `should_switch_on_tick` against nesting never costs a tick:
\* by the time interrupts are on, whoever was resumed has cleared the flag.
NoTickIsDropped == irq_on => ~switching

\* A process waits exactly while its mailbox is empty: `deliver` wakes it in
\* the same step, and nobody else takes the message before it runs, so the
\* loop in `recv` never goes round a second time.
WaitsOnlyForMail ==
  \A i \in Slots : state[i] # "Dead" =>
    (state[i] = "Blocked" <=> pc[i] = "waiting" /\ mailbox[i] = NoMessage)

\* The kernel goes on after its switch in `run_until_empty` only when nobody
\* can run, and leaves no process half done: what it has is dead or not yet
\* started, and `dead_processes` may give it all back.
KernelComesBackLast ==
  /\ KernelAt("away") => Ready(state) = {}
  /\ pc[Kernel] \in {"booting", "shell"} =>
       ~handed_over /\ \A i \in Slots : state[i] \notin {"Runnable", "Blocked"}

\* A message that was delivered stays as it is until the process it is for
\* takes it itself, once (`take_into` empties the mailbox it read).
MessagesAreTakenOnce ==
  [][\A i \in Slots : mailbox[i] # NoMessage /\ mailbox'[i] # mailbox[i] =>
       mailbox'[i] = NoMessage /\ cpu = i]_vars

\* `end_current`: "Never comes back - nothing switches into a dead process."
\* It is not woken by a message either.
DeathIsFinal ==
  [][\A i \in Slots : state[i] = "Dead" => state'[i] = "Dead" /\ cpu' # i]_vars

\* A process that may run and is not running gets back to ring 3, whatever
\* the others do there: round robin and the timer starve nobody. For one
\* woken by a message this says that its `recv` returns.
EveryTurnComes ==
  \A i \in Slots : (handed_over /\ can_run(state[i]) /\ cpu # i) ~> At(i, "ring3")

\* The inductive invariant behind these, in parts. First the kernel's own
\* flow: where it may be suspended and what the scheduler says meanwhile.
KernelInv ==
  /\ pc[Kernel] \in KernelLabels
  /\ Kernel \in in_tick => pc[Kernel] = "handing"
  /\ cpu # Kernel => pc[Kernel] = "handing"
                     \/ (pc[Kernel] = "away" /\ KERNEL_RSP = Kernel)
  /\ pc[Kernel] = "away" => handed_over
  /\ KernelAt("away") => Ready(state) = {} /\ ~irq_on /\ ~switching
  /\ pc[Kernel] \in {"booting", "shell"} =>
       /\ cpu = Kernel /\ ~handed_over /\ ~switching
       /\ \A i \in Slots : state[i] \notin {"Runnable", "Blocked"}
       /\ \A i \in Slots : state[i] = "New" => pc[i] = "prepared" /\ i \notin in_tick

\* The hand-over, which a tick may cut in two: until the kernel makes its
\* switch, the first process stays as `add` left it, and if the kernel is
\* not running, the first process's slot has the kernel's stack.
HandingInv ==
  pc[Kernel] = "handing" =>
    /\ handed_over /\ rsp = first /\ cpu # first
    /\ state[first] = "New" /\ pc[first] = "prepared" /\ first \notin in_tick
    /\ cpu = Kernel => current = first /\ cpu_stack = first
    /\ cpu # Kernel => Kernel \in in_tick /\ kernel_rsp[first] = Kernel

\* Every other live process is suspended where the code suspends one, and
\* its slot has its own stack.
SuspendedInv ==
  \A i \in Slots : Alive(i) /\ cpu # i =>
    /\ i \in in_tick \/ pc[i] \in {"prepared", "yielded", "waiting"}
    /\ kernel_rsp[i] = i \/ (pc[Kernel] = "handing" /\ i = first)

\* A flow that still has `switching` to clear is at the point that does it,
\* with interrupts off, as they are all through a syscall: no tick finds one.
SwitchingInv ==
  /\ switching =>
       /\ ~irq_on
       /\ cpu \in in_tick \/ pc[cpu] \in {"prepared", "yielded", "waiting"}
  /\ pc[cpu] \in {"yielded", "receiving", "waiting"} => ~irq_on
  /\ \A f \in in_tick : pc[f] \notin {"yielded", "receiving", "waiting"}

\* A slot with no process in it has no message, and no flow in the timer.
EmptyInv ==
  \A i \in Slots : state[i] = "Empty" => mailbox[i] = NoMessage /\ i \notin in_tick

\* Holds initially and is kept by every action of the scheduler.
IInv == /\ TypeOK /\ KernelInv /\ HandingInv /\ SuspendedInv /\ SwitchingInv
        /\ RunsAsItself /\ WaitsOnlyForMail /\ EmptyInv

\* The same processes with no CPU: New and Runnable are both "ready".
Life(s) ==
  CASE s = "Empty" -> "unborn" [] can_run(s) -> "ready"
    [] s = "Blocked" -> "waiting" [] s = "Dead" -> "dead"

Promise == INSTANCE Processes
  WITH Procs <- Slots, Lengths <- 1 .. CAPACITY,
       life <- [i \in Slots |-> Life(state[i])], box <- mailbox

\* All of the switching, saving and interrupting amounts to what Processes
\* says: only a ready process acts, a message carries its real sender and is
\* neither lost nor written over, waiting ends with a message or, once nobody
\* is left to send one, with the end of every waiting process
\* (`wait_for_message`, the last lines of `run_until_empty`).
ImplementsProcesses == Promise!Spec
==============================================================================
