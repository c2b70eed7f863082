--------------------------- MODULE SchedulerProofs ---------------------------
(***************************************************************************)
(* Proofs about module Scheduler, for any number of slots and any mailbox  *)
(* capacity: IInv is inductive, so the safety properties that TLC checks   *)
(* on three slots hold on the sixteen of the kernel, and on any other.     *)
(***************************************************************************)
EXTENDS Scheduler, NumberFacts

\* `next_runnable` answers a slot that can run, whenever there is one: the
\* search of (1..=len) round the table misses nobody.
LEMMA NextRunnable ==
  ASSUME NEW states, NEW from \in Slots
  PROVE  /\ Ready(states) = {} => next_runnable(states, from) = Nobody
         /\ Ready(states) # {} => next_runnable(states, from) \in Ready(states)
<1>1. CASE Ready(states) = {}
  BY <1>1, Zenon DEF next_runnable
<1>2. CASE Ready(states) # {}
  <2> DEFINE R == Ready(states)
             T == {StepsAfter(from, i) : i \in R}
  <2>1. R \subseteq Slots
    BY Zenon DEF Ready
  <2>2. \A i \in Slots : StepsAfter(from, i) \in Nat
    BY SizesAssumption DEF StepsAfter, Slots
  <2>3. T \in SUBSET Nat /\ T # {}
    BY <1>2, <2>1, <2>2, Zenon
  <2>4. PICK x \in T : \A y \in T : x <= y
    BY <2>3, LeastNatural, Zenon
  <2>5. PICK i \in R : x = StepsAfter(from, i)
    BY Zenon
  <2>6. \A j \in R : StepsAfter(from, i) <= StepsAfter(from, j)
    BY <2>4, <2>5, Zenon
  <2>7. \E k \in R : \A j \in R : StepsAfter(from, k) <= StepsAfter(from, j)
    BY <2>6, Zenon
  <2> QED
    BY <1>2, <2>7, Zenon DEF next_runnable
<1> QED
  BY <1>1, <1>2, Zenon

------------------------------------------------------------------------------
(* IInv is inductive *)

\* Slots, the kernel's flow and the special values are all different.
LEMMA Distinct ==
  /\ Kernel \notin Slots /\ Stale \notin Slots /\ Nobody \notin Slots
  /\ Kernel # Stale /\ Kernel # Nobody /\ Stale # Nobody
  /\ Stale \notin Flows /\ Slots \subseteq Flows /\ Kernel \in Flows
  /\ 0 \in Slots /\ MAX_PROCESSES - 1 \in Slots
BY SizesAssumption DEF Slots, Kernel, Stale, Nobody, Flows

\* A delivery is never mistaken for the empty mailbox.
LEMMA DeliveryIsMail ==
  /\ NoMessage \notin Delivery
  /\ \A from \in Slots, len \in 1 .. CAPACITY :
       [from |-> from, len |-> len] \in Delivery
BY SizesAssumption DEF Delivery, NoMessage, Slots, Nobody

\* The kernel starts with no process and the CPU in its own hands.
LEMMA InitIInv == Init => IInv
<1> SUFFICES ASSUME Init PROVE IInv
  BY Zenon
<1> USE DEF Init
<1>1. TypeOK
  <2>1. room \in [Slots -> 0 .. CAPACITY]
    BY SizesAssumption
  <2>2. pc \in [Flows -> KernelLabels \cup ProcessLabels]
    BY Zenon DEF KernelLabels, ProcessLabels
  <2> QED
    BY <2>1, <2>2, Distinct, Zenon DEF TypeOK, States
<1>2. KernelInv
  BY Distinct, Zenon DEF KernelInv, KernelLabels, KernelAt
<1>3. HandingInv /\ SuspendedInv /\ SwitchingInv /\ EmptyInv
  BY Distinct, Zenon DEF HandingInv, SuspendedInv, SwitchingInv, EmptyInv, Alive
<1>4. RunsAsItself /\ WaitsOnlyForMail
  BY Distinct, Zenon DEF RunsAsItself, WaitsOnlyForMail, Flows
<1> QED
  BY <1>1, <1>2, <1>3, <1>4, Zenon DEF IInv

\* A new process gets a slot that held nothing and disturbs nobody.
LEMMA AddProcessKeeps ==
  ASSUME IInv, NEW i \in Slots, AddProcess(i)
  PROVE  IInv'
<1> USE Distinct DEF AddProcess, IInv, KernelAt, slotVars, localVars
<1>1. TypeOK'
  BY Zenon DEF TypeOK, States, ProcessLabels
<1>2. KernelInv'
  BY Zenon DEF KernelInv, EmptyInv, TypeOK
<1>3. HandingInv' /\ SwitchingInv'
  BY Zenon DEF HandingInv, SwitchingInv, KernelInv, TypeOK
<1>4. SuspendedInv'
  BY DEF SuspendedInv, TypeOK, Alive
<1>5. RunsAsItself' /\ EmptyInv'
  BY Zenon DEF RunsAsItself, EmptyInv, TypeOK
<1>6. WaitsOnlyForMail'
  BY Zenon DEF WaitsOnlyForMail, TypeOK
<1> QED
  BY <1>1, <1>2, <1>3, <1>4, <1>5, <1>6, Zenon

\* The kernel picks the first process: it is new, its slot has its own
\* prepared stack, and that is what the kernel reads into `rsp`.
LEMMA RunUntilEmptyKeeps ==
  ASSUME IInv, RunUntilEmpty
  PROVE  IInv'
<1> DEFINE next == next_runnable(state, MAX_PROCESSES - 1)
<1>1. next \in Slots /\ can_run(state[next])
  BY Distinct, NextRunnable, Zenon DEF RunUntilEmpty, Ready
<1> HIDE DEF next
<1>2. /\ current' = next /\ first' = next /\ rsp' = kernel_rsp[next]
      /\ cpu_stack' = next
  BY Zenon DEF RunUntilEmpty, next
<1> USE Distinct DEF RunUntilEmpty, IInv, KernelAt, slotVars
<1>3. state[next] = "New" /\ pc[next] = "prepared" /\ next \notin in_tick
  BY <1>1, Zenon DEF KernelInv, can_run
<1>4. kernel_rsp[next] = next
  BY <1>1, <1>3, Zenon DEF SuspendedInv, Alive
<1>5. TypeOK'
  BY <1>1, <1>2, Zenon DEF TypeOK, KernelLabels
<1>6. KernelInv'
  BY <1>1, Zenon DEF KernelInv, TypeOK, KernelLabels
<1>7. HandingInv'
  BY <1>1, <1>2, <1>3, <1>4 DEF HandingInv, TypeOK
<1>8. SuspendedInv' /\ SwitchingInv' /\ EmptyInv'
  BY DEF SuspendedInv, SwitchingInv, EmptyInv, TypeOK, Alive, KernelInv
<1>9. RunsAsItself' /\ WaitsOnlyForMail'
  BY Zenon DEF RunsAsItself, WaitsOnlyForMail, TypeOK
<1> QED
  BY <1>5, <1>6, <1>7, <1>8, <1>9, Zenon

\* The hand-over itself. Whether or not a tick cut it in two, `rsp` is the
\* first process's stack and the entry stack is the first process's.
LEMMA HandOverKeeps ==
  ASSUME IInv, HandOver
  PROVE  IInv'
<1> USE Distinct DEF HandOver, IInv, KernelAt, switch, AfterResuming
<1>1. rsp = first /\ first \in Slots /\ current = first /\ cpu_stack = first
  BY Zenon DEF HandingInv, TypeOK
<1>2. TypeOK'
  BY <1>1, Zenon DEF TypeOK, KernelLabels
<1>3. KernelInv'
  BY <1>1, Zenon DEF KernelInv, TypeOK, KernelLabels, HandingInv
<1>4. HandingInv'
  BY Zenon DEF HandingInv, TypeOK
<1>5. SuspendedInv'
  BY <1>1, Zenon DEF SuspendedInv, TypeOK, Alive
<1>6. SwitchingInv' /\ EmptyInv'
  BY <1>1, Zenon DEF SwitchingInv, EmptyInv, TypeOK, HandingInv
<1>7. RunsAsItself' /\ WaitsOnlyForMail'
  BY <1>1, Zenon DEF RunsAsItself, WaitsOnlyForMail, TypeOK, HandingInv, Serving, can_run
<1> QED
  BY <1>2, <1>3, <1>4, <1>5, <1>6, <1>7, Zenon

\* With the CPU back, the kernel gives up those who still wait.
LEMMA KernelBackKeeps ==
  ASSUME IInv, KernelBack
  PROVE  IInv'
<1> USE Distinct DEF KernelBack, IInv, KernelAt, localVars
<1>1. TypeOK'
  BY Zenon DEF TypeOK, States, KernelLabels
<1>2. KernelInv'
  BY Zenon DEF KernelInv, TypeOK, KernelLabels, Ready, can_run
<1>3. HandingInv' /\ SwitchingInv' /\ EmptyInv' /\ RunsAsItself'
  BY Zenon DEF HandingInv, SwitchingInv, EmptyInv, RunsAsItself, TypeOK, KernelInv
<1>4. SuspendedInv'
  BY Zenon DEF SuspendedInv, TypeOK, Alive
<1>5. WaitsOnlyForMail'
  BY Zenon DEF WaitsOnlyForMail, TypeOK
<1> QED
  BY <1>1, <1>2, <1>3, <1>4, <1>5, Zenon

\* The kernel's shell turns interrupts on when no switch is in flight.
LEMMA IntoTheShellKeeps ==
  ASSUME IInv, IntoTheShell
  PROVE  IInv'
<1> USE Distinct DEF IntoTheShell, IInv, KernelAt, slotVars, localVars
<1>1. TypeOK'
  BY Zenon DEF TypeOK, KernelLabels
<1>2. KernelInv'
  BY Zenon DEF KernelInv, TypeOK, KernelLabels
<1>3. HandingInv' /\ SwitchingInv' /\ EmptyInv' /\ RunsAsItself'
  BY Zenon DEF HandingInv, SwitchingInv, EmptyInv, RunsAsItself, TypeOK, KernelInv
<1>4. SuspendedInv' /\ WaitsOnlyForMail'
  BY SMTT(30) DEF SuspendedInv, WaitsOnlyForMail, TypeOK, Alive
<1> QED
  BY <1>1, <1>2, <1>3, <1>4, Zenon

------------------------------------------------------------------------------
(* The steps that change stacks *)

\* A step that changes nothing keeps the invariant.
LEMMA StutterKeeps == IInv /\ UNCHANGED vars => IInv'
BY DEF IInv, vars, slotVars, localVars, TypeOK, KernelInv, HandingInv,
       SuspendedInv, SwitchingInv, RunsAsItself, WaitsOnlyForMail, EmptyInv,
       KernelAt, Alive, Serving, Ready, can_run

\* Where a slot that can run leads: to its own process, or to the kernel that
\* a tick stopped on its way there.
LEMMA WhereASlotLeads ==
  ASSUME IInv, NEW to \in Slots, Alive(to), to # cpu, cpu # Kernel
  PROVE  \/ kernel_rsp[to] = to /\ ~(pc[Kernel] = "handing" /\ to = first)
         \/ /\ kernel_rsp[to] = Kernel /\ pc[Kernel] = "handing"
            /\ to = first /\ Kernel \in in_tick
BY Zenon DEF IInv, SuspendedInv, HandingInv

\* A tick, when a process is running.
LEMMA TickInAProcessKeeps ==
  ASSUME IInv, Tick, cpu # Kernel
  PROVE  IInv'
<1> DEFINE next == next_runnable(state, current)
<1>1. CASE UNCHANGED vars
  BY <1>1, StutterKeeps, Zenon
<1>2. CASE ~ UNCHANGED vars
  <2>1. /\ cpu \in Slots /\ current = cpu /\ can_run(state[cpu])
        /\ handed_over
    BY Zenon DEF IInv, TypeOK, RunsAsItself, Flows, Serving
  <2>2. next \in Slots /\ can_run(state[next])
    BY <2>1, NextRunnable, Zenon DEF Ready
  <2> HIDE DEF next
  <2>3. next # cpu /\ next # Nobody
    BY <1>2, <2>1, <2>2, Distinct, Zenon DEF Tick, next
  <2>4. /\ in_tick' = in_tick \cup {cpu} /\ irq_on' = FALSE /\ irq_on
        /\ switch_to(cpu, next)
        /\ UNCHANGED <<state, mailbox, handed_over, first, pc, room>>
    BY <1>2, <2>1, <2>3, ZenonT(30) DEF Tick, give_the_cpu_to, next
  <2>5. \/ kernel_rsp[next] = next /\ ~(pc[Kernel] = "handing" /\ next = first)
        \/ /\ kernel_rsp[next] = Kernel /\ pc[Kernel] = "handing"
           /\ next = first /\ Kernel \in in_tick
    BY <2>2, <2>3, WhereASlotLeads, Zenon DEF Alive, can_run
  <2> USE <2>1, <2>2, <2>3, <2>4, <2>5, Distinct
      DEF switch_to, switch, AfterResuming, IInv
  <2>6. TypeOK'
    BY Zenon DEF TypeOK
  <2>7. KernelInv'
    BY Zenon DEF KernelInv, TypeOK, KernelAt, HandingInv
  <2>8. HandingInv'
    BY Zenon DEF HandingInv, TypeOK
  <2>9. SuspendedInv'
    BY Zenon DEF SuspendedInv, TypeOK, Alive
  <2>10. SwitchingInv'
    BY SMTT(30) DEF SwitchingInv, SuspendedInv, TypeOK, Alive, can_run
  <2>11. RunsAsItself' /\ EmptyInv' /\ WaitsOnlyForMail'
    BY Zenon DEF RunsAsItself, EmptyInv, WaitsOnlyForMail, TypeOK, Serving, can_run
  <2> QED
    BY <2>6, <2>7, <2>8, <2>9, <2>10, <2>11, Zenon
<1> QED
  BY <1>1, <1>2, Zenon

\* A tick, when the kernel is running: nothing happens except between
\* `handed_over = true` and the switch, where the kernel's stack goes into
\* the slot of the first process, which nobody needs yet.
LEMMA TickInTheKernelKeeps ==
  ASSUME IInv, Tick, cpu = Kernel
  PROVE  IInv'
<1> DEFINE next == next_runnable(state, current)
<1>1. CASE UNCHANGED vars
  BY <1>1, StutterKeeps, Zenon
<1>2. CASE ~ UNCHANGED vars
  <2>1. handed_over /\ ~switching /\ irq_on
    BY <1>2, Zenon DEF Tick, should_switch_on_tick
  <2>2. pc[Kernel] = "handing"
    BY <2>1, Zenon DEF IInv, KernelInv, KernelLabels, KernelAt
  <2>3. current = first /\ first \in Slots /\ state[first] = "New"
    BY <2>2, Zenon DEF IInv, HandingInv, TypeOK
  <2>4. next \in Slots /\ can_run(state[next])
    BY <2>3, NextRunnable, Zenon DEF Ready, can_run
  <2> HIDE DEF next
  <2>5. next # first /\ next # Nobody
    BY <1>2, <2>3, <2>4, Distinct, Zenon DEF Tick, next
  <2>6. /\ in_tick' = in_tick \cup {cpu} /\ irq_on' = FALSE
        /\ switch_to(first, next)
        /\ UNCHANGED <<state, mailbox, handed_over, first, pc, room>>
    BY <1>2, <2>3, <2>5, Zenon DEF Tick, give_the_cpu_to, next
  <2>7. kernel_rsp[next] = next
    BY <2>4, <2>5, Distinct, Zenon DEF IInv, SuspendedInv, Alive, can_run
  <2> USE <2>1, <2>2, <2>3, <2>4, <2>5, <2>6, <2>7, Distinct
      DEF switch_to, switch, AfterResuming, IInv
  <2>8. TypeOK'
    BY Zenon DEF TypeOK
  <2>9. KernelInv'
    BY Zenon DEF KernelInv, TypeOK, KernelAt
  <2>10. HandingInv'
    BY Zenon DEF HandingInv, TypeOK
  <2>11. SuspendedInv'
    BY Zenon DEF SuspendedInv, TypeOK, Alive
  <2>12. SwitchingInv'
    BY SMTT(30) DEF SwitchingInv, SuspendedInv, TypeOK, Alive, can_run
  <2>13. RunsAsItself' /\ EmptyInv' /\ WaitsOnlyForMail'
    BY Zenon DEF RunsAsItself, EmptyInv, WaitsOnlyForMail, TypeOK, Serving, can_run
  <2> QED
    BY <2>8, <2>9, <2>10, <2>11, <2>12, <2>13, Zenon
<1> QED
  BY <1>1, <1>2, Zenon

\* A process gives its turn away.
LEMMA YieldKeeps ==
  ASSUME IInv, NEW i \in Slots, Yield(i)
  PROVE  IInv'
<1> DEFINE next == next_runnable(state, current)
<1>1. /\ cpu = i /\ current = i /\ can_run(state[i]) /\ handed_over
      /\ pc[i] = "ring3" /\ i \notin in_tick /\ i # Kernel
  BY Distinct, Zenon DEF IInv, RunsAsItself, Yield, Calls, At, Serving
<1>2. next \in Slots /\ can_run(state[next])
  BY <1>1, NextRunnable, Zenon DEF Ready
<1> HIDE DEF next
<1>3. next # i /\ next # Nobody
  BY <1>1, <1>2, Distinct, Zenon DEF Yield, next
<1>4. /\ pc' = [pc EXCEPT ![i] = "yielded"] /\ irq_on' = FALSE
      /\ switch_to(i, next)
      /\ UNCHANGED <<state, mailbox, handed_over, first, in_tick, room>>
  BY <1>1, <1>3, Zenon DEF Yield, give_the_cpu_to, next
<1>5. \/ kernel_rsp[next] = next /\ ~(pc[Kernel] = "handing" /\ next = first)
      \/ /\ kernel_rsp[next] = Kernel /\ pc[Kernel] = "handing"
         /\ next = first /\ Kernel \in in_tick
  BY <1>1, <1>2, <1>3, WhereASlotLeads, Zenon DEF Alive, can_run
<1> USE <1>1, <1>2, <1>3, <1>4, <1>5, Distinct
    DEF switch_to, switch, AfterResuming, IInv
<1>6. TypeOK'
  BY ZenonT(30) DEF TypeOK, ProcessLabels
<1>7. KernelInv'
  BY Zenon DEF KernelInv, TypeOK, KernelAt, HandingInv
<1>8. HandingInv'
  BY Zenon DEF HandingInv, TypeOK
<1>9. SuspendedInv'
  BY Zenon DEF SuspendedInv, TypeOK, Alive
<1>10. SwitchingInv'
  BY DEF SwitchingInv, SuspendedInv, TypeOK, Alive, can_run
<1>11. RunsAsItself' /\ EmptyInv' /\ WaitsOnlyForMail'
  BY Zenon DEF RunsAsItself, EmptyInv, WaitsOnlyForMail, TypeOK, Serving, can_run
<1> QED
  BY <1>6, <1>7, <1>8, <1>9, <1>10, <1>11, Zenon

\* `recv` with an empty mailbox: parked, or told that nobody could send.
LEMMA WaitForMessageKeeps ==
  ASSUME IInv, NEW i \in Slots, WaitForMessage(i)
  PROVE  IInv'
<1> DEFINE next == next_runnable(state, current)
<1>1. /\ cpu = i /\ current = i /\ can_run(state[i]) /\ handed_over
      /\ pc[i] = "receiving" /\ i \notin in_tick /\ i # Kernel
      /\ mailbox[i] = NoMessage /\ ~switching
  BY Distinct, Zenon DEF IInv, RunsAsItself, WaitForMessage, At, Serving, SwitchingInv
<1>2. next \in Slots /\ can_run(state[next])
  BY <1>1, NextRunnable, Zenon DEF Ready
<1> HIDE DEF next
<1>3. CASE next = i
  <2>1. /\ irq_on' = TRUE /\ pc' = [pc EXCEPT ![i] = "ring3"]
        /\ UNCHANGED <<slotVars, current, switching, handed_over, KERNEL_RSP,
                       localVars, cpu, cpu_stack, cr3, in_tick, room>>
    BY <1>1, <1>3, Zenon DEF WaitForMessage, BackInRing3, next, slotVars, localVars
  <2> USE <1>1, <2>1, Distinct DEF IInv, slotVars, localVars
  <2>2. TypeOK'
    BY Zenon DEF TypeOK, ProcessLabels
  <2>3. KernelInv' /\ HandingInv'
    BY Zenon DEF KernelInv, HandingInv, TypeOK, KernelAt, Ready
  <2>4. SuspendedInv' /\ SwitchingInv'
    BY SMTT(30) DEF SuspendedInv, SwitchingInv, TypeOK, Alive
  <2>5. RunsAsItself' /\ EmptyInv' /\ WaitsOnlyForMail'
    BY Zenon DEF RunsAsItself, EmptyInv, WaitsOnlyForMail, TypeOK, Serving, can_run
  <2> QED
    BY <2>2, <2>3, <2>4, <2>5, Zenon
<1>4. CASE next # i
  <2>1. /\ pc' = [pc EXCEPT ![i] = "waiting"] /\ UNCHANGED irq_on
        /\ state' = [state EXCEPT ![i] = "Blocked"]
        /\ switch_to(i, next)
        /\ UNCHANGED <<mailbox, handed_over, first, in_tick, room>>
    BY <1>1, <1>2, <1>4, Distinct, Zenon DEF WaitForMessage, next
  <2>2. \/ kernel_rsp[next] = next /\ ~(pc[Kernel] = "handing" /\ next = first)
        \/ /\ kernel_rsp[next] = Kernel /\ pc[Kernel] = "handing"
           /\ next = first /\ Kernel \in in_tick
    BY <1>1, <1>2, <1>4, WhereASlotLeads, Zenon DEF Alive, can_run
  <2> USE <1>1, <1>2, <1>4, <2>1, <2>2, Distinct
      DEF switch_to, switch, AfterResuming, IInv
  <2>3. TypeOK'
    BY Zenon DEF TypeOK, ProcessLabels, States
  <2>4. KernelInv'
    BY Zenon DEF KernelInv, TypeOK, KernelAt, HandingInv
  <2>5. HandingInv'
    BY Zenon DEF HandingInv, TypeOK
  <2>6. SuspendedInv'
    BY Zenon DEF SuspendedInv, TypeOK, Alive
  <2>7. SwitchingInv'
    BY SMTT(30) DEF SwitchingInv, SuspendedInv, TypeOK, Alive, can_run
  <2>8. RunsAsItself' /\ EmptyInv' /\ WaitsOnlyForMail'
    BY Zenon DEF RunsAsItself, EmptyInv, WaitsOnlyForMail, TypeOK, Serving, can_run
  <2> QED
    BY <2>3, <2>4, <2>5, <2>6, <2>7, <2>8, Zenon
<1> QED
  BY <1>3, <1>4, Zenon

\* The end of a process: the CPU goes to somebody who can run, or to the
\* kernel when nobody can, which by then is waiting at its switch.
LEMMA EndCurrentKeeps ==
  ASSUME IInv, NEW i \in Slots, Calls(i), end_current(i)
  PROVE  IInv'
<1> DEFINE dead == [state EXCEPT ![current] = "Dead"]
           next == next_runnable(dead, current)
<1>1. /\ cpu = i /\ current = i /\ can_run(state[i]) /\ handed_over
      /\ pc[i] = "ring3" /\ i \notin in_tick /\ i # Kernel /\ ~switching
  BY Distinct, Zenon DEF IInv, RunsAsItself, Calls, At, Serving, SwitchingInv
<1>2. /\ Ready(dead) = {} => next = Nobody
      /\ Ready(dead) # {} => next \in Ready(dead)
  BY <1>1, NextRunnable, Zenon
<1>3. Ready(dead) = Ready(state) \ {i}
  BY <1>1, Zenon DEF IInv, TypeOK, Ready, can_run
<1>4. state' = dead /\ give_the_cpu_to(next)
  BY Zenon DEF end_current
<1>5. /\ pc' = [pc EXCEPT ![i] = "gone"] /\ irq_on' = FALSE
      /\ UNCHANGED <<mailbox, handed_over, first, in_tick, room>>
  BY Zenon DEF end_current
<1>6. state' = [state EXCEPT ![i] = "Dead"]
  BY <1>1, <1>4, Zenon
<1> HIDE DEF next, dead
<1>7. CASE Ready(dead) = {}
  <2>1. leave_for_the_kernel /\ Ready(state') = {}
    BY <1>2, <1>4, <1>7, Zenon DEF give_the_cpu_to
  <2>2. pc[Kernel] = "away" /\ KERNEL_RSP = Kernel /\ Kernel \notin in_tick
    <3>1. pc[Kernel] # "handing"
      <4>1. SUFFICES ASSUME pc[Kernel] = "handing" PROVE FALSE
        BY Zenon
      <4>2. first \in Slots /\ first # i /\ state[first] = "New"
        BY <1>1, <4>1, Zenon DEF IInv, HandingInv, TypeOK
      <4>3. first \in Ready(dead)
        BY <1>3, <4>2, Zenon DEF Ready, can_run
      <4> QED
        BY <1>7, <4>3, Zenon
    <3> QED
      BY <1>1, <3>1, Zenon DEF IInv, KernelInv
  <2> USE <1>1, <1>5, <1>6, <2>1, <2>2, Distinct
      DEF leave_for_the_kernel, switch, AfterResuming, IInv
  <2>3. TypeOK'
    BY ZenonT(30) DEF TypeOK, ProcessLabels, States
  <2>4. KernelInv'
    BY ZenonT(30) DEF KernelInv, TypeOK, KernelAt
  <2>5. HandingInv' /\ SwitchingInv'
    BY Zenon DEF HandingInv, SwitchingInv, TypeOK
  <2>6. SuspendedInv'
    BY Zenon DEF SuspendedInv, TypeOK, Alive
  <2>7. RunsAsItself' /\ EmptyInv' /\ WaitsOnlyForMail'
    BY Zenon DEF RunsAsItself, EmptyInv, WaitsOnlyForMail, TypeOK
  <2> QED
    BY <2>3, <2>4, <2>5, <2>6, <2>7, Zenon
<1>8. CASE Ready(dead) # {}
  <2>1. next \in Slots /\ next # i /\ can_run(state[next]) /\ next # Nobody
    BY <1>2, <1>3, <1>8, Distinct, Zenon DEF Ready
  <2>2. switch_to(i, next)
    BY <1>1, <1>4, <2>1, Zenon DEF give_the_cpu_to
  <2>3. \/ kernel_rsp[next] = next /\ ~(pc[Kernel] = "handing" /\ next = first)
        \/ /\ kernel_rsp[next] = Kernel /\ pc[Kernel] = "handing"
           /\ next = first /\ Kernel \in in_tick
    BY <1>1, <2>1, WhereASlotLeads, Zenon DEF Alive, can_run
  <2> USE <1>1, <1>5, <1>6, <2>1, <2>2, <2>3, Distinct
      DEF switch_to, switch, AfterResuming, IInv
  <2>4. TypeOK'
    BY Zenon DEF TypeOK, ProcessLabels, States
  <2>5. KernelInv'
    BY ZenonT(30) DEF KernelInv, TypeOK, KernelAt, HandingInv
  <2>6. HandingInv'
    BY ZenonT(30) DEF HandingInv, TypeOK
  <2>7. SuspendedInv'
    BY Zenon DEF SuspendedInv, TypeOK, Alive
  <2>8. SwitchingInv'
    <3>1. switching' => ~irq_on' /\ (cpu' \in in_tick' \/ pc'[cpu'] \in {"prepared", "yielded", "waiting"})
      BY SMTT(40) DEF SwitchingInv, SuspendedInv, TypeOK, Alive, can_run
    <3>2. ~irq_on'
      BY Zenon
    <3>3. \A f \in in_tick' : pc'[f] \notin {"yielded", "receiving", "waiting"}
      BY Zenon DEF SwitchingInv, TypeOK
    <3> QED
      BY <3>1, <3>2, <3>3, Zenon DEF SwitchingInv
  <2>9. RunsAsItself' /\ EmptyInv' /\ WaitsOnlyForMail'
    BY Zenon DEF RunsAsItself, EmptyInv, WaitsOnlyForMail, TypeOK, Serving, can_run
  <2> QED
    BY <2>4, <2>5, <2>6, <2>7, <2>8, <2>9, Zenon
<1> QED
  BY <1>7, <1>8, Zenon

------------------------------------------------------------------------------
(* The steps that do not *)

\* Out of the timer handler: `switching` is cleared before interrupts are on.
LEMMA TickReturnsKeeps ==
  ASSUME IInv, TickReturns
  PROVE  IInv'
<1> USE Distinct DEF TickReturns, IInv, slotVars, localVars
<1>1. TypeOK'
  BY ZenonT(30) DEF TypeOK
<1>2. KernelInv'
  BY Zenon DEF KernelInv, TypeOK, KernelAt, Ready, can_run
<1>3. HandingInv'
  BY Zenon DEF HandingInv, TypeOK, RunsAsItself
<1>4. SuspendedInv'
  BY Zenon DEF SuspendedInv, TypeOK, Alive, RunsAsItself, HandingInv
<1>5. SwitchingInv'
  BY Zenon DEF SwitchingInv, TypeOK, KernelInv
<1>6. RunsAsItself' /\ EmptyInv'
  BY Zenon DEF RunsAsItself, EmptyInv, TypeOK, Serving, can_run
<1>7. WaitsOnlyForMail'
  BY Zenon DEF WaitsOnlyForMail, TypeOK, RunsAsItself, can_run
<1> QED
  BY <1>1, <1>2, <1>3, <1>4, <1>5, <1>6, <1>7, Zenon

\* The first steps of a process: the slot it marks is its own.
LEMMA RunFirstKeeps ==
  ASSUME IInv, NEW i \in Slots, run_first(i)
  PROVE  IInv'
<1> USE Distinct DEF run_first, At, IInv, slotVars, localVars
<1>1. TypeOK'
  BY ZenonT(30) DEF TypeOK, ProcessLabels, States
<1>2. KernelInv'
  BY Zenon DEF KernelInv, TypeOK, KernelAt, Ready, can_run
<1>3. HandingInv'
  BY Zenon DEF HandingInv, TypeOK, RunsAsItself
<1>4. SuspendedInv'
  BY SMTT(30) DEF SuspendedInv, TypeOK, Alive, RunsAsItself, HandingInv
<1>5. SwitchingInv'
  BY Zenon DEF SwitchingInv, TypeOK, KernelInv
<1>6. RunsAsItself' /\ EmptyInv'
  BY Zenon DEF RunsAsItself, EmptyInv, TypeOK, Serving, can_run
<1>7. WaitsOnlyForMail'
  BY Zenon DEF WaitsOnlyForMail, TypeOK, RunsAsItself, can_run
<1> QED
  BY <1>1, <1>2, <1>3, <1>4, <1>5, <1>6, <1>7, Zenon

\* Into ring 3 for the first time, with no switch in flight.
LEMMA EnterKeeps ==
  ASSUME IInv, NEW i \in Slots, enter(i)
  PROVE  IInv'
<1> USE Distinct DEF enter, At, IInv, slotVars, localVars
<1>1. TypeOK'
  BY Zenon DEF TypeOK, ProcessLabels
<1>2. KernelInv'
  BY Zenon DEF KernelInv, TypeOK, KernelAt, Ready, can_run
<1>3. HandingInv'
  BY Zenon DEF HandingInv, TypeOK, RunsAsItself
<1>4. SuspendedInv'
  BY SMTT(30) DEF SuspendedInv, TypeOK, Alive, RunsAsItself, HandingInv
<1>5. SwitchingInv'
  BY Zenon DEF SwitchingInv, TypeOK, KernelInv
<1>6. RunsAsItself' /\ EmptyInv'
  BY Zenon DEF RunsAsItself, EmptyInv, TypeOK, Serving, can_run
<1>7. WaitsOnlyForMail'
  BY Zenon DEF WaitsOnlyForMail, TypeOK, RunsAsItself, can_run
<1> QED
  BY <1>1, <1>2, <1>3, <1>4, <1>5, <1>6, <1>7, Zenon

\* Back from `yield`.
LEMMA YieldReturnsKeeps ==
  ASSUME IInv, NEW i \in Slots, YieldReturns(i)
  PROVE  IInv'
<1> USE Distinct DEF YieldReturns, At, IInv, slotVars, localVars
<1>1. TypeOK'
  BY ZenonT(30) DEF TypeOK, ProcessLabels
<1>2. KernelInv'
  BY Zenon DEF KernelInv, TypeOK, KernelAt, Ready, can_run
<1>3. HandingInv'
  BY Zenon DEF HandingInv, TypeOK, RunsAsItself
<1>4. SuspendedInv'
  BY SMTT(30) DEF SuspendedInv, TypeOK, Alive, RunsAsItself, HandingInv
<1>5. SwitchingInv'
  BY Zenon DEF SwitchingInv, TypeOK, KernelInv
<1>6. RunsAsItself' /\ EmptyInv'
  BY Zenon DEF RunsAsItself, EmptyInv, TypeOK, Serving, can_run
<1>7. WaitsOnlyForMail'
  BY Zenon DEF WaitsOnlyForMail, TypeOK, RunsAsItself, can_run
<1> QED
  BY <1>1, <1>2, <1>3, <1>4, <1>5, <1>6, <1>7, Zenon

\* Into `recv`.
LEMMA RecvKeeps ==
  ASSUME IInv, NEW i \in Slots, NEW capacity \in 0 .. CAPACITY, Recv(i, capacity)
  PROVE  IInv'
<1> USE Distinct DEF Recv, Calls, At, IInv, slotVars, localVars
<1>1. TypeOK'
  BY ZenonT(30) DEF TypeOK, ProcessLabels
<1>2. KernelInv'
  BY Zenon DEF KernelInv, TypeOK, KernelAt, Ready, can_run
<1>3. HandingInv'
  BY Zenon DEF HandingInv, TypeOK, RunsAsItself
<1>4. SuspendedInv'
  BY SMTT(30) DEF SuspendedInv, TypeOK, Alive, RunsAsItself, HandingInv
<1>5. SwitchingInv'
  BY Zenon DEF SwitchingInv, TypeOK, KernelInv
<1>6. RunsAsItself' /\ EmptyInv'
  BY Zenon DEF RunsAsItself, EmptyInv, TypeOK, Serving, can_run
<1>7. WaitsOnlyForMail'
  BY Zenon DEF WaitsOnlyForMail, TypeOK, RunsAsItself, can_run
<1> QED
  BY <1>1, <1>2, <1>3, <1>4, <1>5, <1>6, <1>7, Zenon

\* A message is taken, or left because the buffer is too small.
LEMMA TakeMessageKeeps ==
  ASSUME IInv, NEW i \in Slots, TakeMessage(i)
  PROVE  IInv'
<1> USE Distinct DEF TakeMessage, BackInRing3, At, IInv, slotVars, localVars
<1>1. TypeOK'
  BY Zenon DEF TypeOK, ProcessLabels
<1>2. KernelInv'
  BY Zenon DEF KernelInv, TypeOK, KernelAt, Ready, can_run
<1>3. HandingInv'
  BY Zenon DEF HandingInv, TypeOK, RunsAsItself
<1>4. SuspendedInv'
  BY Zenon DEF SuspendedInv, TypeOK, Alive, RunsAsItself, HandingInv
<1>5. SwitchingInv'
  BY Zenon DEF SwitchingInv, TypeOK, KernelInv
<1>6. RunsAsItself' /\ EmptyInv'
  BY Zenon DEF RunsAsItself, EmptyInv, TypeOK, Serving, can_run
<1>7. WaitsOnlyForMail'
  BY Zenon DEF WaitsOnlyForMail, TypeOK, RunsAsItself, can_run
<1> QED
  BY <1>1, <1>2, <1>3, <1>4, <1>5, <1>6, <1>7, ZenonT(30)

\* Woken, and given the CPU.
LEMMA WaitReturnsKeeps ==
  ASSUME IInv, NEW i \in Slots, WaitReturns(i)
  PROVE  IInv'
<1> USE Distinct DEF WaitReturns, At, IInv, slotVars, localVars
<1>1. TypeOK'
  BY ZenonT(30) DEF TypeOK, ProcessLabels
<1>2. KernelInv'
  BY Zenon DEF KernelInv, TypeOK, KernelAt, Ready, can_run
<1>3. HandingInv'
  BY Zenon DEF HandingInv, TypeOK, RunsAsItself
<1>4. SuspendedInv'
  BY SMTT(30) DEF SuspendedInv, TypeOK, Alive, RunsAsItself, HandingInv
<1>5. SwitchingInv'
  BY Zenon DEF SwitchingInv, TypeOK, KernelInv
<1>6. RunsAsItself' /\ EmptyInv'
  BY Zenon DEF RunsAsItself, EmptyInv, TypeOK, Serving, can_run
<1>7. WaitsOnlyForMail'
  BY Zenon DEF WaitsOnlyForMail, TypeOK, RunsAsItself, can_run
<1> QED
  BY <1>1, <1>2, <1>3, <1>4, <1>5, <1>6, <1>7, Zenon

\* A message arrives: whoever waited for it does not wait any more.
LEMMA SendKeeps ==
  ASSUME IInv, NEW i \in Slots, NEW to \in Slots, NEW len \in 1 .. CAPACITY, Send(i, to, len)
  PROVE  IInv'
<1>0. current = i /\ [from |-> current, len |-> len] \in Delivery
  BY DeliveryIsMail, Zenon DEF Send, Calls, At, IInv, RunsAsItself
<1> USE <1>0, Distinct, DeliveryIsMail DEF Send, Calls, At, Deliverable, woken, IInv, slotVars, localVars
<1>1. TypeOK'
  BY Zenon DEF TypeOK, States
<1>2. KernelInv'
  BY Zenon DEF KernelInv, TypeOK, KernelAt, Ready, can_run
<1>3. HandingInv'
  BY Zenon DEF HandingInv, TypeOK, RunsAsItself
<1>4. SuspendedInv'
  BY ZenonT(30) DEF SuspendedInv, TypeOK, Alive, RunsAsItself, HandingInv
<1>5. SwitchingInv'
  BY ZenonT(30) DEF SwitchingInv, TypeOK, KernelInv
<1>6. RunsAsItself' /\ EmptyInv'
  BY Zenon DEF RunsAsItself, EmptyInv, TypeOK, Serving, can_run
<1>7. WaitsOnlyForMail'
  BY Zenon DEF WaitsOnlyForMail, TypeOK, RunsAsItself, can_run
<1> QED
  BY <1>1, <1>2, <1>3, <1>4, <1>5, <1>6, <1>7, Zenon
------------------------------------------------------------------------------
(* The theorems *)

\* Every action keeps IInv.
LEMMA NextKeeps == IInv /\ [Next]_vars => IInv'
<1> SUFFICES ASSUME IInv, [Next]_vars PROVE IInv'
  BY Zenon
<1>1. ASSUME NEW i \in Slots, AddProcess(i) PROVE IInv'
  BY <1>1, AddProcessKeeps, Zenon
<1>2. CASE KernelStep
  BY Zenon, <1>2, RunUntilEmptyKeeps, HandOverKeeps, KernelBackKeeps,
     IntoTheShellKeeps DEF KernelStep
<1>3. CASE Tick
  BY <1>3, TickInAProcessKeeps, TickInTheKernelKeeps, Zenon
<1>4. CASE TickReturns
  BY <1>4, TickReturnsKeeps, Zenon
<1>5. ASSUME NEW i \in Slots, UserStep(i) PROVE IInv'
  BY <1>5, YieldKeeps, SendKeeps, RecvKeeps, EndCurrentKeeps, Zenon
     DEF UserStep, Exit, Fault
<1>6. ASSUME NEW i \in Slots, ServiceStep(i) PROVE IInv'
  BY Zenon, <1>6, RunFirstKeeps, EnterKeeps, YieldReturnsKeeps, TakeMessageKeeps,
     WaitForMessageKeeps, WaitReturnsKeeps DEF ServiceStep
<1>7. CASE UNCHANGED vars
  BY <1>7, StutterKeeps, Zenon
<1> QED
  BY <1>1, <1>2, <1>3, <1>4, <1>5, <1>6, <1>7, Zenon DEF Next

\* IInv holds of the scheduler for ever, whatever MAX_PROCESSES is.
THEOREM Invariance == Spec => []IInv
BY InitIInv, NextKeeps, PTL DEF Spec

\* Every variable keeps its type: in particular the CPU is never switched to
\* a stack pointer nobody left, such as the zero in KERNEL_RSP.
THEOREM TypeCorrect == Spec => []TypeOK
<1>1. IInv => TypeOK
  BY Zenon DEF IInv
<1> QED
  BY <1>1, Invariance, PTL

\* No stack is lost: every live process and the kernel can be resumed, even
\* when a tick cuts the hand-over of `run_until_empty` in two.
THEOREM NoStackIsLost == Spec => []EveryFlowIsHeld
<1>1. IInv => EveryFlowIsHeld
  <2> SUFFICES ASSUME IInv PROVE EveryFlowIsHeld
    BY Zenon
  <2>1. ASSUME NEW i \in Slots, Alive(i), cpu # i
        PROVE  kernel_rsp[i] = i \/ ThroughTheKernel(i)
    BY <2>1, Zenon DEF IInv, SuspendedInv, HandingInv, ThroughTheKernel
  <2>2. ASSUME cpu # Kernel, KERNEL_RSP # Kernel
        PROVE  \E i \in Ready(state) : kernel_rsp[i] = Kernel
    <3>1. pc[Kernel] = "handing"
      BY <2>2, Zenon DEF IInv, KernelInv
    <3>2. first \in Ready(state) /\ kernel_rsp[first] = Kernel
      BY <2>2, <3>1, Zenon DEF IInv, HandingInv, TypeOK, Ready, can_run
    <3> QED
      BY <3>2, Zenon
  <2> QED
    BY <2>1, <2>2, Zenon DEF EveryFlowIsHeld
<1> QED
  BY <1>1, Invariance, PTL

\* Whoever runs is the process the scheduler says is running, alive, in its
\* own address space and with its own kernel stack to enter on.
THEOREM EachRunsAsItself == Spec => []RunsAsItself
<1>1. IInv => RunsAsItself
  BY Zenon DEF IInv
<1> QED
  BY <1>1, Invariance, PTL

\* `switching` never makes the timer skip a turn.
THEOREM TicksCount == Spec => []NoTickIsDropped
<1>1. IInv => NoTickIsDropped
  BY Zenon DEF IInv, SwitchingInv, NoTickIsDropped
<1> QED
  BY <1>1, Invariance, PTL

\* Waiting and an empty mailbox go together: no wake-up is lost.
THEOREM NoLostWakeUp == Spec => []WaitsOnlyForMail
<1>1. IInv => WaitsOnlyForMail
  BY Zenon DEF IInv
<1> QED
  BY <1>1, Invariance, PTL

\* `run_until_empty` returns only when nobody is left half done.
THEOREM TheKernelIsLast == Spec => []KernelComesBackLast
<1>1. IInv => KernelComesBackLast
  BY Zenon DEF IInv, KernelInv, KernelComesBackLast
<1> QED
  BY <1>1, Invariance, PTL
------------------------------------------------------------------------------
(* What a step may never do *)

\* Which actions leave every mailbox alone.
LEMMA MailboxesAlone ==
  ASSUME KernelStep \/ Tick \/ TickReturns
         \/ \E i \in Slots : \/ Yield(i) \/ Exit(i) \/ Fault(i)
                             \/ run_first(i) \/ enter(i) \/ YieldReturns(i)
                             \/ WaitForMessage(i) \/ WaitReturns(i)
                             \/ \E capacity \in 0 .. CAPACITY : Recv(i, capacity)
  PROVE  UNCHANGED mailbox
BY Zenon DEF KernelStep, RunUntilEmpty, HandOver, KernelBack, IntoTheShell, Tick,
       TickReturns, Yield, Exit, Fault, end_current, run_first, enter,
       YieldReturns, WaitForMessage, WaitReturns, Recv, vars, slotVars

\* A delivered message is taken by its owner, once, and by nobody else.
THEOREM MailIsTakenOnce == Spec => MessagesAreTakenOnce
<1> DEFINE A == \A i \in Slots : mailbox[i] # NoMessage /\ mailbox'[i] # mailbox[i] =>
                  mailbox'[i] = NoMessage /\ cpu = i
<1>1. ASSUME IInv, [Next]_vars PROVE [A]_vars
  <2>1. CASE UNCHANGED mailbox
    BY <2>1, Zenon
  <2>2. ASSUME NEW i \in Slots, AddProcess(i) PROVE A
    BY <1>1, <2>2, Zenon DEF AddProcess, IInv, EmptyInv, TypeOK
  <2>3. ASSUME NEW i \in Slots, NEW to \in Slots, NEW len \in 1 .. CAPACITY,
               Send(i, to, len)
        PROVE  A
    BY <1>1, <2>3, Zenon DEF Send, Deliverable, IInv, TypeOK
  <2>4. ASSUME NEW i \in Slots, TakeMessage(i) PROVE A
    BY <1>1, <2>4, Zenon DEF TakeMessage, At, IInv, TypeOK, RunsAsItself
  <2>5. CASE UNCHANGED vars
    BY <2>5, Zenon
  <2> QED
    BY <1>1, <2>1, <2>2, <2>3, <2>4, <2>5, MailboxesAlone, Zenon
       DEF Next, UserStep, ServiceStep
<1> QED
  BY <1>1, Invariance, PTL DEF Spec, MessagesAreTakenOnce

\* The dead stay dead and never have the CPU again.
THEOREM TheDeadStayDead == Spec => DeathIsFinal
<1> DEFINE A == \A i \in Slots : state[i] = "Dead" => state'[i] = "Dead" /\ cpu' # i
<1>1. ASSUME IInv, IInv', [Next]_vars PROVE [A]_vars
  <2>1. CASE UNCHANGED vars
    BY <2>1, Zenon
  <2>2. CASE Next
    <3>1. \A i \in Slots : state[i] = "Dead" => state'[i] = "Dead"
      <4> SUFFICES ASSUME NEW d \in Slots, state[d] = "Dead"
                   PROVE  state'[d] = "Dead"
        BY Zenon
      <4>0. cpu \in Slots => current = cpu /\ state[cpu] # "Dead"
        BY <1>1, ZenonT(30) DEF IInv, RunsAsItself, can_run
      <4> USE <1>1 DEF IInv, TypeOK
      <4>1. ASSUME NEW i \in Slots, AddProcess(i) PROVE state'[d] = "Dead"
        BY <4>1, ZenonT(30) DEF AddProcess
      <4>2. CASE KernelStep
        BY <4>2, ZenonT(30) DEF KernelStep, RunUntilEmpty, HandOver, KernelBack,
                    IntoTheShell, slotVars
      <4>3. CASE Tick \/ TickReturns
        BY <4>3, Zenon DEF Tick, TickReturns, vars, slotVars
      <4>4. ASSUME NEW i \in Slots, UserStep(i) PROVE state'[d] = "Dead"
        BY <4>0, <4>4, ZenonT(30) DEF UserStep, Yield, Send, Recv, Exit, Fault,
                          end_current, Calls, At, slotVars
      <4>5. ASSUME NEW i \in Slots, ServiceStep(i) PROVE state'[d] = "Dead"
        BY <4>0, <4>5, ZenonT(30) DEF ServiceStep, run_first, enter, YieldReturns,
                          TakeMessage, WaitForMessage, WaitReturns, At,
                          slotVars
      <4> QED
        BY <2>2, <4>1, <4>2, <4>3, <4>4, <4>5, Zenon DEF Next
    <3>2. \A i \in Slots : state'[i] = "Dead" => cpu' # i
      BY <1>1, Zenon DEF IInv, RunsAsItself, can_run
    <3> QED
      BY <3>1, <3>2, Zenon
  <2> QED
    BY <1>1, <2>1, <2>2, Zenon
<1> QED
  BY <1>1, Invariance, PTL DEF Spec, DeathIsFinal
------------------------------------------------------------------------------
(* Scheduler implements Processes *)

\* The four lives, and which states they stand for.
LEMMA Lives ==
  \A s \in States :
    /\ Life(s) \in {"unborn", "ready", "waiting", "dead"}
    /\ Life(s) = "unborn" <=> s = "Empty"
    /\ Life(s) = "ready" <=> can_run(s)
    /\ Life(s) = "waiting" <=> s = "Blocked"
    /\ Life(s) = "dead" <=> s = "Dead"
BY Zenon DEF Life, States, can_run

\* A step that leaves the mailboxes and every life as they are is no step of
\* Processes at all.
LEMMA SameLives ==
  ASSUME UNCHANGED mailbox, \A i \in Slots : Life(state'[i]) = Life(state[i])
  PROVE  UNCHANGED Promise!vars
BY Zenon DEF Promise!vars

\* The scheduler keeps every promise of Processes: what a process can see of
\* the others is a step of Processes, or nothing.
THEOREM Refinement == Spec => ImplementsProcesses
<1>1. Init => Promise!Init
  BY Zenon DEF Init, Promise!Init, Life, can_run
<1>2. ASSUME IInv, IInv', [Next]_vars PROVE [Promise!Next]_(Promise!vars)
  <2> DEFINE life == [i \in Slots |-> Life(state[i])]
  <2>0. /\ cpu \in Slots => current = cpu /\ can_run(state[cpu])
        /\ state \in [Slots -> States] /\ state' \in [Slots -> States]
    BY <1>2, Zenon DEF IInv, RunsAsItself, TypeOK
  <2>m. /\ \A i \in Slots : state[i] = "Empty" => mailbox[i] = NoMessage
        /\ mailbox = [i \in Slots |-> mailbox[i]]
    <3>1. EmptyInv /\ TypeOK
      BY <1>2, Zenon DEF IInv
    <3>2. mailbox = [i \in Slots |-> mailbox[i]]
      BY <3>1, Zenon DEF TypeOK
    <3> QED
      BY <3>1, <3>2, Zenon DEF EmptyInv
  <2> USE <1>2, <2>0, Lives
  <2>1. CASE UNCHANGED <<state, mailbox>>
    BY <2>1, SameLives, Zenon
  <2>2. ASSUME NEW i \in Slots, AddProcess(i) PROVE Promise!Start(i)
    <3>1. state[i] = "Empty" /\ state' = [state EXCEPT ![i] = "New"]
          /\ mailbox' = [mailbox EXCEPT ![i] = NoMessage]
      BY <2>2, Zenon DEF AddProcess
    <3>2. UNCHANGED mailbox
      BY <2>m, <3>1
    <3>3. [j \in Slots |-> Life(state'[j])] = [life EXCEPT ![i] = "ready"]
      BY <3>1, ZenonT(30) DEF Life, can_run
    <3>4. life[i] = "unborn"
      BY <3>1, Zenon
    <3> QED
      BY <3>2, <3>3, <3>4, Zenon DEF Promise!Start
  <2>3. CASE KernelBack
    <3>1. KernelAt("away") /\ UNCHANGED mailbox
      BY <2>3, Zenon DEF KernelBack
    <3>2. Ready(state) = {}
      BY <3>1, Zenon DEF IInv, KernelInv
    <3>3. \A i \in Slots : ~can_run(state[i])
      BY <3>2, Zenon DEF Ready
    <3>4. state' = [i \in Slots |-> IF state[i] = "Blocked" THEN "Dead" ELSE state[i]]
      BY <2>3, Zenon DEF KernelBack
    <3>5. Promise!GiveUp
      BY <3>1, <3>3, <3>4, SMTT(30) DEF Promise!GiveUp, Life, can_run, States
    <3> QED
      BY <3>5, Zenon DEF Promise!Next
  <2>4. ASSUME NEW i \in Slots, run_first(i) PROVE UNCHANGED Promise!vars
    <3>1. UNCHANGED mailbox /\ state' = [state EXCEPT ![i] = "Runnable"]
          /\ can_run(state[i])
      BY <2>4, Zenon DEF run_first, At
    <3>2. \A j \in Slots : Life(state'[j]) = Life(state[j])
      BY <3>1, Zenon DEF Life, can_run, States
    <3> QED
      BY <3>1, <3>2, SameLives, ZenonT(30)
  <2>5. ASSUME NEW i \in Slots, NEW to \in Slots, NEW len \in 1 .. CAPACITY,
               Send(i, to, len)
        PROVE  Promise!Send(i, to, len)
    <3>1. /\ current = i /\ can_run(state[i]) /\ mailbox[to] = NoMessage
          /\ state[to] \notin {"Empty", "Dead"}
          /\ mailbox' = [mailbox EXCEPT ![to] = [from |-> i, len |-> len]]
          /\ state' = [state EXCEPT ![to] = woken(@)]
      BY <2>5, Zenon DEF Send, Calls, At, Deliverable
    <3>2. [j \in Slots |-> Life(state'[j])] = [life EXCEPT ![to] = "ready"]
      BY <3>1, Zenon DEF woken, Life, can_run, States
    <3> QED
      BY <3>1, <3>2, Zenon DEF Promise!Send, can_run, States
  <2>6. ASSUME NEW i \in Slots, TakeMessage(i)
        PROVE  Promise!Take(i) \/ UNCHANGED Promise!vars
    <3>1. current = i /\ can_run(state[i]) /\ UNCHANGED state
      BY <2>6, ZenonT(30) DEF TakeMessage, At
    <3>2. /\ mailbox[i] # NoMessage
          /\ \/ mailbox' = [mailbox EXCEPT ![i] = NoMessage]
             \/ UNCHANGED mailbox
      BY <2>6, <3>1, Zenon DEF TakeMessage
    <3> QED
      BY <3>1, <3>2, SameLives, ZenonT(30) DEF Promise!Take
  <2>7. ASSUME NEW i \in Slots, WaitForMessage(i)
        PROVE  Promise!Wait(i) \/ UNCHANGED Promise!vars
    <3>1. /\ current = i /\ can_run(state[i]) /\ UNCHANGED mailbox
          /\ mailbox[i] = NoMessage
      BY <2>7, Zenon DEF WaitForMessage, At
    <3>2. CASE UNCHANGED state
      BY <3>1, <3>2, SameLives, ZenonT(30)
    <3>3. CASE ~ UNCHANGED state
      <4>1. /\ state' = [state EXCEPT ![i] = "Blocked"]
            /\ next_runnable(state, i) \notin {Nobody, i}
        BY <2>7, <3>1, <3>3, ZenonT(30) DEF WaitForMessage
      <4>2. PICK q \in Ready(state) : q # i
        BY <4>1, NextRunnable, Zenon
      <4>3. q \in Slots \ {i} /\ life[q] = "ready"
        BY <4>2, Zenon DEF Ready
      <4>4. [j \in Slots |-> Life(state'[j])] = [life EXCEPT ![i] = "waiting"]
        BY <4>1, ZenonT(30) DEF Life, can_run
      <4>5. life[i] = "ready" /\ mailbox[i] = NoMessage /\ UNCHANGED mailbox
        BY <3>1, Zenon
      <4> QED
        BY <4>3, <4>4, <4>5, Zenon DEF Promise!Wait
    <3> QED
      BY <3>2, <3>3, Zenon
  <2>8. ASSUME NEW i \in Slots, Exit(i) \/ Fault(i) PROVE Promise!End(i)
    <3>1. /\ current = i /\ can_run(state[i]) /\ UNCHANGED mailbox
          /\ state' = [state EXCEPT ![i] = "Dead"]
      BY <2>8, ZenonT(30) DEF Exit, Fault, Calls, At, end_current
    <3>2. [j \in Slots |-> Life(state'[j])] = [life EXCEPT ![i] = "dead"]
      BY <3>1, ZenonT(30) DEF Life, can_run
    <3>3. life[i] = "ready"
      BY <3>1, Zenon
    <3> QED
      BY <3>1, <3>2, <3>3, Zenon DEF Promise!End
  <2>9. CASE RunUntilEmpty \/ HandOver \/ IntoTheShell \/ Tick \/ TickReturns
    BY <2>1, <2>9, Zenon DEF RunUntilEmpty, HandOver, IntoTheShell, Tick, TickReturns,
                      vars, slotVars
  <2>10. ASSUME NEW i \in Slots,
                Yield(i) \/ enter(i) \/ YieldReturns(i) \/ WaitReturns(i)
                \/ \E capacity \in 0 .. CAPACITY : Recv(i, capacity)
         PROVE  UNCHANGED <<state, mailbox>>
    BY <2>10, Zenon DEF Yield, enter, YieldReturns, WaitReturns, Recv, slotVars
  <2>11. CASE UNCHANGED vars
    BY <2>1, <2>11, Zenon DEF vars, slotVars
  <2> HIDE DEF life
  <2> QED
    BY <2>1, <2>2, <2>3, <2>4, <2>5, <2>6, <2>7, <2>8, <2>9, <2>10, <2>11, SMTT(30)
       DEF Next, KernelStep, UserStep, ServiceStep, Promise!Next
<1> QED
  BY <1>1, <1>2, Invariance, PTL DEF Spec, ImplementsProcesses, Promise!Spec
==============================================================================
