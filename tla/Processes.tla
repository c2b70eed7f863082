------------------------------ MODULE Processes ------------------------------
(***************************************************************************)
(* What the kernel promises its processes, with no CPU in sight: each one  *)
(* is ready, waits for a message or is dead; it acts only while it is      *)
(* ready; it has one mailbox, written by others and emptied by itself.     *)
(* Module Scheduler implements this on one CPU, with stacks and a timer.   *)
(***************************************************************************)
EXTENDS Integers

CONSTANTS Procs,      \* the processes there can be
          Lengths,    \* lengths of a message
          NoMessage   \* an empty mailbox

VARIABLES life, box
vars == <<life, box>>

Init ==
  /\ life = [p \in Procs |-> "unborn"]
  /\ box = [p \in Procs |-> NoMessage]

Start(p) ==
  /\ life[p] = "unborn"
  /\ life' = [life EXCEPT ![p] = "ready"]
  /\ UNCHANGED box

\* A message says who sent it, goes to somebody alive whose mailbox is empty,
\* and ends the wait of whoever it is for.
Send(p, q, len) ==
  /\ life[p] = "ready"
  /\ life[q] \in {"ready", "waiting"}
  /\ box[q] = NoMessage
  /\ box' = [box EXCEPT ![q] = [from |-> p, len |-> len]]
  /\ life' = [life EXCEPT ![q] = "ready"]

Take(p) ==
  /\ life[p] = "ready"
  /\ box[p] # NoMessage
  /\ box' = [box EXCEPT ![p] = NoMessage]
  /\ UNCHANGED life

\* Waiting is for a message somebody could still send.
Wait(p) ==
  /\ life[p] = "ready"
  /\ box[p] = NoMessage
  /\ \E q \in Procs \ {p} : life[q] = "ready"
  /\ life' = [life EXCEPT ![p] = "waiting"]
  /\ UNCHANGED box

End(p) ==
  /\ life[p] = "ready"
  /\ life' = [life EXCEPT ![p] = "dead"]
  /\ UNCHANGED box

\* Those who wait are given up together, and only once nobody is left who
\* could write to them.
GiveUp ==
  /\ \A p \in Procs : life[p] # "ready"
  /\ life' = [p \in Procs |-> IF life[p] = "waiting" THEN "dead" ELSE life[p]]
  /\ UNCHANGED box

Next ==
  \/ \E p \in Procs : Start(p) \/ Take(p) \/ Wait(p) \/ End(p)
  \/ \E p, q \in Procs, len \in Lengths : Send(p, q, len)
  \/ GiveUp

Spec == Init /\ [][Next]_vars
==============================================================================
