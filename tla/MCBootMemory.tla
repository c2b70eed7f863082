---------------------------- MODULE MCBootMemory ----------------------------
(* The boot on small machines. *)
EXTENDS BootMemory, SmallMachines

MCMachines == MachinesWithin([capacity |-> CAPACITY, limit |-> DEFAULT_IDENTITY_LIMIT])
=============================================================================
