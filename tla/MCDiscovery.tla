---------------------------- MODULE MCDiscovery ----------------------------
(* The inventory on small machines. *)
EXTENDS Discovery, SmallBuses

MCMachines == SmallBusMachines
=============================================================================
