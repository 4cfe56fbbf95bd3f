----------------------------- MODULE MCDevices ------------------------------
(* Instances of Devices for TLC: a hub and a port of it.                   *)
EXTENDS Devices, TLC
CONSTANTS hub, dev

Tree == (hub :> None) @@ (dev :> hub)

Symmetries == Permutations(Devs)

=============================================================================
