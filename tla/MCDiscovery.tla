----------------------------- MODULE MCDiscovery -----------------------------
(***************************************************************************)
(* Peers of which one is on the subnet and one does not speak Kademlia.    *)
(* The others compete for one place in the routing table, for its pending  *)
(* slot and for two slots of the event channel.                            *)
(***************************************************************************)
EXTENDS Discovery

CONSTANTS p1, p2, p3, p4
=============================================================================
