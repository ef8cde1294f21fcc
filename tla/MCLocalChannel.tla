--------------------------- MODULE MCLocalChannel ---------------------------
(* Channels of both kinds on small instances. *)
EXTENDS BroadcastChannel, TLC

MCCapacity == [ch \in Channels |-> 1]
MCSlots    == [ch \in Channels |-> 1]
=============================================================================
