--------------------------- MODULE MCRequestReply ---------------------------
(* RequestReply on small instances. *)
EXTENDS RequestReply, TLC

MCCalls    == Channels \X Workers
MCCapacity == [r \in Channels |-> 1]
=============================================================================
