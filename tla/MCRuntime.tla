------------------------------ MODULE MCRuntime ------------------------------
(* Runtime on small instances: subscriptions and reply calls.              *)
EXTENDS Runtime, TLC

CONSTANTS a, g, m1, m2, m3, r1

CapacityOne == [ch \in Channels |-> 1]

\* One dispatcher, or two that compete for what its group receives.
OneDispatcher == <<<<a, g>>>>
Competing     == <<<<a, g>>, <<a, g>>>>

\* m1 asks for a reply on the channel that it comes from, whoever handles it.
SelfReplyTo == [m \in Messages |-> IF m = m1 THEN a ELSE None]
TheReply    == [d \in Consumers |-> [m \in Messages |-> IF m = m1 THEN r1 ELSE None]]
=============================================================================
