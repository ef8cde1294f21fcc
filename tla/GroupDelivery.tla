---------------------------- MODULE GroupDelivery ---------------------------
(***************************************************************************)
(* What a channel promises each of its consumer groups, without senders,   *)
(* locks, clones or timeouts: the group is a bounded first-in first-out    *)
(* stream that takes a message at most once, hands every message out       *)
(* exactly once and in order, and is declared closed only when it is       *)
(* drained, after which it never takes another message.                    *)
(***************************************************************************)
EXTENDS Integers, Sequences

CONSTANTS
  Streams,   \* the consumer groups
  Messages,  \* the messages
  Bound      \* capacity of each stream

VARIABLES
  accepted,  \* per stream, the messages taken so far
  handed,    \* per stream, how many of them were handed out
  over       \* the streams declared closed

streamVars == <<accepted, handed, over>>

Init ==
  /\ accepted = [s \in Streams |-> <<>>]
  /\ handed = [s \in Streams |-> 0]
  /\ over = {}

Accept(s, m) ==
  /\ s \notin over
  /\ \A i \in 1..Len(accepted[s]) : accepted[s][i] # m
  /\ Len(accepted[s]) - handed[s] < Bound[s]
  /\ accepted' = [accepted EXCEPT ![s] = Append(@, m)]
  /\ UNCHANGED <<handed, over>>

HandOut(s) ==
  /\ handed[s] < Len(accepted[s])
  /\ handed' = [handed EXCEPT ![s] = @ + 1]
  /\ UNCHANGED <<accepted, over>>

DeclareClosed(s) ==
  /\ handed[s] = Len(accepted[s])
  /\ over' = over \cup {s}
  /\ UNCHANGED <<accepted, handed>>

Next ==
  \E s \in Streams :
    \/ \E m \in Messages : Accept(s, m)
    \/ HandOut(s)
    \/ DeclareClosed(s)

Spec == Init /\ [][Next]_streamVars

=============================================================================
