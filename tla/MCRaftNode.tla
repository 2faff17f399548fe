----------------------------- MODULE MCRaftNode -----------------------------
(* Instances of RaftNode for TLC. *)
EXTENDS RaftNode

CONSTANTS a, b, c

\* a leads the first term, and in the second it meets b.
Rematch == {<<a, 1>>, <<a, 2>>, <<b, 2>>}

\* A client and a fault, two faults, or all calls at once.
LossyOrBusy == {[log |-> 2, open |-> 1, faults |-> 1], [log |-> 1, open |-> 1, faults |-> 2],
                [log |-> 1, open |-> 4, faults |-> 0]}
=============================================================================
