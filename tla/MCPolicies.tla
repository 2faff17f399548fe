----------------------------- MODULE MCPolicies -----------------------------
(* Instances of Policies for TLC: which of two owners is which matters to *)
(* nobody, so they are interchangeable.                                   *)
EXTENDS Policies, TLC

CONSTANTS t, u
OwnersAlike == Permutations({t, u})
=============================================================================
