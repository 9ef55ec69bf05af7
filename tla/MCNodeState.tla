----------------------------- MODULE MCNodeState -----------------------------
(* NodeState on small instances: requests are alike.                       *)
EXTENDS NodeState, TLC

Symmetric == Permutations(Req)
=============================================================================
