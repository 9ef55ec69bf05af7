----------------------------- MODULE MCDnsMaster -----------------------------
(* DnsMaster on small instances: users, addresses and threads are alike.   *)
EXTENDS DnsMaster, TLC

Symmetric == Permutations(User) \cup Permutations(Addr) \cup Permutations(Req)
=============================================================================
