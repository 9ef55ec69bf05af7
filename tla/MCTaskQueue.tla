---------------------------- MODULE MCTaskQueue ----------------------------
(* TaskQueue on small instances: the safety runs use symmetry in the tasks, *)
(* the workers and the clients, the liveness run does not.                  *)
EXTENDS TaskQueue, TLC

Symmetry ==
  Permutations(Task) \cup Permutations(Worker) \cup Permutations(Client)
=============================================================================
