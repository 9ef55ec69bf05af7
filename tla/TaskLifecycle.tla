---------------------------- MODULE TaskLifecycle ----------------------------
(***************************************************************************)
(* What the node's task queue promises, without saying how: a submitted    *)
(* task waits, is started at most once and is then settled (done or error) *)
(* or lost with the process that ran it.  A settled or a lost task is      *)
(* never run again: libs/tasks has no retry and no recovery at start.      *)
(***************************************************************************)
CONSTANT Task           \* task ids (queue.py draws them with uuid4)

VARIABLES
  waiting,              \* submitted, not started
  running,              \* started by a worker that still runs
  settled,              \* finished, with status done or error
  lost                  \* started by a worker that is gone

vars == <<waiting, running, settled, lost>>

known == waiting \cup running \cup settled \cup lost

Init ==
  /\ waiting = {}
  /\ running = {}
  /\ settled = {}
  /\ lost = {}

(* A new task enters the queue. *)
Submit(t) ==
  /\ t \in Task \ known
  /\ waiting' = waiting \cup {t}
  /\ UNCHANGED <<running, settled, lost>>

(* A worker starts a waiting task. *)
Start(t) ==
  /\ t \in waiting
  /\ waiting' = waiting \ {t}
  /\ running' = running \cup {t}
  /\ UNCHANGED <<settled, lost>>

(* The task's worker reports its result. *)
Settle(t) ==
  /\ t \in running
  /\ running' = running \ {t}
  /\ settled' = settled \cup {t}
  /\ UNCHANGED <<waiting, lost>>

(* A worker starts a task and is gone before it can run it. *)
Drop(t) ==
  /\ t \in waiting
  /\ waiting' = waiting \ {t}
  /\ lost' = lost \cup {t}
  /\ UNCHANGED <<running, settled>>

(* Workers vanish, alone or with the process, with the tasks they ran. *)
Lose(S) ==
  /\ S # {}
  /\ S \subseteq running
  /\ running' = running \ S
  /\ lost' = lost \cup S
  /\ UNCHANGED <<waiting, settled>>

Next ==
  \/ \E t \in Task : Submit(t) \/ Start(t) \/ Settle(t) \/ Drop(t)
  \/ \E S \in SUBSET Task : Lose(S)

Spec == Init /\ [][Next]_vars
=============================================================================
