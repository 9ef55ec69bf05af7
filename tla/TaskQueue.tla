------------------------------ MODULE TaskQueue ------------------------------
(***************************************************************************)
(* libs/tasks/queue.py: the table of tasks in tasks.db, the threads that   *)
(* enqueue into it and the pool of worker threads that drains it.          *)
(*                                                                         *)
(* Every statement on the table runs under the module's lock, so one       *)
(* action of this module is one locked section; what happens between two   *)
(* of them interleaves.  The table survives a restart of the process, the  *)
(* threads do not.  A database call may raise (disk full, "database is     *)
(* locked" held by a second process): FaultLimit bounds how often.         *)
(***************************************************************************)
EXTENDS Naturals, FiniteSets

CONSTANTS
  Task,          \* task ids; uuid4().hex[:16], so never drawn twice
  Worker,        \* worker threads of one process (NODEADLINE_TASK_WORKERS)
  Client,        \* threads that call enqueue: HTTP handlers, workers
  NoTask,        \* not a task: what an idle thread holds
  ClockLimit,    \* bound on the clock, in seconds
  RestartLimit,  \* bound on the number of process restarts
  FaultLimit     \* bound on the number of database calls that raise

ASSUME QueueAssumption ==
  /\ NoTask \notin Task
  /\ ClockLimit \in Nat
  /\ RestartLimit \in Nat
  /\ FaultLimit \in Nat

VARIABLES
  status,        \* column status; "absent" when the row does not exist
  created,       \* column created_at, a time stamp of one second resolution
  committed,     \* history: the second in which the row was inserted
  clock,         \* the second the machine is in
  hand,          \* hand[c]: the id client c is about to insert
  stamp,         \* stamp[c]: the created_at it computed for it
  wpc,           \* where each worker is in its loop
  cur,           \* cur[w]: the task worker w has claimed
  restarts,      \* restarts so far
  faults         \* database calls that raised so far

vars == <<status, created, committed, clock, hand, stamp, wpc, cur,
          restarts, faults>>

Status  == {"absent", "pending", "processing", "done", "error"}
Settled == {"done", "error"}

(* poll: before claim_next_pending; run: inside dispatch_task; mark: the   *)
(* handler has returned; fail: in the except branch; dead: an exception    *)
(* left the loop and ended the thread.                                     *)
WorkerState == {"poll", "run", "mark", "fail", "dead"}

TypeOK ==
  /\ status \in [Task -> Status]
  /\ created \in [Task -> Nat]
  /\ committed \in [Task -> Nat]
  /\ clock \in Nat
  /\ hand \in [Client -> Task \cup {NoTask}]
  /\ stamp \in [Client -> Nat]
  /\ wpc \in [Worker -> WorkerState]
  /\ cur \in [Worker -> Task \cup {NoTask}]
  /\ restarts \in Nat
  /\ faults \in Nat

Init ==
  /\ status = [t \in Task |-> "absent"]
  /\ created = [t \in Task |-> 0]
  /\ committed = [t \in Task |-> 0]
  /\ clock = 0
  /\ hand = [c \in Client |-> NoTask]
  /\ stamp = [c \in Client |-> 0]
  /\ wpc = [w \in Worker |-> "poll"]
  /\ cur = [w \in Worker |-> NoTask]
  /\ restarts = 0
  /\ faults = 0

-----------------------------------------------------------------------------
(* The clock. *)
Tick ==
  /\ clock < ClockLimit
  /\ clock' = clock + 1
  /\ UNCHANGED <<status, created, committed, hand, stamp, wpc, cur, restarts,
                 faults>>

Fault ==
  /\ faults < FaultLimit
  /\ faults' = faults + 1

-----------------------------------------------------------------------------
(* Mutant: short ids, which a busy node draws twice. *)
DrawsIdTwice(c, t) ==
  /\ hand[c] = NoTask
  /\ hand' = [hand EXCEPT ![c] = t]
  /\ stamp' = [stamp EXCEPT ![c] = clock]
  /\ UNCHANGED <<status, created, committed, clock, wpc, cur, restarts, faults>>

(* enqueue: the id and the time stamp are drawn before the lock is taken.  *)
DrawId(c, t) ==
  /\ hand[c] = NoTask
  /\ status[t] = "absent"
  /\ \A d \in Client : hand[d] # t
  /\ hand' = [hand EXCEPT ![c] = t]
  /\ stamp' = [stamp EXCEPT ![c] = clock]
  /\ UNCHANGED <<status, created, committed, clock, wpc, cur, restarts, faults>>

(* enqueue: the locked INSERT. *)
InsertTask(c) ==
  /\ hand[c] # NoTask
  /\ status' = [status EXCEPT ![hand[c]] = "pending"]
  /\ created' = [created EXCEPT ![hand[c]] = stamp[c]]
  /\ committed' = [committed EXCEPT ![hand[c]] = clock]
  /\ hand' = [hand EXCEPT ![c] = NoTask]
  /\ UNCHANGED <<clock, stamp, wpc, cur, restarts, faults>>

(* enqueue raises: its caller is left without the task. *)
InsertFails(c) ==
  /\ hand[c] # NoTask
  /\ Fault
  /\ hand' = [hand EXCEPT ![c] = NoTask]
  /\ UNCHANGED <<status, created, committed, clock, stamp, wpc, cur, restarts>>

-----------------------------------------------------------------------------
(* claim_next_pending: ORDER BY created_at ASC LIMIT 1, ties in any order. *)
Pending == {t \in Task : status[t] = "pending"}

(* Mutants: the WHERE or the ORDER BY of the claim is wrong. *)
OldestUnsettled(t) ==
  /\ status[t] \in {"pending", "processing"}
  /\ \A u \in Pending : created[t] <= created[u]

OldestNotDone(t) ==
  /\ status[t] \in {"pending", "error"}
  /\ \A u \in Pending : created[t] <= created[u]

Newest(t) ==
  /\ t \in Pending
  /\ \A u \in Pending : created[t] >= created[u]

Oldest(t) ==
  /\ t \in Pending
  /\ \A u \in Pending : created[t] <= created[u]

(* Mutants: a status nobody reads; no claim while a row is processing. *)
ClaimMisnamed(w, t) ==
  /\ wpc[w] = "poll"
  /\ Oldest(t)
  /\ status' = [status EXCEPT ![t] = "running"]
  /\ wpc' = [wpc EXCEPT ![w] = "run"]
  /\ cur' = [cur EXCEPT ![w] = t]
  /\ UNCHANGED <<created, committed, clock, hand, stamp, restarts, faults>>

ClaimAlone(w, t) ==
  /\ \A u \in Task : status[u] # "processing"
  /\ wpc[w] = "poll"
  /\ Oldest(t)
  /\ status' = [status EXCEPT ![t] = "processing"]
  /\ wpc' = [wpc EXCEPT ![w] = "run"]
  /\ cur' = [cur EXCEPT ![w] = t]
  /\ UNCHANGED <<created, committed, clock, hand, stamp, restarts, faults>>

Claim(w, t) ==
  /\ wpc[w] = "poll"
  /\ Oldest(t)
  /\ status' = [status EXCEPT ![t] = "processing"]
  /\ wpc' = [wpc EXCEPT ![w] = "run"]
  /\ cur' = [cur EXCEPT ![w] = t]
  /\ UNCHANGED <<created, committed, clock, hand, stamp, restarts, faults>>

(* The claim raises before its commit.  It is called outside the try of    *)
(* _worker_loop: the thread ends.                                          *)
ClaimFails(w) ==
  /\ wpc[w] = "poll"
  /\ Fault
  /\ wpc' = [wpc EXCEPT ![w] = "dead"]
  /\ UNCHANGED <<status, created, committed, clock, hand, stamp, cur, restarts>>

(* The SELECT that follows the commit raises: the row is claimed, the      *)
(* thread ends.                                                            *)
ClaimReadFails(w, t) ==
  /\ wpc[w] = "poll"
  /\ Oldest(t)
  /\ Fault
  /\ status' = [status EXCEPT ![t] = "processing"]
  /\ wpc' = [wpc EXCEPT ![w] = "dead"]
  /\ UNCHANGED <<created, committed, clock, hand, stamp, cur, restarts>>

(* Mutant: the loop goes on without mark_done. *)
HandlerReturnsUnmarked(w) ==
  /\ wpc[w] = "run"
  /\ wpc' = [wpc EXCEPT ![w] = "poll"]
  /\ UNCHANGED <<status, created, committed, clock, hand, stamp, cur, restarts,
                 faults>>

(* dispatch_task returns or raises. *)
HandlerReturns(w) ==
  /\ wpc[w] = "run"
  /\ wpc' = [wpc EXCEPT ![w] = "mark"]
  /\ UNCHANGED <<status, created, committed, clock, hand, stamp, cur, restarts,
                 faults>>

HandlerRaises(w) ==
  /\ wpc[w] = "run"
  /\ wpc' = [wpc EXCEPT ![w] = "fail"]
  /\ UNCHANGED <<status, created, committed, clock, hand, stamp, cur, restarts,
                 faults>>

(* mark_done and mark_error: an UPDATE by task id, whatever the row holds. *)
Mark(w, s) ==
  /\ status' = [status EXCEPT ![cur[w]] = s]
  /\ wpc' = [wpc EXCEPT ![w] = "poll"]
  /\ cur' = [cur EXCEPT ![w] = NoTask]
  /\ UNCHANGED <<created, committed, clock, hand, stamp, restarts, faults>>

MarkDone(w) == wpc[w] = "mark" /\ Mark(w, "done")

(* Mutant: a task that failed is put back for another try. *)
MarkErrorRetries(w) == wpc[w] = "fail" /\ Mark(w, "pending")

MarkError(w) == wpc[w] = "fail" /\ Mark(w, "error")

(* Mutant: mark_done raises after its commit. *)
MarkDoneFailsLate(w) ==
  /\ wpc[w] = "mark"
  /\ Fault
  /\ status' = [status EXCEPT ![cur[w]] = "done"]
  /\ wpc' = [wpc EXCEPT ![w] = "fail"]
  /\ UNCHANGED <<created, committed, clock, hand, stamp, cur, restarts>>

(* mark_done is inside the try: when it raises, mark_error follows. *)
MarkDoneFails(w) ==
  /\ wpc[w] = "mark"
  /\ Fault
  /\ wpc' = [wpc EXCEPT ![w] = "fail"]
  /\ UNCHANGED <<status, created, committed, clock, hand, stamp, cur, restarts>>

(* mark_error raises inside the except branch: the thread ends and its     *)
(* task keeps the status it had.                                           *)
MarkErrorFails(w) ==
  /\ wpc[w] = "fail"
  /\ Fault
  /\ wpc' = [wpc EXCEPT ![w] = "dead"]
  /\ cur' = [cur EXCEPT ![w] = NoTask]
  /\ UNCHANGED <<status, created, committed, clock, hand, stamp, restarts>>

-----------------------------------------------------------------------------
(* The process ends and starts again (a kill by the installer, os.execv by *)
(* the payload watcher, a crash): start_worker starts a fresh pool on the  *)
(* table as it was left.                                                   *)
Restart ==
  /\ restarts < RestartLimit
  /\ restarts' = restarts + 1
  /\ wpc' = [w \in Worker |-> "poll"]
  /\ cur' = [w \in Worker |-> NoTask]
  /\ hand' = [c \in Client |-> NoTask]
  /\ UNCHANGED <<status, created, committed, clock, stamp, faults>>

-----------------------------------------------------------------------------
ClientStep(c) ==
  \/ \E t \in Task : DrawId(c, t)
  \/ InsertTask(c)
  \/ InsertFails(c)

LoopStep(w) ==
  \/ \E t \in Task : Claim(w, t)
  \/ HandlerReturns(w)
  \/ HandlerRaises(w)
  \/ MarkDone(w)
  \/ MarkError(w)

LoopFault(w) ==
  \/ ClaimFails(w)
  \/ \E t \in Task : ClaimReadFails(w, t)
  \/ MarkDoneFails(w)
  \/ MarkErrorFails(w)

Next ==
  \/ Tick
  \/ \E c \in Client : ClientStep(c)
  \/ \E w \in Worker : LoopStep(w) \/ LoopFault(w)
  \/ Restart

(* Every step of a live worker eventually happens: its loop polls every    *)
(* 0.35 s, and a handler ends because the ffmpeg calls carry timeouts.     *)
Fairness == \A w \in Worker : WF_vars(LoopStep(w))

Spec     == Init /\ [][Next]_vars
FairSpec == Spec /\ Fairness

-----------------------------------------------------------------------------
Processing == {t \in Task : status[t] = "processing"}
Held       == {t \in Task : \E w \in Worker : cur[w] = t}

(* What a worker holds is a task that is being processed, and only the     *)
(* workers that are past a claim hold one: nothing but the worker's own    *)
(* mark can settle a task under it.                                        *)
HeldIsProcessing ==
  \A w \in Worker :
    /\ cur[w] # NoTask => status[cur[w]] = "processing"
    /\ cur[w] # NoTask <=> wpc[w] \in {"run", "mark", "fail"}

(* No task is run by two workers at once: the SELECT and the UPDATE of a   *)
(* claim are one locked section (queue.py:292-305).                        *)
ClaimExclusive ==
  \A v, w \in Worker : v # w /\ cur[v] # NoTask => cur[v] # cur[w]

(* A row's time stamp never lies after the second it was inserted in, and  *)
(* no id in a client's hand is already a row.                              *)
StampsSound ==
  /\ \A t \in Task : created[t] <= committed[t] /\ committed[t] <= clock
  /\ \A c \in Client : stamp[c] <= clock
  /\ \A c \in Client : hand[c] # NoTask => status[hand[c]] = "absent"
  /\ \A c, d \in Client : c # d /\ hand[c] # NoTask => hand[c] # hand[d]

(* The three together: who runs a task is beyond doubt.                    *)
ClaimsSound == HeldIsProcessing /\ ClaimExclusive /\ StampsSound

(* Across restarts, faults and every interleaving, a settled task keeps    *)
(* its result: mark_done and mark_error update by id alone, so this rests  *)
(* on who may still hold a task.                                           *)
ResultsFinal ==
  [][\A t \in Task : status[t] \in Settled => status'[t] = status[t]]_vars

(* FIFO to the resolution of created_at: a task never overtakes one that   *)
(* was in the table a second or more before it was created.                *)
Overtakes(t, u) ==
  /\ status[t] = "pending" /\ status'[t] = "processing"
  /\ status[u] = "pending"
  /\ committed[u] < created[t]
NoOvertaking == [][\A t, u \in Task : ~Overtakes(t, u)]_vars

(* A pending task is claimed unless every worker thread has died. *)
Drains ==
  \A t \in Task :
    status[t] = "pending" ~>
      (status[t] # "pending" \/ \A w \in Worker : wpc[w] = "dead")

(* A claimed task is settled unless the worker that ran it vanished. *)
Finishes ==
  \A t \in Task :
    status[t] = "processing" ~> (status[t] \in Settled \/ t \notin Held)

(* A task gets through the queue, past every fault that spares its worker. *)
Progress == Drains /\ Finishes

(* The queue implements the life cycle of a task. *)
Lifecycle == INSTANCE TaskLifecycle WITH
  waiting <- Pending,
  running <- Processing \cap Held,
  settled <- {t \in Task : status[t] \in Settled},
  lost    <- Processing \ Held
ImplementsLifecycle == Lifecycle!Spec
=============================================================================
