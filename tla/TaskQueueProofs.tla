--------------------------- MODULE TaskQueueProofs ---------------------------
(***************************************************************************)
(* What holds of the task queue for any number of tasks, workers, clients, *)
(* restarts and failing database calls.                                    *)
(***************************************************************************)
EXTENDS TaskQueue, TLAPS

(* The inductive invariant: who holds a task, and what its stamps are. *)
IInv == TypeOK /\ HeldIsProcessing /\ ClaimExclusive /\ StampsSound

-----------------------------------------------------------------------------
(* Initially the table is empty and nobody holds anything. *)
LEMMA InitInv == Init => IInv
BY QueueAssumption
   DEF Init, IInv, TypeOK, Status, WorkerState, HeldIsProcessing,
       ClaimExclusive, StampsSound

(* The clock and the clients: no worker's task is touched. *)
LEMMA TickInv == IInv /\ Tick => IInv'
BY DEF IInv, TypeOK, Tick, HeldIsProcessing, ClaimExclusive, StampsSound

(* A client that draws an id draws one nobody has. *)
LEMMA DrawIdInv ==
  ASSUME NEW c \in Client, NEW t \in Task
  PROVE  IInv /\ DrawId(c, t) => IInv'
<1> SUFFICES ASSUME IInv, DrawId(c, t) PROVE IInv'
  OBVIOUS
<1>1. TypeOK'
  BY DEF IInv, TypeOK, DrawId
<1>2. HeldIsProcessing' /\ ClaimExclusive'
  BY DEF IInv, DrawId, HeldIsProcessing, ClaimExclusive
<1>3. StampsSound'
  BY QueueAssumption DEF IInv, TypeOK, DrawId, StampsSound
<1> QED
  BY <1>1, <1>2, <1>3 DEF IInv

(* The inserted row is pending and stamped no later than now. *)
LEMMA InsertTaskInv ==
  ASSUME NEW c \in Client
  PROVE  IInv /\ InsertTask(c) => IInv'
<1> SUFFICES ASSUME IInv, InsertTask(c) PROVE IInv'
  OBVIOUS
<1>t. hand[c] \in Task /\ status[hand[c]] = "absent"
  BY DEF IInv, TypeOK, StampsSound, InsertTask
<1>1. TypeOK'
  BY <1>t DEF IInv, TypeOK, InsertTask, Status
<1>2. \A w \in Worker : cur[w] # hand[c]
  BY <1>t, QueueAssumption DEF IInv, HeldIsProcessing, TypeOK
<1>3. HeldIsProcessing' /\ ClaimExclusive'
  BY <1>t, <1>2 DEF IInv, TypeOK, InsertTask, HeldIsProcessing, ClaimExclusive
<1>4. StampsSound'
  BY <1>t, QueueAssumption DEF IInv, TypeOK, InsertTask, StampsSound
<1> QED
  BY <1>1, <1>3, <1>4 DEF IInv

(* A failing INSERT leaves a drawn id unused. *)
LEMMA InsertFailsInv ==
  ASSUME NEW c \in Client
  PROVE  IInv /\ InsertFails(c) => IInv'
BY QueueAssumption
   DEF IInv, TypeOK, InsertFails, Fault, HeldIsProcessing, ClaimExclusive,
       StampsSound

(* The claims.  The claimed task was pending, hence in nobody's hands. *)
LEMMA PendingIsFree ==
  ASSUME IInv, NEW t \in Task, status[t] = "pending"
  PROVE  /\ \A w \in Worker : cur[w] # t
         /\ \A c \in Client : hand[c] # t
BY QueueAssumption DEF IInv, TypeOK, HeldIsProcessing, StampsSound

(* The worker that claims is the only one to hold the task. *)
LEMMA ClaimInv ==
  ASSUME NEW w \in Worker, NEW t \in Task
  PROVE  IInv /\ Claim(w, t) => IInv'
<1> SUFFICES ASSUME IInv, Claim(w, t) PROVE IInv'
  OBVIOUS
<1>t. status[t] = "pending"
  BY DEF Claim, Oldest, Pending
<1>1. TypeOK'
  BY DEF IInv, TypeOK, Claim, Status, WorkerState
<1>2. HeldIsProcessing' /\ ClaimExclusive'
  BY <1>t, PendingIsFree, QueueAssumption
     DEF IInv, TypeOK, Claim, HeldIsProcessing, ClaimExclusive
<1>3. StampsSound'
  BY <1>t, PendingIsFree DEF IInv, TypeOK, Claim, StampsSound
<1> QED
  BY <1>1, <1>2, <1>3 DEF IInv

(* A claim whose SELECT fails leaves a processing row nobody holds. *)
LEMMA ClaimReadFailsInv ==
  ASSUME NEW w \in Worker, NEW t \in Task
  PROVE  IInv /\ ClaimReadFails(w, t) => IInv'
<1> SUFFICES ASSUME IInv, ClaimReadFails(w, t) PROVE IInv'
  OBVIOUS
<1>t. status[t] = "pending"
  BY DEF ClaimReadFails, Oldest, Pending
<1>1. TypeOK'
  BY DEF IInv, TypeOK, ClaimReadFails, Fault, Status, WorkerState
<1>2. HeldIsProcessing' /\ ClaimExclusive'
  BY <1>t, PendingIsFree
     DEF IInv, TypeOK, ClaimReadFails, HeldIsProcessing, ClaimExclusive
<1>3. StampsSound'
  BY <1>t, PendingIsFree DEF IInv, TypeOK, ClaimReadFails, StampsSound
<1> QED
  BY <1>1, <1>2, <1>3 DEF IInv

(* Steps of the loop that only move its control point. *)
LEMMA ControlInv ==
  ASSUME NEW w \in Worker
  PROVE  IInv /\ (\/ ClaimFails(w) \/ HandlerReturns(w) \/ HandlerRaises(w)
                  \/ MarkDoneFails(w)) => IInv'
<1> SUFFICES ASSUME IInv, \/ ClaimFails(w) \/ HandlerReturns(w)
                          \/ HandlerRaises(w) \/ MarkDoneFails(w)
             PROVE IInv'
  OBVIOUS
<1>1. TypeOK'
  BY DEF IInv, TypeOK, ClaimFails, HandlerReturns, HandlerRaises,
         MarkDoneFails, Fault, WorkerState
<1>2. HeldIsProcessing' /\ ClaimExclusive'
  BY DEF IInv, TypeOK, ClaimFails, HandlerReturns, HandlerRaises,
         MarkDoneFails, HeldIsProcessing, ClaimExclusive
<1>3. StampsSound'
  BY DEF IInv, ClaimFails, HandlerReturns, HandlerRaises, MarkDoneFails,
         StampsSound
<1> QED
  BY <1>1, <1>2, <1>3 DEF IInv

(* The marks.  The marked task is processing and nobody else holds it. *)
LEMMA MarkInv ==
  ASSUME NEW w \in Worker, NEW s \in Settled, wpc[w] \in {"mark", "fail"}
  PROVE  IInv /\ Mark(w, s) => IInv'
<1> SUFFICES ASSUME IInv, Mark(w, s) PROVE IInv'
  OBVIOUS
<1>t. cur[w] \in Task /\ status[cur[w]] = "processing"
  BY DEF IInv, TypeOK, HeldIsProcessing
<1>1. TypeOK'
  BY <1>t DEF IInv, TypeOK, Mark, Status, Settled, WorkerState
<1>2. HeldIsProcessing' /\ ClaimExclusive'
  BY <1>t, QueueAssumption
     DEF IInv, TypeOK, Mark, HeldIsProcessing, ClaimExclusive
<1>3. StampsSound'
  BY <1>t DEF IInv, TypeOK, Mark, StampsSound
<1> QED
  BY <1>1, <1>2, <1>3 DEF IInv

(* A thread that dies in mark_error lets go of its task. *)
LEMMA MarkErrorFailsInv ==
  ASSUME NEW w \in Worker
  PROVE  IInv /\ MarkErrorFails(w) => IInv'
<1> SUFFICES ASSUME IInv, MarkErrorFails(w) PROVE IInv'
  OBVIOUS
<1>1. TypeOK'
  BY DEF IInv, TypeOK, MarkErrorFails, Fault, WorkerState
<1>2. HeldIsProcessing' /\ ClaimExclusive'
  BY DEF IInv, TypeOK, MarkErrorFails, HeldIsProcessing, ClaimExclusive
<1>3. StampsSound'
  BY DEF IInv, MarkErrorFails, StampsSound
<1> QED
  BY <1>1, <1>2, <1>3 DEF IInv

(* After a restart nobody holds anything. *)
LEMMA RestartInv == IInv /\ Restart => IInv'
BY QueueAssumption
   DEF IInv, TypeOK, Restart, WorkerState, HeldIsProcessing, ClaimExclusive,
       StampsSound

(* The invariant is inductive. *)
LEMMA NextInv == IInv /\ [Next]_vars => IInv'
<1> SUFFICES ASSUME IInv, [Next]_vars PROVE IInv'
  OBVIOUS
<1>1. CASE Tick
  BY <1>1, TickInv
<1>2. ASSUME NEW c \in Client, ClientStep(c) PROVE IInv'
  BY <1>2, DrawIdInv, InsertTaskInv, InsertFailsInv DEF ClientStep
<1>3. ASSUME NEW w \in Worker, LoopStep(w) PROVE IInv'
  BY <1>3, ClaimInv, ControlInv, MarkInv
     DEF LoopStep, MarkDone, MarkError, Settled
<1>4. ASSUME NEW w \in Worker, LoopFault(w) PROVE IInv'
  BY <1>4, ClaimReadFailsInv, ControlInv, MarkErrorFailsInv DEF LoopFault
<1>5. CASE Restart
  BY <1>5, RestartInv
<1>6. CASE UNCHANGED vars
  BY <1>6 DEF vars, IInv, TypeOK, HeldIsProcessing, ClaimExclusive, StampsSound
<1> QED
  BY <1>1, <1>2, <1>3, <1>4, <1>5, <1>6 DEF Next

(* Every reachable state satisfies the inductive invariant. *)
THEOREM Invariance == Spec => []IInv
BY InitInv, NextInv, PTL DEF Spec

(* Every variable keeps its type. *)
THEOREM TypeCorrect == Spec => []TypeOK
<1>1. IInv => TypeOK
  BY DEF IInv
<1> QED
  BY <1>1, Invariance, PTL

(* No two workers ever run the same task. *)
THEOREM Exclusive == Spec => []ClaimExclusive
<1>1. IInv => ClaimExclusive
  BY DEF IInv
<1> QED
  BY <1>1, Invariance, PTL

(* The stamps and the ids in hand are consistent with the table. *)
THEOREM Stamps == Spec => []StampsSound
<1>1. IInv => StampsSound
  BY DEF IInv
<1> QED
  BY <1>1, Invariance, PTL

(* No task is held by two workers, what is held is being processed, and no *)
(* stamp or id in hand is in doubt, for any tasks, workers and faults.     *)
THEOREM SoundClaims == Spec => []ClaimsSound
<1>1. IInv => ClaimsSound
  BY DEF IInv, ClaimsSound
<1> QED
  BY <1>1, Invariance, PTL

(* What a worker holds is being processed. *)
THEOREM HeldProcessing == Spec => []HeldIsProcessing
<1>1. IInv => HeldIsProcessing
  BY DEF IInv
<1> QED
  BY <1>1, Invariance, PTL

-----------------------------------------------------------------------------
(* How one step changes the table: a row enters as pending, is claimed, is *)
(* marked by the worker that holds it, or nothing happens to any row.      *)
Entered(t)   == status[t] = "absent" /\ status' = [status EXCEPT ![t] = "pending"]
Claimed(t)   == Oldest(t) /\ status' = [status EXCEPT ![t] = "processing"]
Marked(w, s) == cur[w] # NoTask /\ status' = [status EXCEPT ![cur[w]] = s]

(* A step inserts a row, claims the oldest pending one, marks the row a
   worker holds, or leaves the statuses alone. *)
LEMMA TableStep ==
  ASSUME IInv, [Next]_vars
  PROVE  \/ status' = status
         \/ \E t \in Task : Entered(t) \/ Claimed(t)
         \/ \E w \in Worker, s \in Settled : Marked(w, s)
<1>1. CASE Tick \/ Restart \/ UNCHANGED vars
  BY <1>1 DEF Tick, Restart, vars
<1>2. ASSUME NEW c \in Client, ClientStep(c)
      PROVE  status' = status \/ \E t \in Task : Entered(t)
  <2>1. CASE InsertTask(c)
    <3>1. hand[c] \in Task /\ status[hand[c]] = "absent"
      BY <2>1 DEF IInv, TypeOK, StampsSound, InsertTask
    <3> QED
      BY <2>1, <3>1 DEF InsertTask, Entered
  <2>2. CASE InsertFails(c) \/ \E t \in Task : DrawId(c, t)
    BY <2>2 DEF InsertFails, DrawId
  <2> QED
    BY <1>2, <2>1, <2>2 DEF ClientStep
<1>3. ASSUME NEW w \in Worker, LoopStep(w)
      PROVE  \/ status' = status
             \/ \E t \in Task : Claimed(t)
             \/ \E s \in Settled : Marked(w, s)
  <2>1. CASE \E t \in Task : Claim(w, t)
    BY <2>1 DEF Claim, Claimed
  <2>2. CASE MarkDone(w) \/ MarkError(w)
    BY <2>2 DEF IInv, HeldIsProcessing, MarkDone, MarkError, Mark, Marked, Settled
  <2>3. CASE HandlerReturns(w) \/ HandlerRaises(w)
    BY <2>3 DEF HandlerReturns, HandlerRaises
  <2> QED
    BY <1>3, <2>1, <2>2, <2>3 DEF LoopStep
<1>4. ASSUME NEW w \in Worker, LoopFault(w)
      PROVE  status' = status \/ \E t \in Task : Claimed(t)
  <2>1. CASE \E t \in Task : ClaimReadFails(w, t)
    BY <2>1 DEF ClaimReadFails, Claimed
  <2>2. CASE ClaimFails(w) \/ MarkDoneFails(w) \/ MarkErrorFails(w)
    BY <2>2 DEF ClaimFails, MarkDoneFails, MarkErrorFails
  <2> QED
    BY <1>4, <2>1, <2>2 DEF LoopFault
<1> QED
  BY <1>1, <1>2, <1>3, <1>4 DEF Next

(* A settled task keeps its result for ever. *)
THEOREM FinalResults == Spec => ResultsFinal
<1>1. ASSUME IInv, [Next]_vars, NEW t \in Task, status[t] \in Settled
      PROVE  status'[t] = status[t]
  <2>1. CASE status' = status
    BY <2>1
  <2>2. ASSUME NEW u \in Task, Entered(u) \/ Claimed(u)
        PROVE  status'[t] = status[t]
    BY <1>1, <2>2 DEF IInv, TypeOK, Entered, Claimed, Oldest, Pending, Settled
  <2>3. ASSUME NEW w \in Worker, NEW s \in Settled, Marked(w, s)
        PROVE  status'[t] = status[t]
    BY <1>1, <2>3 DEF IInv, TypeOK, HeldIsProcessing, Marked, Settled
  <2> QED
    BY <1>1, <2>1, <2>2, <2>3, TableStep
<1>2. IInv /\ [Next]_vars
        => [\A t \in Task : status[t] \in Settled => status'[t] = status[t]]_vars
  BY <1>1
<1> QED
  BY <1>2, Invariance, PTL DEF Spec, ResultsFinal

(* A task never overtakes one inserted a second or more before its stamp. *)
THEOREM Fifo == Spec => NoOvertaking
<1>1. ASSUME IInv, [Next]_vars, NEW t \in Task, NEW u \in Task, Overtakes(t, u)
      PROVE  FALSE
  <2>1. Claimed(t)
    <3>1. ASSUME NEW v \in Task, Entered(v) PROVE FALSE
      BY <1>1, <3>1 DEF IInv, TypeOK, Entered, Overtakes
    <3>2. ASSUME NEW v \in Task, Claimed(v) PROVE v = t
      BY <1>1, <3>2 DEF IInv, TypeOK, Claimed, Overtakes
    <3>3. ASSUME NEW w \in Worker, NEW s \in Settled, Marked(w, s) PROVE FALSE
      BY <1>1, <3>3 DEF IInv, TypeOK, HeldIsProcessing, Marked, Settled, Overtakes
    <3>4. status' # status
      BY <1>1 DEF Overtakes
    <3> QED
      BY <1>1, <3>1, <3>2, <3>3, <3>4, TableStep
  <2>2. created[t] <= created[u]
    BY <1>1, <2>1 DEF Claimed, Oldest, Pending, Overtakes
  <2>3. created[u] <= committed[u] /\ committed[u] < created[t]
    BY <1>1 DEF IInv, StampsSound, Overtakes
  <2> QED
    BY <1>1, <2>2, <2>3 DEF IInv, TypeOK
<1>2. IInv /\ [Next]_vars => [\A t, u \in Task : ~Overtakes(t, u)]_vars
  BY <1>1
<1> QED
  BY <1>2, Invariance, PTL DEF Spec, NoOvertaking

-----------------------------------------------------------------------------
(* The refinement: every step of the queue is a step of the life cycle or  *)
(* changes nothing of it.  The four sets of the life cycle depend on       *)
(* status and cur only.                                                    *)
LEMMA QuietStep ==
  ASSUME UNCHANGED <<status, cur>>
  PROVE  UNCHANGED Lifecycle!vars
BY DEF Lifecycle!vars, Pending, Processing, Held

(* An INSERT submits a task. *)
LEMMA InsertRefines ==
  ASSUME IInv, NEW c \in Client, InsertTask(c)
  PROVE  Lifecycle!Submit(hand[c])
<1>1. hand[c] \in Task /\ status[hand[c]] = "absent"
  BY DEF IInv, TypeOK, StampsSound, InsertTask
<1>2. /\ status' = [status EXCEPT ![hand[c]] = "pending"]
      /\ cur' = cur
  BY DEF InsertTask
<1>3. Pending' = Pending \cup {hand[c]}
  BY <1>1, <1>2 DEF IInv, TypeOK, Pending
<1>4. /\ (Processing \cap Held)' = Processing \cap Held
      /\ (Processing \ Held)' = Processing \ Held
  BY <1>1, <1>2 DEF IInv, TypeOK, Processing, Held
<1>5. {t \in Task : status[t] \in Settled}' = {t \in Task : status[t] \in Settled}
  BY <1>1, <1>2 DEF IInv, TypeOK, Settled
<1>6. hand[c] \notin Lifecycle!known
  BY <1>1 DEF Lifecycle!known, Pending, Processing, Settled
<1> QED
  BY <1>1, <1>3, <1>4, <1>5, <1>6 DEF Lifecycle!Submit

(* A claim starts a pending task. *)
LEMMA ClaimRefines ==
  ASSUME IInv, NEW w \in Worker, NEW t \in Task, Claim(w, t)
  PROVE  Lifecycle!Start(t)
<1>1. /\ status[t] = "pending"
      /\ status' = [status EXCEPT ![t] = "processing"]
      /\ cur[w] = NoTask
      /\ cur' = [cur EXCEPT ![w] = t]
  BY DEF IInv, HeldIsProcessing, Claim, Oldest, Pending
<1>2. Held' = Held \cup {t}
  BY <1>1, QueueAssumption DEF IInv, TypeOK, Held
<1>3. Processing' = Processing \cup {t}
  BY <1>1 DEF IInv, TypeOK, Processing
<1>4. t \in Pending /\ Pending' = Pending \ {t}
  BY <1>1 DEF IInv, TypeOK, Pending
<1>5. {u \in Task : status[u] \in Settled}' = {u \in Task : status[u] \in Settled}
  BY <1>1 DEF IInv, TypeOK, Settled
<1>6. t \notin Held /\ t \notin Processing
  BY <1>1, PendingIsFree DEF Held, Processing
<1> QED
  BY <1>2, <1>3, <1>4, <1>5, <1>6 DEF Lifecycle!Start

(* A claim lost between its two statements drops a pending task. *)
LEMMA ClaimReadFailsRefines ==
  ASSUME IInv, NEW w \in Worker, NEW t \in Task, ClaimReadFails(w, t)
  PROVE  Lifecycle!Drop(t)
<1>1. /\ status[t] = "pending"
      /\ status' = [status EXCEPT ![t] = "processing"]
      /\ cur' = cur
  BY DEF ClaimReadFails, Oldest, Pending
<1>2. Held' = Held /\ t \notin Held
  BY <1>1, PendingIsFree DEF Held
<1>3. Processing' = Processing \cup {t}
  BY <1>1 DEF IInv, TypeOK, Processing
<1>4. t \in Pending /\ Pending' = Pending \ {t}
  BY <1>1 DEF IInv, TypeOK, Pending
<1>5. {u \in Task : status[u] \in Settled}' = {u \in Task : status[u] \in Settled}
  BY <1>1 DEF IInv, TypeOK, Settled
<1> QED
  BY <1>2, <1>3, <1>4, <1>5 DEF Lifecycle!Drop

(* mark_done and mark_error settle a running task. *)
LEMMA MarkRefines ==
  ASSUME IInv, NEW w \in Worker, NEW s \in Settled, cur[w] # NoTask, Mark(w, s)
  PROVE  Lifecycle!Settle(cur[w])
<1>1. /\ cur[w] \in Task
      /\ status[cur[w]] = "processing"
      /\ status' = [status EXCEPT ![cur[w]] = s]
      /\ cur' = [cur EXCEPT ![w] = NoTask]
  BY DEF IInv, TypeOK, HeldIsProcessing, Mark
<1>2. Held' = Held \ {cur[w]} /\ cur[w] \in Held
  BY <1>1, QueueAssumption DEF IInv, TypeOK, ClaimExclusive, Held
<1>3. Processing' = Processing \ {cur[w]} /\ cur[w] \in Processing
  BY <1>1 DEF IInv, TypeOK, Processing, Settled
<1>4. Pending' = Pending
  BY <1>1 DEF IInv, TypeOK, Pending, Settled
<1>5. {u \in Task : status[u] \in Settled}'
        = {u \in Task : status[u] \in Settled} \cup {cur[w]}
  BY <1>1 DEF IInv, TypeOK, Settled
<1> QED
  BY <1>2, <1>3, <1>4, <1>5 DEF Lifecycle!Settle

(* A failing mark_error loses a running task. *)
LEMMA MarkErrorFailsRefines ==
  ASSUME IInv, NEW w \in Worker, MarkErrorFails(w)
  PROVE  Lifecycle!Lose({cur[w]})
<1>1. /\ cur[w] \in Task
      /\ status[cur[w]] = "processing"
      /\ status' = status
      /\ cur' = [cur EXCEPT ![w] = NoTask]
  BY DEF IInv, TypeOK, HeldIsProcessing, MarkErrorFails
<1>2. Held' = Held \ {cur[w]} /\ cur[w] \in Held
  BY <1>1, QueueAssumption DEF IInv, TypeOK, ClaimExclusive, Held
<1>3. /\ Processing' = Processing /\ cur[w] \in Processing
      /\ Pending' = Pending
  BY <1>1 DEF Processing, Pending
<1>4. {u \in Task : status[u] \in Settled}' = {u \in Task : status[u] \in Settled}
  BY <1>1
<1> QED
  BY <1>2, <1>3, <1>4 DEF Lifecycle!Lose

(* A restart loses every running task. *)
LEMMA RestartRefines ==
  ASSUME IInv, Restart
  PROVE  Lifecycle!Lose(Processing \cap Held) \/ UNCHANGED Lifecycle!vars
<1>1. Held' = {} /\ status' = status
  BY QueueAssumption DEF Restart, Held
<1>2. Processing' = Processing /\ Pending' = Pending
  BY <1>1 DEF Processing, Pending
<1>3. {u \in Task : status[u] \in Settled}' = {u \in Task : status[u] \in Settled}
  BY <1>1
<1>4. CASE Processing \cap Held = {}
  BY <1>1, <1>2, <1>3, <1>4 DEF Lifecycle!vars
<1>5. CASE Processing \cap Held # {}
  BY <1>1, <1>2, <1>3, <1>5 DEF Lifecycle!Lose
<1> QED
  BY <1>4, <1>5

(* Every step of the queue is one of the life cycle or a stutter. *)
LEMMA StepRefines == IInv /\ [Next]_vars => [Lifecycle!Next]_(Lifecycle!vars)
<1> SUFFICES ASSUME IInv, [Next]_vars
             PROVE  Lifecycle!Next \/ UNCHANGED Lifecycle!vars
  OBVIOUS
<1>1. CASE Tick \/ UNCHANGED vars
  BY <1>1, QuietStep DEF Tick, vars
<1>2. ASSUME NEW c \in Client, ClientStep(c)
      PROVE  Lifecycle!Next \/ UNCHANGED Lifecycle!vars
  <2>1. CASE InsertTask(c)
    <3>1. hand[c] \in Task
      BY <2>1 DEF IInv, TypeOK, InsertTask
    <3> QED
      BY <2>1, <3>1, InsertRefines DEF Lifecycle!Next
  <2>2. CASE InsertFails(c) \/ \E t \in Task : DrawId(c, t)
    BY <2>2, QuietStep DEF InsertFails, DrawId
  <2> QED
    BY <1>2, <2>1, <2>2 DEF ClientStep
<1>3. ASSUME NEW w \in Worker, LoopStep(w)
      PROVE  Lifecycle!Next \/ UNCHANGED Lifecycle!vars
  <2>1. CASE \E t \in Task : Claim(w, t)
    BY <2>1, ClaimRefines DEF Lifecycle!Next
  <2>2. CASE MarkDone(w) \/ MarkError(w)
    <3>1. cur[w] # NoTask /\ cur[w] \in Task
      BY <2>2 DEF IInv, TypeOK, HeldIsProcessing, MarkDone, MarkError
    <3>2. \E s \in Settled : Mark(w, s)
      BY <2>2 DEF MarkDone, MarkError, Settled
    <3>3. Lifecycle!Settle(cur[w])
      BY <3>1, <3>2, MarkRefines
    <3> QED
      BY <3>1, <3>3 DEF Lifecycle!Next, Lifecycle!Settle
  <2>3. CASE HandlerReturns(w) \/ HandlerRaises(w)
    BY <2>3, QuietStep DEF HandlerReturns, HandlerRaises
  <2> QED
    BY <1>3, <2>1, <2>2, <2>3 DEF LoopStep
<1>4. ASSUME NEW w \in Worker, LoopFault(w)
      PROVE  Lifecycle!Next \/ UNCHANGED Lifecycle!vars
  <2>1. CASE \E t \in Task : ClaimReadFails(w, t)
    BY <2>1, ClaimReadFailsRefines DEF Lifecycle!Next
  <2>2. CASE MarkErrorFails(w)
    <3>1. {cur[w]} \in SUBSET Task
      BY <2>2 DEF IInv, TypeOK, HeldIsProcessing, MarkErrorFails
    <3> QED
      BY <2>2, <3>1, MarkErrorFailsRefines DEF Lifecycle!Next
  <2>3. CASE ClaimFails(w) \/ MarkDoneFails(w)
    BY <2>3, QuietStep DEF ClaimFails, MarkDoneFails
  <2> QED
    BY <1>4, <2>1, <2>2, <2>3 DEF LoopFault
<1>5. CASE Restart
  <2>1. Processing \cap Held \in SUBSET Task
    BY DEF Held
  <2> QED
    BY <1>5, <2>1, RestartRefines DEF Lifecycle!Next
<1> QED
  BY <1>1, <1>2, <1>3, <1>4, <1>5 DEF Next

(* The queue implements the life cycle of a task. *)
THEOREM Refinement == Spec => ImplementsLifecycle
<1>1. Init => Lifecycle!Init
  BY QueueAssumption
     DEF Init, Lifecycle!Init, Pending, Processing, Held, Settled
<1> QED
  BY <1>1, StepRefines, Invariance, PTL
     DEF Spec, ImplementsLifecycle, Lifecycle!Spec

=============================================================================
