------------------------------ MODULE IndexProofs ------------------------------
(***************************************************************************)
(* What holds of the files the indexing writes, for any number of threads, *)
(* images, changes, failures and restarts: the connections to shares.db,   *)
(* the poster beside images of one stem, then both beside the rows that    *)
(* ShareIndexProofs is about.                                              *)
(***************************************************************************)
EXTENDS ShareIndexProofs, MCIndex

-----------------------------------------------------------------------------
(* Connections: one inductive invariant. *)

(* A statement that waits for its commit is that of the thread in the      *)
(* lock, in a transaction that sees the last state and may write.          *)
LockRuns ==
  executed =>
    /\ holder # Nobody /\ holder \in opened
    /\ view[holder] = "last" /\ writer = holder

(* Who has SQLite's write lock is in a transaction that sees the last      *)
(* state: only its own commit could change that.                           *)
WriterIsFresh == writer # Nobody => writer \in opened /\ view[writer] = "last"

(* Outside a transaction nothing is held on to.                            *)
FreshOutside == \A t \in Connection : t \notin opened => view[t] = "none"

(* A handler that has read an old state is bound to it.                    *)
MisreadIsBound == \A t \in misread : view[t] = "old"

(* As long as nothing was refused, transactions live inside the lock.      *)
InLock == refused \/ (opened = {} /\ ~executed) \/ (executed /\ opened = {holder})

ConnectionInv ==
  /\ DbTypeOK
  /\ LockRuns /\ WriterIsFresh /\ FreshOutside /\ MisreadIsBound /\ InLock

-----------------------------------------------------------------------------
(* At the start no connection is used.                                     *)
LEMMA DbInitInv == DbInit => ConnectionInv
<1> SUFFICES ASSUME DbInit PROVE ConnectionInv
  OBVIOUS
<1> USE ConnectionAssumption DEF DbInit
<1>1. DbTypeOK
  BY DEF DbTypeOK
<1> QED
  BY <1>1 DEF ConnectionInv, LockRuns, WriterIsFresh, FreshOutside, MisreadIsBound, InLock

(* Every step keeps the types. *)
LEMMA DbTypeInv ==
  ASSUME DbTypeOK, [DbNext]_dbVars
  PROVE  DbTypeOK'
<1> USE ConnectionAssumption
<1>1. ASSUME NEW t \in Connection, Select(t) PROVE DbTypeOK'
  BY <1>1 DEF Select, Executing, Locked, Closes, DbTypeOK
<1>2. ASSUME NEW t \in Connection, TurnsTo(t) PROVE DbTypeOK'
  BY <1>2 DEF TurnsTo, Executing, Locked, Closes, DbTypeOK
<1>3. ASSUME NEW t \in Connection, TakeLock(t) PROVE DbTypeOK'
  BY <1>3 DEF TakeLock, Executing, Locked, Closes, DbTypeOK
<1>4. ASSUME NEW t \in Connection, Execute(t) PROVE DbTypeOK'
  BY <1>4 DEF Execute, Executing, Locked, Closes, DbTypeOK
<1>5. ASSUME NEW t \in Connection, Commit(t) PROVE DbTypeOK'
  BY <1>5 DEF Commit, Executing, Locked, Closes, DbTypeOK
<1>6. ASSUME NEW t \in Connection, TurnedAway(t) PROVE DbTypeOK'
  BY <1>6 DEF TurnedAway, Executing, Locked, Closes, DbTypeOK
<1>7. ASSUME NEW t \in Connection, Refused(t) PROVE DbTypeOK'
  BY <1>7 DEF Refused, Executing, Locked, Closes, DbTypeOK
<1>8. ASSUME NEW t \in Connection, RolledBack(t) PROVE DbTypeOK'
  BY <1>8 DEF RolledBack, Executing, Locked, Closes, DbTypeOK
<1>9. ASSUME NEW t \in Connection, ThreadEnds(t) PROVE DbTypeOK'
  BY <1>9 DEF ThreadEnds, Executing, Locked, Closes, DbTypeOK
<1>10. CASE NodeStarts
  BY <1>10 DEF NodeStarts, Executing, Locked, Closes, DbTypeOK
<1>11. CASE UNCHANGED dbVars
  BY <1>11 DEF dbVars, Executing, Locked, Closes, DbTypeOK
<1> QED
  BY <1>1, <1>2, <1>3, <1>4, <1>5, <1>6, <1>7, <1>8, <1>9, <1>10, <1>11 DEF DbNext, Writes

(* Nobody but the thread in the lock touches its statement. *)
LEMMA LockInv ==
  ASSUME ConnectionInv, [DbNext]_dbVars
  PROVE  LockRuns'
<1> USE ConnectionAssumption
<1>1. ASSUME NEW t \in Connection, Select(t) PROVE LockRuns'
  BY <1>1 DEF Select, Executing, Locked, Closes, DbTypeOK, ConnectionInv, LockRuns, WriterIsFresh, FreshOutside
<1>2. ASSUME NEW t \in Connection, TurnsTo(t) PROVE LockRuns'
  BY <1>2 DEF TurnsTo, Executing, Locked, Closes, DbTypeOK, ConnectionInv, LockRuns, WriterIsFresh, FreshOutside
<1>3. ASSUME NEW t \in Connection, TakeLock(t) PROVE LockRuns'
  BY <1>3 DEF TakeLock, Executing, Locked, Closes, DbTypeOK, ConnectionInv, LockRuns, WriterIsFresh, FreshOutside
<1>4. ASSUME NEW t \in Connection, Execute(t) PROVE LockRuns'
  BY <1>4 DEF Execute, Executing, Locked, Closes, DbTypeOK, ConnectionInv, LockRuns, WriterIsFresh, FreshOutside
<1>5. ASSUME NEW t \in Connection, Commit(t) PROVE LockRuns'
  BY <1>5 DEF Commit, Executing, Locked, Closes, DbTypeOK, ConnectionInv, LockRuns, WriterIsFresh, FreshOutside
<1>6. ASSUME NEW t \in Connection, TurnedAway(t) PROVE LockRuns'
  BY <1>6 DEF TurnedAway, Executing, Locked, Closes, DbTypeOK, ConnectionInv, LockRuns, WriterIsFresh, FreshOutside
<1>7. ASSUME NEW t \in Connection, Refused(t) PROVE LockRuns'
  BY <1>7 DEF Refused, Executing, Locked, Closes, DbTypeOK, ConnectionInv, LockRuns, WriterIsFresh, FreshOutside
<1>8. ASSUME NEW t \in Connection, RolledBack(t) PROVE LockRuns'
  BY <1>8 DEF RolledBack, Executing, Locked, Closes, DbTypeOK, ConnectionInv, LockRuns, WriterIsFresh, FreshOutside
<1>9. ASSUME NEW t \in Connection, ThreadEnds(t) PROVE LockRuns'
  BY <1>9 DEF ThreadEnds, Executing, Locked, Closes, DbTypeOK, ConnectionInv, LockRuns, WriterIsFresh, FreshOutside
<1>10. CASE NodeStarts
  BY <1>10 DEF NodeStarts, Executing, Locked, Closes, DbTypeOK, ConnectionInv, LockRuns, WriterIsFresh, FreshOutside
<1>11. CASE UNCHANGED dbVars
  BY <1>11 DEF dbVars, Executing, Locked, Closes, DbTypeOK, ConnectionInv, LockRuns, WriterIsFresh, FreshOutside
<1> QED
  BY <1>1, <1>2, <1>3, <1>4, <1>5, <1>6, <1>7, <1>8, <1>9, <1>10, <1>11 DEF DbNext, Writes

(* A commit makes the views of others old, and there is no other writer. *)
LEMMA WriterInv ==
  ASSUME ConnectionInv, [DbNext]_dbVars
  PROVE  WriterIsFresh'
<1> USE ConnectionAssumption
<1>1. ASSUME NEW t \in Connection, Select(t) PROVE WriterIsFresh'
  BY <1>1 DEF Select, Executing, Locked, Closes, DbTypeOK, ConnectionInv, LockRuns, WriterIsFresh, FreshOutside
<1>2. ASSUME NEW t \in Connection, TurnsTo(t) PROVE WriterIsFresh'
  BY <1>2 DEF TurnsTo, Executing, Locked, Closes, DbTypeOK, ConnectionInv, LockRuns, WriterIsFresh, FreshOutside
<1>3. ASSUME NEW t \in Connection, TakeLock(t) PROVE WriterIsFresh'
  BY <1>3 DEF TakeLock, Executing, Locked, Closes, DbTypeOK, ConnectionInv, LockRuns, WriterIsFresh, FreshOutside
<1>4. ASSUME NEW t \in Connection, Execute(t) PROVE WriterIsFresh'
  BY <1>4 DEF Execute, Executing, Locked, Closes, DbTypeOK, ConnectionInv, LockRuns, WriterIsFresh, FreshOutside
<1>5. ASSUME NEW t \in Connection, Commit(t) PROVE WriterIsFresh'
  BY <1>5 DEF Commit, Executing, Locked, Closes, DbTypeOK, ConnectionInv, LockRuns, WriterIsFresh, FreshOutside
<1>6. ASSUME NEW t \in Connection, TurnedAway(t) PROVE WriterIsFresh'
  BY <1>6 DEF TurnedAway, Executing, Locked, Closes, DbTypeOK, ConnectionInv, LockRuns, WriterIsFresh, FreshOutside
<1>7. ASSUME NEW t \in Connection, Refused(t) PROVE WriterIsFresh'
  BY <1>7 DEF Refused, Executing, Locked, Closes, DbTypeOK, ConnectionInv, LockRuns, WriterIsFresh, FreshOutside
<1>8. ASSUME NEW t \in Connection, RolledBack(t) PROVE WriterIsFresh'
  BY <1>8 DEF RolledBack, Executing, Locked, Closes, DbTypeOK, ConnectionInv, LockRuns, WriterIsFresh, FreshOutside
<1>9. ASSUME NEW t \in Connection, ThreadEnds(t) PROVE WriterIsFresh'
  BY <1>9 DEF ThreadEnds, Executing, Locked, Closes, DbTypeOK, ConnectionInv, LockRuns, WriterIsFresh, FreshOutside
<1>10. CASE NodeStarts
  BY <1>10 DEF NodeStarts, Executing, Locked, Closes, DbTypeOK, ConnectionInv, LockRuns, WriterIsFresh, FreshOutside
<1>11. CASE UNCHANGED dbVars
  BY <1>11 DEF dbVars, Executing, Locked, Closes, DbTypeOK, ConnectionInv, LockRuns, WriterIsFresh, FreshOutside
<1> QED
  BY <1>1, <1>2, <1>3, <1>4, <1>5, <1>6, <1>7, <1>8, <1>9, <1>10, <1>11 DEF DbNext, Writes

(* The end of a transaction clears its view. *)
LEMMA OutsideInv ==
  ASSUME ConnectionInv, [DbNext]_dbVars
  PROVE  FreshOutside'
<1> USE ConnectionAssumption
<1>1. ASSUME NEW t \in Connection, Select(t) PROVE FreshOutside'
  BY <1>1 DEF Select, Executing, Locked, Closes, DbTypeOK, ConnectionInv, FreshOutside, LockRuns
<1>2. ASSUME NEW t \in Connection, TurnsTo(t) PROVE FreshOutside'
  BY <1>2 DEF TurnsTo, Executing, Locked, Closes, DbTypeOK, ConnectionInv, FreshOutside, LockRuns
<1>3. ASSUME NEW t \in Connection, TakeLock(t) PROVE FreshOutside'
  BY <1>3 DEF TakeLock, Executing, Locked, Closes, DbTypeOK, ConnectionInv, FreshOutside, LockRuns
<1>4. ASSUME NEW t \in Connection, Execute(t) PROVE FreshOutside'
  BY <1>4 DEF Execute, Executing, Locked, Closes, DbTypeOK, ConnectionInv, FreshOutside, LockRuns
<1>5. ASSUME NEW t \in Connection, Commit(t) PROVE FreshOutside'
  BY <1>5 DEF Commit, Executing, Locked, Closes, DbTypeOK, ConnectionInv, FreshOutside, LockRuns
<1>6. ASSUME NEW t \in Connection, TurnedAway(t) PROVE FreshOutside'
  BY <1>6 DEF TurnedAway, Executing, Locked, Closes, DbTypeOK, ConnectionInv, FreshOutside, LockRuns
<1>7. ASSUME NEW t \in Connection, Refused(t) PROVE FreshOutside'
  BY <1>7 DEF Refused, Executing, Locked, Closes, DbTypeOK, ConnectionInv, FreshOutside, LockRuns
<1>8. ASSUME NEW t \in Connection, RolledBack(t) PROVE FreshOutside'
  BY <1>8 DEF RolledBack, Executing, Locked, Closes, DbTypeOK, ConnectionInv, FreshOutside, LockRuns
<1>9. ASSUME NEW t \in Connection, ThreadEnds(t) PROVE FreshOutside'
  BY <1>9 DEF ThreadEnds, Executing, Locked, Closes, DbTypeOK, ConnectionInv, FreshOutside, LockRuns
<1>10. CASE NodeStarts
  BY <1>10 DEF NodeStarts, Executing, Locked, Closes, DbTypeOK, ConnectionInv, FreshOutside, LockRuns
<1>11. CASE UNCHANGED dbVars
  BY <1>11 DEF dbVars, Executing, Locked, Closes, DbTypeOK, ConnectionInv, FreshOutside, LockRuns
<1> QED
  BY <1>1, <1>2, <1>3, <1>4, <1>5, <1>6, <1>7, <1>8, <1>9, <1>10, <1>11 DEF DbNext, Writes

(* No step but the end of a transaction takes an old view away. *)
LEMMA MisreadInv ==
  ASSUME ConnectionInv, [DbNext]_dbVars
  PROVE  MisreadIsBound'
<1> USE ConnectionAssumption
<1>1. ASSUME NEW t \in Connection, Select(t) PROVE MisreadIsBound'
  BY <1>1 DEF Select, Executing, Locked, Closes, DbTypeOK, ConnectionInv, LockRuns, WriterIsFresh, FreshOutside, MisreadIsBound
<1>2. ASSUME NEW t \in Connection, TurnsTo(t) PROVE MisreadIsBound'
  BY <1>2 DEF TurnsTo, Executing, Locked, Closes, DbTypeOK, ConnectionInv, LockRuns, WriterIsFresh, FreshOutside, MisreadIsBound
<1>3. ASSUME NEW t \in Connection, TakeLock(t) PROVE MisreadIsBound'
  BY <1>3 DEF TakeLock, Executing, Locked, Closes, DbTypeOK, ConnectionInv, LockRuns, WriterIsFresh, FreshOutside, MisreadIsBound
<1>4. ASSUME NEW t \in Connection, Execute(t) PROVE MisreadIsBound'
  BY <1>4 DEF Execute, Executing, Locked, Closes, DbTypeOK, ConnectionInv, LockRuns, WriterIsFresh, FreshOutside, MisreadIsBound
<1>5. ASSUME NEW t \in Connection, Commit(t) PROVE MisreadIsBound'
  BY <1>5 DEF Commit, Executing, Locked, Closes, DbTypeOK, ConnectionInv, LockRuns, WriterIsFresh, FreshOutside, MisreadIsBound
<1>6. ASSUME NEW t \in Connection, TurnedAway(t) PROVE MisreadIsBound'
  BY <1>6 DEF TurnedAway, Executing, Locked, Closes, DbTypeOK, ConnectionInv, LockRuns, WriterIsFresh, FreshOutside, MisreadIsBound
<1>7. ASSUME NEW t \in Connection, Refused(t) PROVE MisreadIsBound'
  BY <1>7 DEF Refused, Executing, Locked, Closes, DbTypeOK, ConnectionInv, LockRuns, WriterIsFresh, FreshOutside, MisreadIsBound
<1>8. ASSUME NEW t \in Connection, RolledBack(t) PROVE MisreadIsBound'
  BY <1>8 DEF RolledBack, Executing, Locked, Closes, DbTypeOK, ConnectionInv, LockRuns, WriterIsFresh, FreshOutside, MisreadIsBound
<1>9. ASSUME NEW t \in Connection, ThreadEnds(t) PROVE MisreadIsBound'
  BY <1>9 DEF ThreadEnds, Executing, Locked, Closes, DbTypeOK, ConnectionInv, LockRuns, WriterIsFresh, FreshOutside, MisreadIsBound
<1>10. CASE NodeStarts
  BY <1>10 DEF NodeStarts, Executing, Locked, Closes, DbTypeOK, ConnectionInv, LockRuns, WriterIsFresh, FreshOutside, MisreadIsBound
<1>11. CASE UNCHANGED dbVars
  BY <1>11 DEF dbVars, Executing, Locked, Closes, DbTypeOK, ConnectionInv, LockRuns, WriterIsFresh, FreshOutside, MisreadIsBound
<1> QED
  BY <1>1, <1>2, <1>3, <1>4, <1>5, <1>6, <1>7, <1>8, <1>9, <1>10, <1>11 DEF DbNext, Writes

(* Only a refused statement lets a transaction out of the lock. *)
LEMMA InLockInv ==
  ASSUME ConnectionInv, [DbNext]_dbVars
  PROVE  InLock'
<1> USE ConnectionAssumption
<1>1. ASSUME NEW t \in Connection, Select(t) PROVE InLock'
  BY <1>1 DEF Select, Executing, Locked, Closes, DbTypeOK, ConnectionInv, LockRuns, WriterIsFresh, FreshOutside, InLock
<1>2. ASSUME NEW t \in Connection, TurnsTo(t) PROVE InLock'
  BY <1>2 DEF TurnsTo, Executing, Locked, Closes, DbTypeOK, ConnectionInv, LockRuns, WriterIsFresh, FreshOutside, InLock
<1>3. ASSUME NEW t \in Connection, TakeLock(t) PROVE InLock'
  BY <1>3 DEF TakeLock, Executing, Locked, Closes, DbTypeOK, ConnectionInv, LockRuns, WriterIsFresh, FreshOutside, InLock
<1>4. ASSUME NEW t \in Connection, Execute(t) PROVE InLock'
  BY <1>4 DEF Execute, Executing, Locked, Closes, DbTypeOK, ConnectionInv, LockRuns, WriterIsFresh, FreshOutside, InLock
<1>5. ASSUME NEW t \in Connection, Commit(t) PROVE InLock'
  BY <1>5 DEF Commit, Executing, Locked, Closes, DbTypeOK, ConnectionInv, LockRuns, WriterIsFresh, FreshOutside, InLock
<1>6. ASSUME NEW t \in Connection, TurnedAway(t) PROVE InLock'
  BY <1>6 DEF TurnedAway, Executing, Locked, Closes, DbTypeOK, ConnectionInv, LockRuns, WriterIsFresh, FreshOutside, InLock
<1>7. ASSUME NEW t \in Connection, Refused(t) PROVE InLock'
  BY <1>7 DEF Refused, Executing, Locked, Closes, DbTypeOK, ConnectionInv, LockRuns, WriterIsFresh, FreshOutside, InLock
<1>8. ASSUME NEW t \in Connection, RolledBack(t) PROVE InLock'
  BY <1>8 DEF RolledBack, Executing, Locked, Closes, DbTypeOK, ConnectionInv, LockRuns, WriterIsFresh, FreshOutside, InLock
<1>9. ASSUME NEW t \in Connection, ThreadEnds(t) PROVE InLock'
  BY <1>9 DEF ThreadEnds, Executing, Locked, Closes, DbTypeOK, ConnectionInv, LockRuns, WriterIsFresh, FreshOutside, InLock
<1>10. CASE NodeStarts
  BY <1>10 DEF NodeStarts, Executing, Locked, Closes, DbTypeOK, ConnectionInv, LockRuns, WriterIsFresh, FreshOutside, InLock
<1>11. CASE UNCHANGED dbVars
  BY <1>11 DEF dbVars, Executing, Locked, Closes, DbTypeOK, ConnectionInv, LockRuns, WriterIsFresh, FreshOutside, InLock
<1> QED
  BY <1>1, <1>2, <1>3, <1>4, <1>5, <1>6, <1>7, <1>8, <1>9, <1>10, <1>11 DEF DbNext, Writes

LEMMA DbNextInv == ConnectionInv /\ [DbNext]_dbVars => ConnectionInv'
<1> SUFFICES ASSUME ConnectionInv, [DbNext]_dbVars PROVE ConnectionInv'
  OBVIOUS
<1>1. DbTypeOK
  BY DEF ConnectionInv
<1> QED
  BY <1>1, DbTypeInv, LockInv, WriterInv, OutsideInv, MisreadInv, InLockInv DEF ConnectionInv

(* Every reachable state satisfies the invariant. *)
THEOREM DbInvariance == DbSpec => []ConnectionInv
BY DbInitInv, DbNextInv, PTL DEF DbSpec

(* Locks, transactions and views keep their types. *)
THEOREM DbTypeCorrect == DbSpec => []DbTypeOK
<1>1. ConnectionInv => DbTypeOK
  BY DEF ConnectionInv
<1> QED
  BY <1>1, DbInvariance, PTL

(* Until a statement is refused the lock keeps all transactions apart.     *)
LEMMA HarmCaused == ConnectionInv => HarmHasCause
<1> SUFFICES ASSUME ConnectionInv, ~refused PROVE HarmHasCause
  BY DEF HarmHasCause
<1>1. misread = {}
  <2> SUFFICES ASSUME NEW t \in misread PROVE FALSE
    OBVIOUS
  <2>1. t \in Connection /\ view[t] = "old"
    BY DEF ConnectionInv, DbTypeOK, MisreadIsBound
  <2> QED
    BY <2>1 DEF ConnectionInv, FreshOutside, InLock, LockRuns
<1>2. \A t \in Connection : Executing(t) => ~Locked(t)
  BY DEF ConnectionInv, Executing, Locked, InLock, FreshOutside, WriterIsFresh
<1>3. \A t \in opened : t = holder
  BY DEF ConnectionInv, InLock
<1> QED
  BY <1>1, <1>2, <1>3 DEF HarmHasCause

(* However many threads read and write: until a statement is refused no    *)
(* write is turned away, no transaction outlives the lock and every read   *)
(* sees the last state (registry._lock).                                   *)
THEOREM OnlyRefusalsHarm == DbSpec => []HarmHasCause
BY HarmCaused, DbInvariance, PTL

(* Even after refused statements, no thread commits in a handler that has  *)
(* read an old state, for any number of threads.                           *)
THEOREM MisreadKept == DbSpec => MisreadNeverWritten
<1>1. ConnectionInv /\ [DbNext]_dbVars =>
        [\A t \in Connection : Commit(t) => t \notin misread]_dbVars
  BY DEF ConnectionInv, LockRuns, MisreadIsBound, Commit
<1> QED
  BY <1>1, DbInvariance, PTL DEF DbSpec, MisreadNeverWritten

-----------------------------------------------------------------------------
(* The poster: one inductive invariant. *)

Now == Image \X {"now"}

(* A task that runs has an image of the stem.                              *)
Sourced == \A m \in Maker : step[m] # "idle" => source[m] \in Image

(* Past its reading, a task holds some picture.                            *)
HoldsPicture ==
  \A m \in Maker : step[m] \notin {"idle", "read"} => picture[m] \in Picture \cup {Mixed}

(* Two tasks that write into the poster are noticed.                       *)
MeetingsSeen ==
  \A m, n \in Maker : OnPoster(m) /\ OnPoster(n) /\ m # n => met

(* So is one that writes what it has loaded in the middle of a save, or    *)
(* was met by another between its blocks.                                  *)
MixturesSeen ==
  \A m \in Maker :
    OnPoster(m) /\ (picture[m] = Mixed \/ (step[m] = "rest" /\ m \in disturbed)) => met

(* A task that writes an image as it was is excused.                       *)
OldExcused ==
  \A m \in Maker : OnPoster(m) /\ picture[m] \in Picture \ Now => excused

(* The poster is as it should be, is gone, is being written, is older than *)
(* the image it shows, or several tasks were at it.                        *)
Accounted ==
  \/ excused
  \/ poster \in Now \cup {NoPoster}
  \/ poster = Empty /\ \E m \in Maker : OnPoster(m)
  \/ poster = Mixed /\ (met \/ \E m \in Maker : OnPoster(m) /\ step[m] = "rest")
  \/ \E i \in Image : poster = <<i, "before">> /\ i \in newer

PosterInv ==
  /\ PosterTypeOK /\ Sourced /\ HoldsPicture
  /\ MeetingsSeen /\ MixturesSeen /\ OldExcused /\ Accounted

LEMMA PosterInitInv == PosterInit => PosterInv
<1> SUFFICES ASSUME PosterInit PROVE PosterInv
  OBVIOUS
<1>1. /\ poster \in Picture \cup {NoPoster, Empty, Mixed} /\ newer \subseteq Image
      /\ excused \in BOOLEAN /\ met \in BOOLEAN
      /\ created \subseteq Maker /\ unlinked \subseteq Maker /\ disturbed \subseteq Maker
  BY DEF PosterInit
<1>2. /\ queued \in [Image -> 0..DueLimit]
      /\ edits \in 0..EditLimit /\ troubles \in 0..TroubleLimit
  BY PosterAssumption DEF PosterInit
<1>3. /\ step \in [Maker -> Step] /\ source \in [Maker -> Image \cup {NoImage}]
      /\ picture \in [Maker -> Picture \cup {Empty, Mixed}]
  BY DEF PosterInit, Step
<1>4. PosterTypeOK
  BY <1>1, <1>2, <1>3 DEF PosterTypeOK
<1>5. \A m \in Maker : ~OnPoster(m)
  BY DEF PosterInit, OnPoster, Writing
<1> QED
  BY <1>4, <1>5 DEF PosterInit, PosterInv, Sourced, HoldsPicture, MeetingsSeen, MixturesSeen,
                    OldExcused, Accounted

(* Every step keeps the types. *)
LEMMA PosterTypeInv ==
  ASSUME PosterInv, [PosterNext]_posterVars
  PROVE  PosterTypeOK'
<1> USE PosterAssumption
<1>0. PosterTypeOK /\ Sourced
  BY DEF PosterInv
<1>1. ASSUME NEW i \in Image, EnqueuePoster(i) PROVE PosterTypeOK'
  BY <1>0, <1>1 DEF EnqueuePoster, making, history, Picture, Step, PosterTypeOK, Sourced
<1>2. ASSUME NEW m \in Maker, NEW i \in Image, TakeTask(m, i) PROVE PosterTypeOK'
  BY <1>0, <1>2 DEF TakeTask, StepsTo, history, Picture, Step, PosterTypeOK, Sourced
<1>3. ASSUME NEW m \in Maker, ReadImage(m) PROVE PosterTypeOK'
  BY <1>0, <1>3 DEF ReadImage, StepsTo, history, Picture, Step, PosterTypeOK, Sourced
<1>4. ASSUME NEW m \in Maker, LookForPoster(m) PROVE PosterTypeOK'
  BY <1>0, <1>4 DEF LookForPoster, StepsTo, history, Picture, Step, PosterTypeOK, Sourced
<1>5. ASSUME NEW m \in Maker, OpenPoster(m) PROVE PosterTypeOK'
  BY <1>0, <1>5 DEF OpenPoster, StepsTo, Disturbs, Picture, Step, PosterTypeOK, Sourced
<1>6. ASSUME NEW m \in Maker, WritePoster(m) PROVE PosterTypeOK'
  BY <1>0, <1>6 DEF WritePoster, StepsTo, Puts, Disturbs, history, Picture, Step, PosterTypeOK, Sourced
<1>7. ASSUME NEW m \in Maker, LoadPoster(m) PROVE PosterTypeOK'
  BY <1>0, <1>7 DEF LoadPoster, StepsTo, Outcomes, history, Picture, Step, PosterTypeOK, Sourced
<1>8. ASSUME NEW m \in Maker, NothingToLoad(m) PROVE PosterTypeOK'
  BY <1>0, <1>8 DEF NothingToLoad, TaskEnds, StepsTo, history, Picture, Step, PosterTypeOK, Sourced
<1>9. ASSUME NEW m \in Maker, RewritePoster(m) PROVE PosterTypeOK'
  BY <1>0, <1>9 DEF RewritePoster, StepsTo, Puts, Disturbs, history, Picture, Step, PosterTypeOK, Sourced
<1>10. ASSUME NEW m \in Maker, WriteRest(m) PROVE PosterTypeOK'
  BY <1>0, <1>10 DEF WriteRest, TaskEnds, StepsTo, Puts, Disturbs, Outcomes, history, Picture, Step, PosterTypeOK, Sourced
<1>11. ASSUME NEW m \in Maker, CannotStart(m) PROVE PosterTypeOK'
  BY <1>0, <1>11 DEF CannotStart, TaskEnds, StepsTo, Trouble, history, Picture, Step, PosterTypeOK, Sourced
<1>12. ASSUME NEW m \in Maker, SaveFails(m) PROVE PosterTypeOK'
  <2>1. excused' \in BOOLEAN
    BY <1>0, <1>12 DEF SaveFails, PosterTypeOK
  <2>2. poster' \in Picture \cup {NoPoster, Empty, Mixed} /\ unlinked' \subseteq Maker
    BY <1>0, <1>12 DEF SaveFails, PosterTypeOK
  <2>3. troubles' \in 0..TroubleLimit
    BY <1>0, <1>12 DEF SaveFails, PosterTypeOK, Trouble
  <2> QED
    BY <1>0, <1>12, <2>1, <2>2, <2>3 DEF SaveFails, TaskEnds, StepsTo, PosterTypeOK, Step
<1>13. ASSUME MakersStop PROVE PosterTypeOK'
  BY <1>0, <1>13 DEF MakersStop, Trouble, Picture, Step, PosterTypeOK, Sourced
<1>14. ASSUME NEW i \in Image, NEW keepsTime \in BOOLEAN, Edit(i, keepsTime) PROVE PosterTypeOK'
  BY <1>0, <1>14 DEF Edit, Picture, Step, PosterTypeOK, Sourced
<1>15. CASE UNCHANGED posterVars
  BY <1>0, <1>15 DEF posterVars, making, history, Picture, Step, PosterTypeOK, Sourced
<1> QED
  BY <1>1, <1>2, <1>3, <1>4, <1>5, <1>6, <1>7, <1>8, <1>9, <1>10, <1>11, <1>12, <1>13, <1>14, <1>15 DEF PosterNext, Makes

(* A task takes its image before its first statement. *)
LEMMA SourcedInv ==
  ASSUME PosterInv, [PosterNext]_posterVars
  PROVE  Sourced'
<1> USE PosterAssumption
<1>0. PosterTypeOK /\ Sourced
  BY DEF PosterInv
<1>1. ASSUME NEW i \in Image, EnqueuePoster(i) PROVE Sourced'
  BY <1>0, <1>1 DEF EnqueuePoster, making, history, PosterTypeOK, Sourced
<1>2. ASSUME NEW m \in Maker, NEW i \in Image, TakeTask(m, i) PROVE Sourced'
  BY <1>0, <1>2 DEF TakeTask, StepsTo, history, PosterTypeOK, Sourced
<1>3. ASSUME NEW m \in Maker, ReadImage(m) PROVE Sourced'
  BY <1>0, <1>3 DEF ReadImage, StepsTo, history, PosterTypeOK, Sourced
<1>4. ASSUME NEW m \in Maker, LookForPoster(m) PROVE Sourced'
  BY <1>0, <1>4 DEF LookForPoster, StepsTo, history, PosterTypeOK, Sourced
<1>5. ASSUME NEW m \in Maker, OpenPoster(m) PROVE Sourced'
  BY <1>0, <1>5 DEF OpenPoster, StepsTo, Disturbs, PosterTypeOK, Sourced
<1>6. ASSUME NEW m \in Maker, WritePoster(m) PROVE Sourced'
  BY <1>0, <1>6 DEF WritePoster, StepsTo, Puts, Disturbs, history, PosterTypeOK, Sourced
<1>7. ASSUME NEW m \in Maker, LoadPoster(m) PROVE Sourced'
  BY <1>0, <1>7 DEF LoadPoster, StepsTo, Outcomes, history, PosterTypeOK, Sourced
<1>8. ASSUME NEW m \in Maker, NothingToLoad(m) PROVE Sourced'
  BY <1>0, <1>8 DEF NothingToLoad, TaskEnds, StepsTo, history, PosterTypeOK, Sourced
<1>9. ASSUME NEW m \in Maker, RewritePoster(m) PROVE Sourced'
  BY <1>0, <1>9 DEF RewritePoster, StepsTo, Puts, Disturbs, history, PosterTypeOK, Sourced
<1>10. ASSUME NEW m \in Maker, WriteRest(m) PROVE Sourced'
  BY <1>0, <1>10 DEF WriteRest, TaskEnds, StepsTo, Puts, Disturbs, Outcomes, history, PosterTypeOK, Sourced
<1>11. ASSUME NEW m \in Maker, CannotStart(m) PROVE Sourced'
  BY <1>0, <1>11 DEF CannotStart, TaskEnds, StepsTo, Trouble, history, PosterTypeOK, Sourced
<1>12. ASSUME NEW m \in Maker, SaveFails(m) PROVE Sourced'
  BY <1>0, <1>12 DEF SaveFails, TaskEnds, StepsTo, Trouble, PosterTypeOK, Sourced
<1>13. ASSUME MakersStop PROVE Sourced'
  BY <1>0, <1>13 DEF MakersStop, Trouble, PosterTypeOK, Sourced
<1>14. ASSUME NEW i \in Image, NEW keepsTime \in BOOLEAN, Edit(i, keepsTime) PROVE Sourced'
  BY <1>0, <1>14 DEF Edit, PosterTypeOK, Sourced
<1>15. CASE UNCHANGED posterVars
  BY <1>0, <1>15 DEF posterVars, making, history, PosterTypeOK, Sourced
<1> QED
  BY <1>1, <1>2, <1>3, <1>4, <1>5, <1>6, <1>7, <1>8, <1>9, <1>10, <1>11, <1>12, <1>13, <1>14, <1>15 DEF PosterNext, Makes

(* It keeps what it has read, or what it has loaded. *)
LEMMA HoldsInv ==
  ASSUME PosterInv, [PosterNext]_posterVars
  PROVE  HoldsPicture'
<1> USE PosterAssumption
<1>0. PosterTypeOK /\ Sourced /\ HoldsPicture
  BY DEF PosterInv
<1>1. ASSUME NEW i \in Image, EnqueuePoster(i) PROVE HoldsPicture'
  BY <1>0, <1>1 DEF EnqueuePoster, making, history, Picture, PosterTypeOK, Sourced, HoldsPicture
<1>2. ASSUME NEW m \in Maker, NEW i \in Image, TakeTask(m, i) PROVE HoldsPicture'
  BY <1>0, <1>2 DEF TakeTask, StepsTo, history, Picture, PosterTypeOK, Sourced, HoldsPicture
<1>3. ASSUME NEW m \in Maker, ReadImage(m) PROVE HoldsPicture'
  BY <1>0, <1>3 DEF ReadImage, StepsTo, history, Picture, PosterTypeOK, Sourced, HoldsPicture
<1>4. ASSUME NEW m \in Maker, LookForPoster(m) PROVE HoldsPicture'
  BY <1>0, <1>4 DEF LookForPoster, StepsTo, history, Picture, PosterTypeOK, Sourced, HoldsPicture
<1>5. ASSUME NEW m \in Maker, OpenPoster(m) PROVE HoldsPicture'
  BY <1>0, <1>5 DEF OpenPoster, StepsTo, Disturbs, Picture, PosterTypeOK, Sourced, HoldsPicture
<1>6. ASSUME NEW m \in Maker, WritePoster(m) PROVE HoldsPicture'
  BY <1>0, <1>6 DEF WritePoster, StepsTo, Puts, Disturbs, history, Picture, PosterTypeOK, Sourced, HoldsPicture
<1>7. ASSUME NEW m \in Maker, LoadPoster(m) PROVE HoldsPicture'
  BY <1>0, <1>7 DEF LoadPoster, StepsTo, Outcomes, history, Picture, PosterTypeOK, Sourced, HoldsPicture
<1>8. ASSUME NEW m \in Maker, NothingToLoad(m) PROVE HoldsPicture'
  BY <1>0, <1>8 DEF NothingToLoad, TaskEnds, StepsTo, history, Picture, PosterTypeOK, Sourced, HoldsPicture
<1>9. ASSUME NEW m \in Maker, RewritePoster(m) PROVE HoldsPicture'
  BY <1>0, <1>9 DEF RewritePoster, StepsTo, Puts, Disturbs, history, Picture, PosterTypeOK, Sourced, HoldsPicture
<1>10. ASSUME NEW m \in Maker, WriteRest(m) PROVE HoldsPicture'
  BY <1>0, <1>10 DEF WriteRest, TaskEnds, StepsTo, Puts, Disturbs, Outcomes, history, Picture, PosterTypeOK, Sourced, HoldsPicture
<1>11. ASSUME NEW m \in Maker, CannotStart(m) PROVE HoldsPicture'
  BY <1>0, <1>11 DEF CannotStart, TaskEnds, StepsTo, Trouble, history, Picture, PosterTypeOK, Sourced, HoldsPicture
<1>12. ASSUME NEW m \in Maker, SaveFails(m) PROVE HoldsPicture'
  BY <1>0, <1>12 DEF SaveFails, TaskEnds, StepsTo, Trouble, Picture, PosterTypeOK, Sourced, HoldsPicture
<1>13. ASSUME MakersStop PROVE HoldsPicture'
  BY <1>0, <1>13 DEF MakersStop, Trouble, Picture, PosterTypeOK, Sourced, HoldsPicture
<1>14. ASSUME NEW i \in Image, NEW keepsTime \in BOOLEAN, Edit(i, keepsTime) PROVE HoldsPicture'
  BY <1>0, <1>14 DEF Edit, Picture, PosterTypeOK, Sourced, HoldsPicture
<1>15. CASE UNCHANGED posterVars
  BY <1>0, <1>15 DEF posterVars, making, history, Picture, PosterTypeOK, Sourced, HoldsPicture
<1> QED
  BY <1>1, <1>2, <1>3, <1>4, <1>5, <1>6, <1>7, <1>8, <1>9, <1>10, <1>11, <1>12, <1>13, <1>14, <1>15 DEF PosterNext, Makes

(* Who opens the poster sees who has it open. *)
LEMMA MeetingsInv ==
  ASSUME PosterInv, [PosterNext]_posterVars
  PROVE  MeetingsSeen'
<1> USE PosterAssumption
<1>0. PosterTypeOK /\ MeetingsSeen
  BY DEF PosterInv
<1>1. ASSUME NEW i \in Image, EnqueuePoster(i) PROVE MeetingsSeen'
  BY <1>0, <1>1 DEF EnqueuePoster, making, history, Writing, OnPoster, PosterTypeOK, MeetingsSeen
<1>2. ASSUME NEW m \in Maker, NEW i \in Image, TakeTask(m, i) PROVE MeetingsSeen'
  BY <1>0, <1>2 DEF TakeTask, StepsTo, history, Writing, OnPoster, PosterTypeOK, MeetingsSeen
<1>3. ASSUME NEW m \in Maker, ReadImage(m) PROVE MeetingsSeen'
  BY <1>0, <1>3 DEF ReadImage, StepsTo, history, Writing, OnPoster, PosterTypeOK, MeetingsSeen
<1>4. ASSUME NEW m \in Maker, LookForPoster(m) PROVE MeetingsSeen'
  BY <1>0, <1>4 DEF LookForPoster, StepsTo, history, Writing, OnPoster, PosterTypeOK, MeetingsSeen
<1>5. ASSUME NEW m \in Maker, OpenPoster(m) PROVE MeetingsSeen'
  BY <1>0, <1>5 DEF OpenPoster, StepsTo, Disturbs, Writing, OnPoster, PosterTypeOK, MeetingsSeen
<1>6. ASSUME NEW m \in Maker, WritePoster(m) PROVE MeetingsSeen'
  BY <1>0, <1>6 DEF WritePoster, StepsTo, Puts, Disturbs, history, Writing, OnPoster, PosterTypeOK, MeetingsSeen
<1>7. ASSUME NEW m \in Maker, LoadPoster(m) PROVE MeetingsSeen'
  BY <1>0, <1>7 DEF LoadPoster, StepsTo, Outcomes, history, Writing, OnPoster, PosterTypeOK, MeetingsSeen
<1>8. ASSUME NEW m \in Maker, NothingToLoad(m) PROVE MeetingsSeen'
  BY <1>0, <1>8 DEF NothingToLoad, TaskEnds, StepsTo, history, Writing, OnPoster, PosterTypeOK, MeetingsSeen
<1>9. ASSUME NEW m \in Maker, RewritePoster(m) PROVE MeetingsSeen'
  BY <1>0, <1>9 DEF RewritePoster, StepsTo, Puts, Disturbs, history, Writing, OnPoster, PosterTypeOK, MeetingsSeen
<1>10. ASSUME NEW m \in Maker, WriteRest(m) PROVE MeetingsSeen'
  BY <1>0, <1>10 DEF WriteRest, TaskEnds, StepsTo, Puts, Disturbs, Outcomes, history, Writing, OnPoster, PosterTypeOK, MeetingsSeen
<1>11. ASSUME NEW m \in Maker, CannotStart(m) PROVE MeetingsSeen'
  BY <1>0, <1>11 DEF CannotStart, TaskEnds, StepsTo, Trouble, history, Writing, OnPoster, PosterTypeOK, MeetingsSeen
<1>12. ASSUME NEW m \in Maker, SaveFails(m) PROVE MeetingsSeen'
  BY <1>0, <1>12 DEF SaveFails, TaskEnds, StepsTo, Trouble, Writing, OnPoster, PosterTypeOK, MeetingsSeen
<1>13. ASSUME MakersStop PROVE MeetingsSeen'
  BY <1>0, <1>13 DEF MakersStop, Trouble, Writing, OnPoster, PosterTypeOK, MeetingsSeen
<1>14. ASSUME NEW i \in Image, NEW keepsTime \in BOOLEAN, Edit(i, keepsTime) PROVE MeetingsSeen'
  BY <1>0, <1>14 DEF Edit, Writing, OnPoster, PosterTypeOK, MeetingsSeen
<1>15. CASE UNCHANGED posterVars
  BY <1>0, <1>15 DEF posterVars, making, history, Writing, OnPoster, PosterTypeOK, MeetingsSeen
<1> QED
  BY <1>1, <1>2, <1>3, <1>4, <1>5, <1>6, <1>7, <1>8, <1>9, <1>10, <1>11, <1>12, <1>13, <1>14, <1>15 DEF PosterNext, Makes

(* Who meets a task between its blocks has met it when one of them opened. *)
LEMMA MixturesInv ==
  ASSUME PosterInv, [PosterNext]_posterVars
  PROVE  MixturesSeen'
<1> USE PosterAssumption
<1>0. PosterTypeOK /\ MeetingsSeen /\ MixturesSeen
  BY DEF PosterInv
<1>1. ASSUME NEW i \in Image, EnqueuePoster(i) PROVE MixturesSeen'
  BY <1>0, <1>1 DEF EnqueuePoster, making, history, Writing, OnPoster, Picture, PosterTypeOK, MeetingsSeen, MixturesSeen
<1>2. ASSUME NEW m \in Maker, NEW i \in Image, TakeTask(m, i) PROVE MixturesSeen'
  BY <1>0, <1>2 DEF TakeTask, StepsTo, history, Writing, OnPoster, Picture, PosterTypeOK, MeetingsSeen, MixturesSeen
<1>3. ASSUME NEW m \in Maker, ReadImage(m) PROVE MixturesSeen'
  BY <1>0, <1>3 DEF ReadImage, StepsTo, history, Writing, OnPoster, Picture, PosterTypeOK, MeetingsSeen, MixturesSeen
<1>4. ASSUME NEW m \in Maker, LookForPoster(m) PROVE MixturesSeen'
  BY <1>0, <1>4 DEF LookForPoster, StepsTo, history, Writing, OnPoster, Picture, PosterTypeOK, MeetingsSeen, MixturesSeen
<1>5. ASSUME NEW m \in Maker, OpenPoster(m) PROVE MixturesSeen'
  BY <1>0, <1>5 DEF OpenPoster, StepsTo, Disturbs, Writing, OnPoster, Picture, PosterTypeOK, MeetingsSeen, MixturesSeen
<1>6. ASSUME NEW m \in Maker, WritePoster(m) PROVE MixturesSeen'
  BY <1>0, <1>6 DEF WritePoster, StepsTo, Puts, Disturbs, history, Writing, OnPoster, Picture, PosterTypeOK, MeetingsSeen, MixturesSeen
<1>7. ASSUME NEW m \in Maker, LoadPoster(m) PROVE MixturesSeen'
  BY <1>0, <1>7 DEF LoadPoster, StepsTo, Outcomes, history, Writing, OnPoster, Picture, PosterTypeOK, MeetingsSeen, MixturesSeen
<1>8. ASSUME NEW m \in Maker, NothingToLoad(m) PROVE MixturesSeen'
  BY <1>0, <1>8 DEF NothingToLoad, TaskEnds, StepsTo, history, Writing, OnPoster, Picture, PosterTypeOK, MeetingsSeen, MixturesSeen
<1>9. ASSUME NEW m \in Maker, RewritePoster(m) PROVE MixturesSeen'
  BY <1>0, <1>9 DEF RewritePoster, StepsTo, Puts, Disturbs, history, Writing, OnPoster, Picture, PosterTypeOK, MeetingsSeen, MixturesSeen
<1>10. ASSUME NEW m \in Maker, WriteRest(m) PROVE MixturesSeen'
  BY <1>0, <1>10 DEF WriteRest, TaskEnds, StepsTo, Puts, Disturbs, Outcomes, history, Writing, OnPoster, Picture, PosterTypeOK, MeetingsSeen, MixturesSeen
<1>11. ASSUME NEW m \in Maker, CannotStart(m) PROVE MixturesSeen'
  BY <1>0, <1>11 DEF CannotStart, TaskEnds, StepsTo, Trouble, history, Writing, OnPoster, Picture, PosterTypeOK, MeetingsSeen, MixturesSeen
<1>12. ASSUME NEW m \in Maker, SaveFails(m) PROVE MixturesSeen'
  BY <1>0, <1>12 DEF SaveFails, TaskEnds, StepsTo, Trouble, Writing, OnPoster, Picture, PosterTypeOK, MeetingsSeen, MixturesSeen
<1>13. ASSUME MakersStop PROVE MixturesSeen'
  BY <1>0, <1>13 DEF MakersStop, Trouble, Writing, OnPoster, Picture, PosterTypeOK, MeetingsSeen, MixturesSeen
<1>14. ASSUME NEW i \in Image, NEW keepsTime \in BOOLEAN, Edit(i, keepsTime) PROVE MixturesSeen'
  BY <1>0, <1>14 DEF Edit, Writing, OnPoster, Picture, PosterTypeOK, MeetingsSeen, MixturesSeen
<1>15. CASE UNCHANGED posterVars
  BY <1>0, <1>15 DEF posterVars, making, history, Writing, OnPoster, Picture, PosterTypeOK, MeetingsSeen, MixturesSeen
<1> QED
  BY <1>1, <1>2, <1>3, <1>4, <1>5, <1>6, <1>7, <1>8, <1>9, <1>10, <1>11, <1>12, <1>13, <1>14, <1>15 DEF PosterNext, Makes

(* An image is replaced under a writing task only with an excuse. *)
LEMMA OldInv ==
  ASSUME PosterInv, [PosterNext]_posterVars
  PROVE  OldExcused'
<1> USE PosterAssumption
<1>0. PosterTypeOK /\ OldExcused
  BY DEF PosterInv
<1>1. ASSUME NEW i \in Image, EnqueuePoster(i) PROVE OldExcused'
  BY <1>0, <1>1 DEF EnqueuePoster, making, history, Writing, OnPoster, Picture, Now, PosterTypeOK, OldExcused
<1>2. ASSUME NEW m \in Maker, NEW i \in Image, TakeTask(m, i) PROVE OldExcused'
  BY <1>0, <1>2 DEF TakeTask, StepsTo, history, Writing, OnPoster, Picture, Now, PosterTypeOK, OldExcused
<1>3. ASSUME NEW m \in Maker, ReadImage(m) PROVE OldExcused'
  BY <1>0, <1>3 DEF ReadImage, StepsTo, history, Writing, OnPoster, Picture, Now, PosterTypeOK, OldExcused
<1>4. ASSUME NEW m \in Maker, LookForPoster(m) PROVE OldExcused'
  BY <1>0, <1>4 DEF LookForPoster, StepsTo, history, Writing, OnPoster, Picture, Now, PosterTypeOK, OldExcused
<1>5. ASSUME NEW m \in Maker, OpenPoster(m) PROVE OldExcused'
  BY <1>0, <1>5 DEF OpenPoster, StepsTo, Disturbs, Writing, OnPoster, Picture, Now, PosterTypeOK, OldExcused
<1>6. ASSUME NEW m \in Maker, WritePoster(m) PROVE OldExcused'
  BY <1>0, <1>6 DEF WritePoster, StepsTo, Puts, Disturbs, history, Writing, OnPoster, Picture, Now, PosterTypeOK, OldExcused
<1>7. ASSUME NEW m \in Maker, LoadPoster(m) PROVE OldExcused'
  BY <1>0, <1>7 DEF LoadPoster, StepsTo, Outcomes, history, Writing, OnPoster, Picture, Now, PosterTypeOK, OldExcused
<1>8. ASSUME NEW m \in Maker, NothingToLoad(m) PROVE OldExcused'
  BY <1>0, <1>8 DEF NothingToLoad, TaskEnds, StepsTo, history, Writing, OnPoster, Picture, Now, PosterTypeOK, OldExcused
<1>9. ASSUME NEW m \in Maker, RewritePoster(m) PROVE OldExcused'
  BY <1>0, <1>9 DEF RewritePoster, StepsTo, Puts, Disturbs, history, Writing, OnPoster, Picture, Now, PosterTypeOK, OldExcused
<1>10. ASSUME NEW m \in Maker, WriteRest(m) PROVE OldExcused'
  BY <1>0, <1>10 DEF WriteRest, TaskEnds, StepsTo, Puts, Disturbs, Outcomes, history, Writing, OnPoster, Picture, Now, PosterTypeOK, OldExcused
<1>11. ASSUME NEW m \in Maker, CannotStart(m) PROVE OldExcused'
  BY <1>0, <1>11 DEF CannotStart, TaskEnds, StepsTo, Trouble, history, Writing, OnPoster, Picture, Now, PosterTypeOK, OldExcused
<1>12. ASSUME NEW m \in Maker, SaveFails(m) PROVE OldExcused'
  BY <1>0, <1>12 DEF SaveFails, TaskEnds, StepsTo, Trouble, Writing, OnPoster, Picture, Now, PosterTypeOK, OldExcused
<1>13. ASSUME MakersStop PROVE OldExcused'
  BY <1>0, <1>13 DEF MakersStop, Trouble, Writing, OnPoster, Picture, Now, PosterTypeOK, OldExcused
<1>14. ASSUME NEW i \in Image, NEW keepsTime \in BOOLEAN, Edit(i, keepsTime) PROVE OldExcused'
  BY <1>0, <1>14 DEF Edit, Writing, OnPoster, Picture, Now, PosterTypeOK, OldExcused
<1>15. CASE UNCHANGED posterVars
  BY <1>0, <1>15 DEF posterVars, making, history, Writing, OnPoster, Picture, Now, PosterTypeOK, OldExcused
<1> QED
  BY <1>1, <1>2, <1>3, <1>4, <1>5, <1>6, <1>7, <1>8, <1>9, <1>10, <1>11, <1>12, <1>13, <1>14, <1>15 DEF PosterNext, Makes

(* Who empties the poster fills it, removes it or is excused. *)
LEMMA AccountedInv ==
  ASSUME PosterInv, [PosterNext]_posterVars
  PROVE  Accounted'
<1> USE PosterAssumption
<1>0. PosterTypeOK /\ HoldsPicture /\ MixturesSeen /\ OldExcused /\ Accounted
  BY DEF PosterInv
<1>1. ASSUME NEW i \in Image, EnqueuePoster(i) PROVE Accounted'
  BY <1>0, <1>1 DEF EnqueuePoster, making, history, Writing, OnPoster, Picture, Now, PosterTypeOK, HoldsPicture, MixturesSeen, OldExcused, Accounted
<1>2. ASSUME NEW m \in Maker, NEW i \in Image, TakeTask(m, i) PROVE Accounted'
  BY <1>0, <1>2 DEF TakeTask, StepsTo, history, Writing, OnPoster, Picture, Now, PosterTypeOK, HoldsPicture, MixturesSeen, OldExcused, Accounted
<1>3. ASSUME NEW m \in Maker, ReadImage(m) PROVE Accounted'
  BY <1>0, <1>3 DEF ReadImage, StepsTo, history, Writing, OnPoster, Picture, Now, PosterTypeOK, HoldsPicture, MixturesSeen, OldExcused, Accounted
<1>4. ASSUME NEW m \in Maker, LookForPoster(m) PROVE Accounted'
  BY <1>0, <1>4 DEF LookForPoster, StepsTo, history, Writing, OnPoster, Picture, Now, PosterTypeOK, HoldsPicture, MixturesSeen, OldExcused, Accounted
<1>5. ASSUME NEW m \in Maker, OpenPoster(m) PROVE Accounted'
  BY <1>0, <1>5 DEF OpenPoster, StepsTo, Disturbs, Writing, OnPoster, Picture, Now, PosterTypeOK, HoldsPicture, MixturesSeen, OldExcused, Accounted
<1>6. ASSUME NEW m \in Maker, WritePoster(m) PROVE Accounted'
  BY <1>0, <1>6 DEF WritePoster, StepsTo, Puts, Disturbs, history, Writing, OnPoster, Picture, Now, PosterTypeOK, HoldsPicture, MixturesSeen, OldExcused, Accounted
<1>7. ASSUME NEW m \in Maker, LoadPoster(m) PROVE Accounted'
  BY <1>0, <1>7 DEF LoadPoster, StepsTo, Outcomes, history, Writing, OnPoster, Picture, Now, PosterTypeOK, HoldsPicture, MixturesSeen, OldExcused, Accounted
<1>8. ASSUME NEW m \in Maker, NothingToLoad(m) PROVE Accounted'
  BY <1>0, <1>8 DEF NothingToLoad, TaskEnds, StepsTo, history, Writing, OnPoster, Picture, Now, PosterTypeOK, HoldsPicture, MixturesSeen, OldExcused, Accounted
<1>9. ASSUME NEW m \in Maker, RewritePoster(m) PROVE Accounted'
  BY <1>0, <1>9 DEF RewritePoster, StepsTo, Puts, Disturbs, history, Writing, OnPoster, Picture, Now, PosterTypeOK, HoldsPicture, MixturesSeen, OldExcused, Accounted
<1>10. ASSUME NEW m \in Maker, WriteRest(m) PROVE Accounted'
  BY <1>0, <1>10 DEF WriteRest, TaskEnds, StepsTo, Puts, Disturbs, Outcomes, history, Writing, OnPoster, Picture, Now, PosterTypeOK, HoldsPicture, MixturesSeen, OldExcused, Accounted
<1>11. ASSUME NEW m \in Maker, CannotStart(m) PROVE Accounted'
  BY <1>0, <1>11 DEF CannotStart, TaskEnds, StepsTo, Trouble, history, Writing, OnPoster, Picture, Now, PosterTypeOK, HoldsPicture, MixturesSeen, OldExcused, Accounted
<1>12. ASSUME NEW m \in Maker, SaveFails(m) PROVE Accounted'
  BY <1>0, <1>12 DEF SaveFails, TaskEnds, StepsTo, Trouble, Writing, OnPoster, Picture, Now, PosterTypeOK, HoldsPicture, MixturesSeen, OldExcused, Accounted
<1>13. ASSUME MakersStop PROVE Accounted'
  BY <1>0, <1>13 DEF MakersStop, Trouble, Writing, OnPoster, Picture, Now, PosterTypeOK, HoldsPicture, MixturesSeen, OldExcused, Accounted
<1>14. ASSUME NEW i \in Image, NEW keepsTime \in BOOLEAN, Edit(i, keepsTime) PROVE Accounted'
  BY <1>0, <1>14 DEF Edit, Writing, OnPoster, Picture, Now, PosterTypeOK, HoldsPicture, MixturesSeen, OldExcused, Accounted
<1>15. CASE UNCHANGED posterVars
  BY <1>0, <1>15 DEF posterVars, making, history, Writing, OnPoster, Picture, Now, PosterTypeOK, HoldsPicture, MixturesSeen, OldExcused, Accounted
<1> QED
  BY <1>1, <1>2, <1>3, <1>4, <1>5, <1>6, <1>7, <1>8, <1>9, <1>10, <1>11, <1>12, <1>13, <1>14, <1>15 DEF PosterNext, Makes

LEMMA PosterNextInv == PosterInv /\ [PosterNext]_posterVars => PosterInv'
BY PosterTypeInv, SourcedInv, HoldsInv, MeetingsInv, MixturesInv, OldInv, AccountedInv
   DEF PosterInv

(* Every reachable state satisfies the invariant. *)
THEOREM PosterInvariance == PosterSpec => []PosterInv
BY PosterInitInv, PosterNextInv, PTL DEF PosterSpec

(* The file, the queue and what tasks hold keep their types. *)
THEOREM PosterTypeCorrect == PosterSpec => []PosterTypeOK
<1>1. PosterInv => PosterTypeOK
  BY DEF PosterInv
<1> QED
  BY <1>1, PosterInvariance, PTL

(* An image newer than the poster, or none, makes it be made anew.         *)
LEMMA CurrentOrMade == PosterInv => PosterIsCurrent
<1> SUFFICES ASSUME PosterInv, ~excused, \A m \in Maker : step[m] = "idle",
                    \A i \in Image : UpToDate(i)
             PROVE  (\E i \in Image : poster = <<i, "now">>) \/ (met /\ poster = Mixed)
  BY DEF PosterIsCurrent
<1>1. \A m \in Maker : ~OnPoster(m)
  BY DEF OnPoster, Writing
<1>2. ASSUME NEW i \in Image, poster = <<i, "before">>, i \in newer PROVE FALSE
  BY <1>2 DEF UpToDate
<1>3. poster # NoPoster
  BY PosterAssumption DEF UpToDate
<1> QED
  BY <1>1, <1>2, <1>3 DEF PosterInv, Accounted, Now

(* A poster nobody would make anew shows an image of its stem as it is;    *)
(* it is damaged only if several tasks were at it since it was last        *)
(* opened, for any number of them, in blocks that meet as they like        *)
(* (poster_up_to_date, _merge_exif_into_poster).                           *)
THEOREM UpToDateIsCurrent == PosterSpec => []PosterIsCurrent
BY CurrentOrMade, PosterInvariance, PTL

-----------------------------------------------------------------------------
(* Rows, connections and posters, as they are model-checked. *)

(* Every step of the three is one of the rows, of the connections or of    *)
(* the posters; the others stand still.                                    *)
LEMMA PartsStep ==
  ASSUME [IndexNext]_indexVars
  PROVE  /\ [Next]_vars /\ [DbNext]_dbVars /\ [PosterNext]_posterVars
         /\ UNCHANGED part
<1> DEFINE Goal == /\ [Next]_vars /\ [DbNext]_dbVars /\ [PosterNext]_posterVars
                   /\ UNCHANGED part
<1>1. ASSUME OfRows, Next PROVE Goal
  BY <1>1 DEF OfRows
<1>2. ASSUME OfConnections, DbNext PROVE Goal
  BY <1>2 DEF OfConnections
<1>3. ASSUME OfPosters, PosterNext PROVE Goal
  BY <1>3 DEF OfPosters
<1>4. ASSUME UNCHANGED indexVars PROVE Goal
  BY <1>4 DEF indexVars
<1> HIDE DEF Goal
<1>5. ASSUME IndexNext PROVE Goal
  <2>1. ASSUME \/ \E s \in Share : OfRows /\ Request(s)
               \/ \E w \in Worker : OfRows /\ WorkerStep(w)
               \/ \E w \in Worker : OfRows /\ StatementRaises(w)
               \/ \E w \in Worker : OfRows /\ MarkDies(w)
               \/ \E w \in Worker, t \in Task : OfRows /\ ClaimDies(w, t)
               \/ \E s \in Share : OfRows /\ RequestFails(s)
               \/ OfRows /\ Restart
        PROVE  Goal
    BY <1>1, <2>1 DEF Next, FaultStep
  <2>2. ASSUME NEW t \in Connection,
               \/ OfConnections /\ Select(t)
               \/ OfConnections /\ TurnsTo(t)
               \/ OfConnections /\ Writes(t)
               \/ OfConnections /\ TurnedAway(t)
               \/ OfConnections /\ Refused(t)
               \/ OfConnections /\ RolledBack(t)
               \/ OfConnections /\ ThreadEnds(t)
        PROVE  Goal
    BY <1>2, <2>2 DEF DbNext
  <2>3. ASSUME OfConnections /\ NodeStarts PROVE Goal
    BY <1>2, <2>3 DEF DbNext
  <2>4. ASSUME NEW m \in Maker,
               \/ OfPosters /\ Makes(m)
               \/ OfPosters /\ CannotStart(m)
               \/ OfPosters /\ SaveFails(m)
        PROVE  Goal
    BY <1>3, <2>4 DEF PosterNext
  <2>5. ASSUME \/ \E i \in Image : OfPosters /\ EnqueuePoster(i)
               \/ OfPosters /\ MakersStop
               \/ \E i \in Image, keepsTime \in BOOLEAN : OfPosters /\ Edit(i, keepsTime)
        PROVE  Goal
    BY <1>3, <2>5 DEF PosterNext
  <2> QED
    BY <1>5, <2>1, <2>2, <2>3, <2>4, <2>5 DEF IndexNext
<1> QED
  BY <1>4, <1>5 DEF Goal

IndexInv ==
  /\ part \in {"rows", "connections", "posters"}
  /\ IInv /\ ConnectionInv /\ PosterInv

(* The invariants of rows, connections and posters hold of the three       *)
(* together.                                                               *)
THEOREM IndexInvariance == IndexSpec => []IndexInv
<1>1. IndexInit => IndexInv
  BY InitInv, DbInitInv, PosterInitInv DEF IndexInit, IndexInv
<1>2. ASSUME IndexInv, [IndexNext]_indexVars PROVE IndexInv'
  BY <1>2, PartsStep, NextInv, DbNextInv, PosterNextInv DEF IndexInv
<1> QED
  BY <1>1, <1>2, PTL DEF IndexSpec

(* Every variable of the three keeps its type.                             *)
THEOREM IndexTypeCorrect == IndexSpec => []IndexTypeOK
<1>1. IndexInv => IndexTypeOK
  BY DEF IndexInv, IInv, ConnectionInv, PosterInv, IndexTypeOK
<1> QED
  BY <1>1, IndexInvariance, PTL

(* What the safety checks of the index check on a small instance: no media *)
(* file is forgotten, every share is attended to, a connection is harmed   *)
(* by refusals alone, and a poster nobody would make anew is current.      *)
THEOREM IndexSafe ==
  IndexSpec => [](NoMediaForgotten /\ SharesAttended /\ HarmHasCause /\ PosterIsCurrent)
<1>1. IndexInv => NoMediaForgotten /\ SharesAttended
  BY DEF IndexInv, IInv, SharesAttended
<1>2. IndexInv => HarmHasCause
  BY HarmCaused DEF IndexInv
<1>3. IndexInv => PosterIsCurrent
  BY CurrentOrMade DEF IndexInv
<1> QED
  BY <1>1, <1>2, <1>3, IndexInvariance, PTL
=============================================================================
