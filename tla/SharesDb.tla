-------------------------------- MODULE SharesDb --------------------------------
(***************************************************************************)
(* The connections to shares.db (libs/shares/registry.py).  Every thread   *)
(* of the node, those of waitress and of the worker pool alike, keeps one  *)
(* connection as long as it lives.  A function that writes takes           *)
(* registry._lock and executes and commits one statement; a function that  *)
(* reads takes no lock.  The sqlite3 module begins a transaction before a  *)
(* statement that writes; commit ends it, and nothing else does: the       *)
(* registry never rolls back.                                              *)
(*                                                                         *)
(* SQLite, in WAL mode, is modelled as the registry uses it: one           *)
(* connection writes at a time, a transaction goes on seeing the state it  *)
(* first read, and one that sees an old state may not write.  Which rows a *)
(* statement touches does not matter here; see ShareIndex for that.        *)
(***************************************************************************)
CONSTANTS
  Connection,   \* threads, and so connections
  Nobody

ASSUME ConnectionAssumption == Nobody \notin Connection

VARIABLES
  holder,       \* the thread in registry._lock
  executed,     \* has its statement been executed, and not yet committed?
  opened,       \* connections in a transaction
  view,         \* what a transaction sees: nothing yet, the last or an old state
  writer,       \* the connection with SQLite's write lock
  misread,      \* history: threads whose handler has read an old state
  refused       \* history: has a statement been refused or cut off?

dbVars == <<holder, executed, opened, view, writer, misread, refused>>

DbTypeOK ==
  /\ holder \in Connection \cup {Nobody} /\ executed \in BOOLEAN
  /\ opened \subseteq Connection
  /\ view \in [Connection -> {"none", "last", "old"}]
  /\ writer \in Connection \cup {Nobody}
  /\ misread \subseteq Connection /\ refused \in BOOLEAN

DbInit ==
  /\ holder = Nobody /\ executed = FALSE
  /\ opened = {} /\ view = [t \in Connection |-> "none"] /\ writer = Nobody
  /\ misread = {} /\ refused = FALSE

-----------------------------------------------------------------------------
(* Outside a transaction a SELECT sees the last state; inside, the first   *)
(* one decides what all that follow will see.                              *)
Select(t) ==
  /\ holder # t
  /\ view' = IF t \in opened /\ view[t] = "none" THEN [view EXCEPT ![t] = "last"] ELSE view
  /\ misread' = IF view[t] = "old" THEN misread \cup {t} ELSE misread
  /\ UNCHANGED <<holder, executed, opened, writer, refused>>

(* The thread turns to another request or task.                            *)
TurnsTo(t) ==
  /\ holder # t /\ t \in misread
  /\ misread' = misread \ {t}
  /\ UNCHANGED <<holder, executed, opened, view, writer, refused>>

TakeLock(t) ==
  /\ holder = Nobody
  /\ holder' = t
  /\ UNCHANGED <<executed, opened, view, writer, misread, refused>>

Executing(t) == holder = t /\ ~executed

(* "database is locked", at once for a transaction that sees an old state, *)
(* and after five seconds where another connection has the write lock.     *)
Locked(t) == writer \notin {t, Nobody} \/ view[t] = "old"

(* Mutant: a function that forgets to commit.                              *)
ExecuteOnly(t) ==
  /\ Executing(t)
  /\ ~Locked(t)
  /\ opened' = opened \cup {t} /\ writer' = t
  /\ view' = [view EXCEPT ![t] = "last"]
  /\ holder' = Nobody
  /\ UNCHANGED <<executed, misread, refused>>

Execute(t) ==
  /\ Executing(t)
  /\ ~Locked(t)
  /\ opened' = opened \cup {t} /\ writer' = t
  /\ view' = [view EXCEPT ![t] = "last"]
  /\ executed' = TRUE
  /\ UNCHANGED <<holder, misread, refused>>

(* Mutant: a transaction that sees an old state is begun anew for the same *)
(* statement.                                                              *)
TurnedAwayRetries(t) ==
  /\ Executing(t)
  /\ Locked(t)
  /\ \/ /\ view[t] = "old"
        /\ opened' = opened \ {t} /\ view' = [view EXCEPT ![t] = "none"]
        /\ UNCHANGED holder
     \/ /\ view[t] # "old"
        /\ opened' = opened \cup {t} /\ holder' = Nobody
        /\ UNCHANGED view
  /\ UNCHANGED <<executed, writer, misread, refused>>

(* The exception leaves the transaction begun for the statement open.      *)
TurnedAway(t) ==
  /\ Executing(t)
  /\ Locked(t)
  /\ opened' = opened \cup {t}
  /\ holder' = Nobody
  /\ UNCHANGED <<executed, view, writer, misread, refused>>

(* A mount_path that is taken, a file of a share that has been removed, or *)
(* an error of the disk: the statement is undone, the transaction and the  *)
(* write lock stay.                                                        *)
Refused(t) ==
  /\ Executing(t)
  /\ ~Locked(t)
  /\ opened' = opened \cup {t} /\ writer' = t
  /\ view' = [view EXCEPT ![t] = "last"]
  /\ holder' = Nobody
  /\ refused' = TRUE
  /\ UNCHANGED <<executed, misread>>

(* The end of a transaction of t.                                          *)
Closes(t) ==
  /\ opened' = opened \ {t}
  /\ writer' = IF writer = t THEN Nobody ELSE writer

(* A statement need not have changed anything.                             *)
Commit(t) ==
  /\ holder = t /\ executed
  /\ holder' = Nobody /\ executed' = FALSE
  /\ Closes(t)
  /\ \E changed \in BOOLEAN :
       view' = [u \in Connection |-> IF u = t THEN "none"
                                     ELSE IF changed /\ view[u] = "last" THEN "old"
                                     ELSE view[u]]
  /\ UNCHANGED <<misread, refused>>

(* After an error of the disk SQLite may also roll back by itself.         *)
RolledBack(t) ==
  /\ holder = t
  /\ ~Locked(t)
  /\ holder' = Nobody /\ executed' = FALSE
  /\ Closes(t)
  /\ view' = [view EXCEPT ![t] = "none"]
  /\ UNCHANGED <<misread, refused>>

(* A worker thread ends, by an exception, and its connection with it.      *)
ThreadEnds(t) ==
  /\ holder # t
  /\ Closes(t)
  /\ view' = [view EXCEPT ![t] = "none"]
  /\ misread' = misread \ {t}
  /\ UNCHANGED <<holder, executed, refused>>

NodeStarts ==
  /\ holder' = Nobody /\ executed' = FALSE
  /\ opened' = {} /\ view' = [t \in Connection |-> "none"] /\ writer' = Nobody
  /\ misread' = {} /\ refused' = FALSE

Writes(t) == TakeLock(t) \/ Execute(t) \/ Commit(t)

DbNext ==
  \/ \E t \in Connection :
       \/ Select(t) \/ TurnsTo(t) \/ Writes(t)
       \/ TurnedAway(t) \/ Refused(t) \/ RolledBack(t) \/ ThreadEnds(t)
  \/ NodeStarts

DbSpec == DbInit /\ [][DbNext]_dbVars

-----------------------------------------------------------------------------
(* Properties. *)

(* Until a statement has been refused, no write is turned away and every   *)
(* read sees the last state, however threads meet: transactions end in     *)
(* the lock they begin in.  After one, this is over until the node starts  *)
(* again: the write lock stays with the thread whose statement was refused *)
(* (registry.py:169, 278), whoever writes meanwhile is left in an open     *)
(* transaction, and may go on seeing its first state for good.             *)
HarmHasCause ==
  refused \/ /\ \A t \in Connection : Executing(t) => ~Locked(t)
             /\ \A t \in opened : t = holder
             /\ misread = {}

(* Even so, what is committed never rests on an old state: a handler that  *)
(* has read one changes nothing from then on to its end, whichever of its  *)
(* exceptions it catches.                                                  *)
MisreadNeverWritten ==
  [][\A t \in Connection : Commit(t) => t \notin misread]_dbVars
=============================================================================
