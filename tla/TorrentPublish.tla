----------------------------- MODULE TorrentPublish -----------------------------
(***************************************************************************)
(* POST /api/shares/<id>/publish-snapshot: the node gives the share a new  *)
(* revision, registers the list of its files under an infohash of its own  *)
(* with the tracker of the master, announces itself there and notes what   *)
(* it has published.  Requests run in eight waitress threads; each of them *)
(* reads the share, lists the files and writes the revision in statements  *)
(* of their own, while an index task may be emptying and filling the table *)
(* or somebody removes the share.  What the tracker knows is in the memory *)
(* of the master, what the node noted in the memory of the node.           *)
(*                                                                         *)
(* The infohash covers a random snapshot_id, so a publication stands for   *)
(* its infohash and its snapshot_id.  Of the files their number is kept.   *)
(***************************************************************************)
EXTENDS Naturals

CONSTANTS
  Share, Pub,            \* shares, publications
  Nothing,               \* no publication
  FileCount,             \* files in the folder of a share
  ManifestLimit,         \* 100000 in the code
  TroubleLimit           \* bound on failures, restarts and scans together

ASSUME PublishAssumption ==
  /\ Nothing \notin Pub
  /\ {FileCount, ManifestLimit, TroubleLimit} \subseteq Nat

VARIABLES
  shares, indexed,       \* table shares; rows of files, by share
  revision, snapshot,    \* snapshot_revision and snapshot_id, by share
  step, of,              \* a publication: its next statement and its share,
  no, manifest, refused, \* its revision, its files; has registering failed?
  told,                  \* worker._states: what the node noted, by share
  listed, swarm,         \* tracker._meta and tracker._peers
  mingled,               \* history: publications that met one of their share
  rescanned,             \* history: publications that met a scan or removal
  forgotten,             \* history: has the master restarted?
  troubles

node     == <<shares, indexed, revision, snapshot>>
tracker  == <<listed, swarm>>
mine     == <<of, no, manifest, refused>>
past     == <<mingled, rescanned, forgotten, troubles>>
pubVars  == <<node, step, mine, told, tracker, past>>

Step == {"new", "read", "list", "update", "register", "announce", "note", "done",
         "failed"}

PubTypeOK ==
  /\ shares \subseteq Share /\ indexed \in [Share -> 0..FileCount]
  /\ revision \in [Share -> Nat] /\ snapshot \in [Share -> Pub \cup {Nothing}]
  /\ step \in [Pub -> Step] /\ of \in [Pub -> Share]
  /\ no \in [Pub -> Nat] /\ manifest \in [Pub -> Nat]
  /\ refused \in [Pub -> BOOLEAN]
  /\ told \in [Share -> Pub \cup {Nothing}]
  /\ listed \subseteq Pub /\ swarm \subseteq Pub
  /\ mingled \subseteq Pub /\ rescanned \subseteq Pub /\ forgotten \in BOOLEAN
  /\ troubles \in Nat

(* Shares that have been indexed.                                          *)
PubInit ==
  /\ shares = Share /\ indexed = [s \in Share |-> FileCount]
  /\ revision = [s \in Share |-> 0] /\ snapshot = [s \in Share |-> Nothing]
  /\ step = [p \in Pub |-> "new"] /\ of \in [Pub -> Share]
  /\ no = [p \in Pub |-> 0] /\ manifest = [p \in Pub |-> 0]
  /\ refused = [p \in Pub |-> FALSE]
  /\ told = [s \in Share |-> Nothing]
  /\ listed = {} /\ swarm = {}
  /\ mingled = {} /\ rescanned = {} /\ forgotten = FALSE
  /\ troubles = 0

-----------------------------------------------------------------------------
Does(p, s)    == step' = [step EXCEPT ![p] = s]
Underway      == {p \in Pub : step[p] \notin {"new", "done", "failed"}}
UnderwayOn(s) == {p \in Underway : of[p] = s}

(* The handler looks the share up and compares its owner.                  *)
Request(p) ==
  /\ step[p] = "new" /\ of[p] \in shares
  /\ mingled' = IF UnderwayOn(of[p]) = {} THEN mingled
                ELSE mingled \cup {p} \cup UnderwayOn(of[p])
  /\ rescanned' = IF indexed[of[p]] = FileCount THEN rescanned ELSE rescanned \cup {p}
  /\ Does(p, "read")
  /\ UNCHANGED <<node, mine, told, tracker, forgotten, troubles>>

(* Mutant: the revision is not counted up.                                 *)
ReadShareAsIs(p) ==
  /\ step[p] = "read"
  /\ IF of[p] \in shares
     THEN no' = [no EXCEPT ![p] = revision[of[p]]] /\ Does(p, "list")
     ELSE Does(p, "failed") /\ UNCHANGED no
  /\ UNCHANGED <<node, of, manifest, refused, told, tracker, past>>

(* publish_snapshot looks it up again, and takes the revision from there.  *)
ReadShare(p) ==
  /\ step[p] = "read"
  /\ IF of[p] \in shares
     THEN no' = [no EXCEPT ![p] = revision[of[p]] + 1] /\ Does(p, "list")
     ELSE Does(p, "failed") /\ UNCHANGED no
  /\ UNCHANGED <<node, of, manifest, refused, told, tracker, past>>

ListFiles(p) ==
  /\ step[p] = "list"
  /\ manifest' = [manifest EXCEPT ![p] =
       IF indexed[of[p]] <= ManifestLimit THEN indexed[of[p]] ELSE ManifestLimit]
  /\ Does(p, "update")
  /\ UNCHANGED <<node, of, no, refused, told, tracker, past>>

(* Mutant: the snapshot is written for the first publication only.         *)
UpdateOnce(p) ==
  /\ step[p] = "update"
  /\ IF of[p] \in shares /\ snapshot[of[p]] = Nothing
     THEN /\ revision' = [revision EXCEPT ![of[p]] = no[p]]
          /\ snapshot' = [snapshot EXCEPT ![of[p]] = p]
     ELSE UNCHANGED <<revision, snapshot>>
  /\ Does(p, "register")
  /\ UNCHANGED <<shares, indexed, mine, told, tracker, past>>

(* registry.update_snapshot: nobody asks whether a row was there.          *)
Update(p) ==
  /\ step[p] = "update"
  /\ IF of[p] \in shares
     THEN /\ revision' = [revision EXCEPT ![of[p]] = no[p]]
          /\ snapshot' = [snapshot EXCEPT ![of[p]] = p]
     ELSE UNCHANGED <<revision, snapshot>>
  /\ Does(p, "register")
  /\ UNCHANGED <<shares, indexed, mine, told, tracker, past>>

-----------------------------------------------------------------------------
(* The master: register_content and announce. *)
Register(p) ==
  /\ step[p] = "register"
  /\ listed' = listed \cup {p}
  /\ Does(p, "announce")
  /\ UNCHANGED <<node, mine, told, swarm, past>>

Trouble == troubles < TroubleLimit /\ troubles' = troubles + 1

(* Mutant: an error is logged and forgotten.                               *)
RegisterFailsUnseen(p) ==
  /\ step[p] = "register"
  /\ Trouble
  /\ listed' \in {listed, listed \cup {p}}
  /\ Does(p, "announce")
  /\ UNCHANGED <<node, mine, told, swarm, mingled, rescanned, forgotten>>

(* The call fails, perhaps after the master has taken it.                  *)
RegisterFails(p) ==
  /\ step[p] = "register"
  /\ Trouble
  /\ listed' \in {listed, listed \cup {p}}
  /\ refused' = [refused EXCEPT ![p] = TRUE]
  /\ Does(p, "announce")
  /\ UNCHANGED <<node, of, no, manifest, told, swarm, mingled, rescanned, forgotten>>

(* The node announces a publication once, also one that was refused.       *)
Announce(p) ==
  /\ step[p] = "announce"
  /\ swarm' = swarm \cup {p}
  /\ Does(p, "note")
  /\ UNCHANGED <<node, mine, told, listed, past>>

AnnounceFails(p) ==
  /\ step[p] = "announce"
  /\ Trouble
  /\ swarm' \in {swarm, swarm \cup {p}}
  /\ Does(p, "note")
  /\ UNCHANGED <<node, mine, told, listed, mingled, rescanned, forgotten>>

(* _states, under its lock; the last to come here stays.                   *)
Note(p) ==
  /\ step[p] = "note"
  /\ told' = [told EXCEPT ![of[p]] = p]
  /\ Does(p, "done")
  /\ UNCHANGED <<node, mine, tracker, past>>

-----------------------------------------------------------------------------
(* The index, the owner, time and restarts. *)
(* An index task empties the table of the share and fills it row by row.   *)
Rescan(s) ==
  /\ s \in shares
  /\ Trouble
  /\ indexed' = [indexed EXCEPT ![s] = 0]
  /\ rescanned' = rescanned \cup UnderwayOn(s)
  /\ UNCHANGED <<shares, revision, snapshot, step, mine, told, tracker, mingled, forgotten>>

AddRow(s) ==
  /\ s \in shares
  /\ indexed[s] < FileCount
  /\ indexed' = [indexed EXCEPT ![s] = @ + 1]
  /\ UNCHANGED <<shares, revision, snapshot, step, mine, told, tracker, past>>

(* Its rows go with it; what was registered stays registered.              *)
RemoveShare(s) ==
  /\ s \in shares
  /\ shares' = shares \ {s}
  /\ indexed' = [indexed EXCEPT ![s] = 0]
  /\ rescanned' = rescanned \cup UnderwayOn(s)
  /\ UNCHANGED <<revision, snapshot, step, mine, told, tracker, mingled, forgotten, troubles>>

(* An entry of the tracker lives an hour.                                  *)
PeerExpires(p) ==
  /\ p \in swarm
  /\ swarm' = swarm \ {p}
  /\ UNCHANGED <<node, step, mine, told, listed, past>>

MasterRestarts ==
  /\ Trouble
  /\ listed' = {} /\ swarm' = {}
  /\ forgotten' = TRUE
  /\ UNCHANGED <<node, step, mine, told, mingled, rescanned>>

NodeRestarts ==
  /\ Trouble
  /\ step' = [p \in Pub |-> IF p \in Underway THEN "failed" ELSE step[p]]
  /\ told' = [s \in Share |-> Nothing]
  /\ UNCHANGED <<node, mine, tracker, mingled, rescanned, forgotten>>

PubNext ==
  \/ \E p \in Pub :
       \/ Request(p) \/ ReadShare(p) \/ ListFiles(p) \/ Update(p)
       \/ Register(p) \/ RegisterFails(p) \/ Announce(p) \/ AnnounceFails(p) \/ Note(p)
       \/ PeerExpires(p)
  \/ \E s \in Share : Rescan(s) \/ AddRow(s) \/ RemoveShare(s)
  \/ MasterRestarts \/ NodeRestarts

PubSpec == PubInit /\ [][PubNext]_pubVars

-----------------------------------------------------------------------------
(* Properties. *)

(* A publication that met no other of its share, and no scan or removal of *)
(* it, is what the registry calls its snapshot when it ends, lists every   *)
(* file up to the limit and, if the master took it and has not restarted,  *)
(* is listed there: whatever went wrong before with others.                *)
QuietPublication ==
  \A p \in Pub : step[p] = "note" /\ p \notin mingled \cup rescanned =>
    /\ snapshot[of[p]] = p /\ revision[of[p]] = no[p]
    /\ manifest[p] = IF FileCount <= ManifestLimit THEN FileCount ELSE ManifestLimit
    /\ refused[p] \/ forgotten \/ p \in listed

(* Of publications that met no other of their share, each has a revision   *)
(* of its own, whatever those in between that did meet have written: the   *)
(* tracker keeps all of them, and only the number tells which is current.  *)
(* Two requests that meet may read the same revision (snapshot.py:41).     *)
RevisionNamesOne ==
  \A p, q \in Pub \ mingled :
    /\ p # q /\ of[p] = of[q]
    /\ {step[p], step[q]} \cap {"new", "read", "failed"} = {}
    => no[p] # no[q]

(* What the node calls registered is listed at the master until that       *)
(* restarts, whichever publication of the share was noted last.  A peer is *)
(* announced for nothing else, but for a publication whose registration    *)
(* failed: that is announced all the same (worker.py:122).                 *)
RegisteredIsListed ==
  forgotten \/
  /\ \A s \in Share : told[s] # Nothing => refused[told[s]] \/ told[s] \in listed
  /\ \A p \in swarm : refused[p] \/ p \in listed
=============================================================================
