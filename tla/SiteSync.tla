-------------------------------- MODULE SiteSync --------------------------------
(***************************************************************************)
(* libs/site_sync/channel.py: a node keeps the pages under /site/ at the   *)
(* revision the master publishes.  sync_once runs in the background loop,  *)
(* every 30 s, and in threads of its own (POST /api/site/sync-now,         *)
(* apply-upgrade), with no lock between them.  On disk: one directory per  *)
(* revision, active.json (the directory that is served) and                *)
(* channel_state.json (the revision sync_once takes for applied).          *)
(*                                                                         *)
(* A file written in place is empty in between; active.json is written as  *)
(* active.json.new and renamed, and 0 stands for a content that cannot be  *)
(* read.  The archive comes by torrent, into a directory per revision that *)
(* the threads share, or by HTTPS into a file of the thread's own.         *)
(***************************************************************************)
EXTENDS Naturals

CONSTANTS
  Thread, Loop,          \* threads that sync, one of them the background loop
  MaxRev,                \* bound on revisions
  RequestLimit,          \* bound on syncs outside the loop
  FaultLimit, CrashLimit \* bounds on failures and restarts

ASSUME SiteAssumption ==
  /\ Loop \in Thread
  /\ MaxRev \in Nat \ {0}
  /\ RequestLimit \in Nat /\ FaultLimit \in Nat /\ CrashLimit \in Nat

Rev  == 1..MaxRev
None == MaxRev + 1       \* there is no active.json.new

VARIABLES
  published,             \* revision in site_channel.json of the master
  stage,                 \* the directory rev-N: none, partial or whole
  new, active, state,    \* active.json.new, active.json, channel_state.json
  inbox,                 \* is there an archive in _in-N?
  pc, rev,               \* a sync: its next statement and its revision,
  src, fd, cut,          \* its archive, its open file, has its stage been cleared?
  alone,                 \* history: has it met no other sync?
  overlapped,            \* history: have two syncs ever met?
  requests, faults, crashes

disk   == <<stage, new, active, state, inbox>>
locals == <<rev, src, fd, cut, alone, overlapped>>
limits == <<requests, faults, crashes>>
vars   == <<published, disk, pc, locals, limits>>

Statement == {"idle", "check", "prepare", "torrent", "https", "verify", "clear",
              "extract", "open", "write", "replace", "trunc", "save", "applied"}

TypeOK ==
  /\ published \in Rev
  /\ stage \in [Rev -> {"none", "partial", "whole"}]
  /\ new \in 0..None /\ active \in 0..MaxRev /\ state \in 0..MaxRev
  /\ inbox \in [Rev -> BOOLEAN]
  /\ pc \in [Thread -> Statement] /\ rev \in [Thread -> 0..MaxRev]
  /\ src \in [Thread -> {"none", "own", "inbox"}]
  /\ fd \in [Thread -> {"none", "new", "active", "gone"}]
  /\ cut \in [Thread -> BOOLEAN]
  /\ alone \in [Thread -> BOOLEAN] /\ overlapped \in BOOLEAN
  /\ requests \in Nat /\ faults \in Nat /\ crashes \in Nat

Init ==
  /\ published = 1
  /\ stage = [r \in Rev |-> "none"]
  /\ new = None /\ active = 0 /\ state = 0
  /\ inbox = [r \in Rev |-> FALSE]
  /\ pc = [t \in Thread |-> "idle"] /\ rev = [t \in Thread |-> 0]
  /\ src = [t \in Thread |-> "none"] /\ fd = [t \in Thread |-> "none"]
  /\ cut = [t \in Thread |-> FALSE]
  /\ alone = [t \in Thread |-> TRUE] /\ overlapped = FALSE
  /\ requests = 0 /\ faults = 0 /\ crashes = 0

-----------------------------------------------------------------------------
Idle(t)    == pc[t] = "idle"
Goes(t, s) == pc' = [pc EXCEPT ![t] = s]

(* The end of sync_once: the finally removes the thread's archive, and the *)
(* inbox with it.                                                          *)
Ends(t) ==
  /\ Goes(t, "idle")
  /\ inbox' = IF src[t] = "inbox" THEN [inbox EXCEPT ![rev[t]] = FALSE] ELSE inbox
  /\ rev' = [rev EXCEPT ![t] = 0]
  /\ src' = [src EXCEPT ![t] = "none"]
  /\ fd' = [fd EXCEPT ![t] = "none"]
  /\ cut' = [cut EXCEPT ![t] = FALSE]
  /\ alone' = [alone EXCEPT ![t] = TRUE]
  /\ UNCHANGED <<stage, new, active, state, overlapped>>

(* Mutant: asks for the revision after the published one.                  *)
FetchNext(t) ==
  LET free == \A u \in Thread : Idle(u) IN
  /\ Idle(t)
  /\ t = Loop \/ requests < RequestLimit
  /\ requests' = IF t = Loop THEN requests ELSE requests + 1
  /\ rev' = [rev EXCEPT ![t] = published + 1]
  /\ alone' = [u \in Thread |-> IF u = t THEN free ELSE Idle(u)]
  /\ overlapped' = (overlapped \/ ~free)
  /\ Goes(t, "check")
  /\ UNCHANGED <<published, disk, src, fd, cut, faults, crashes>>

(* The channel is read first and the local revision after it.              *)
Fetch(t) ==
  LET free == \A u \in Thread : Idle(u) IN
  /\ Idle(t)
  /\ t = Loop \/ requests < RequestLimit
  /\ requests' = IF t = Loop THEN requests ELSE requests + 1
  /\ rev' = [rev EXCEPT ![t] = published]
  /\ alone' = [u \in Thread |-> IF u = t THEN free ELSE Idle(u)]
  /\ overlapped' = (overlapped \/ ~free)
  /\ Goes(t, "check")
  /\ UNCHANGED <<published, disk, src, fd, cut, faults, crashes>>

(* Mutant: a node that is one revision behind counts as up to date.        *)
NewerByTwo(t) == rev[t] > state + 1

(* sync_once compares what it fetched with channel_state.json, once.       *)
Newer(t) == rev[t] > state

UpToDate(t) ==
  /\ pc[t] = "check"
  /\ ~Newer(t)
  /\ Ends(t)
  /\ UNCHANGED <<published, limits>>

(* A channel offers a magnet or torrent, or HTTPS only.                    *)
Check(t) ==
  /\ pc[t] = "check"
  /\ Newer(t)
  /\ \E s \in {"prepare", "https"} : Goes(t, s)
  /\ UNCHANGED <<published, disk, locals, limits>>

-----------------------------------------------------------------------------
(* The archive. *)
Prepare(t) ==
  /\ pc[t] = "prepare"
  /\ inbox' = [inbox EXCEPT ![rev[t]] = FALSE]
  /\ src' = [src EXCEPT ![t] = "inbox"]
  /\ Goes(t, "torrent")
  /\ UNCHANGED <<published, stage, new, active, state, rev, fd, cut, alone,
                 overlapped, limits>>

TorrentArrives(t) ==
  /\ pc[t] = "torrent"
  /\ inbox' = [inbox EXCEPT ![rev[t]] = TRUE]
  /\ Goes(t, "verify")
  /\ UNCHANGED <<published, stage, new, active, state, locals, limits>>

(* libtorrent is optional: its absence and its errors lead to HTTPS.       *)
TorrentFails(t) ==
  /\ pc[t] = "torrent"
  /\ inbox' = [inbox EXCEPT ![rev[t]] = FALSE]
  /\ src' = [src EXCEPT ![t] = "none"]
  /\ Goes(t, "https")
  /\ UNCHANGED <<published, stage, new, active, state, rev, fd, cut, alone,
                 overlapped, limits>>

Download(t) ==
  /\ pc[t] = "https"
  /\ src' = [src EXCEPT ![t] = "own"]
  /\ Goes(t, "verify")
  /\ UNCHANGED <<published, disk, rev, fd, cut, alone, overlapped, limits>>

(* The master removes the bundles of earlier revisions.                    *)
BundleGone(t) ==
  /\ pc[t] = "https"
  /\ rev[t] # published
  /\ Ends(t)
  /\ UNCHANGED <<published, limits>>

(* Another thread has removed the archive from the inbox they share.       *)
Removed(t) == src[t] = "inbox" /\ ~inbox[rev[t]]

ArchiveGone(t) ==
  /\ pc[t] \in {"verify", "extract"}
  /\ Removed(t)
  /\ Ends(t)
  /\ UNCHANGED <<published, limits>>

(* A torrent counts as finished at 99.9 %: what is there then has another  *)
(* sum, and HTTPS is not tried.                                            *)
SumDiffers(t) ==
  /\ pc[t] = "verify"
  /\ src[t] = "inbox" /\ ~Removed(t)
  /\ Ends(t)
  /\ UNCHANGED <<published, limits>>

Verify(t) ==
  /\ pc[t] = "verify"
  /\ ~Removed(t)
  /\ Goes(t, "clear")
  /\ UNCHANGED <<published, disk, locals, limits>>

-----------------------------------------------------------------------------
(* The pages: _apply_bundle. *)
(* Mutant: the pages that are served are removed first.                    *)
ClearServed(t) ==
  /\ pc[t] = "clear"
  /\ stage' = [r \in Rev |-> IF r \in {rev[t], active} THEN "partial" ELSE stage[r]]
  /\ cut' = [u \in Thread |-> cut[u] \/ (pc[u] = "extract" /\ rev[u] = rev[t])]
  /\ Goes(t, "extract")
  /\ UNCHANGED <<published, new, active, state, inbox, rev, src, fd, alone,
                 overlapped, limits>>

(* rmtree and makedirs; the tar file is opened after it.  A thread that is *)
(* extracting into the directory loses what it has extracted so far.       *)
Clear(t) ==
  /\ pc[t] = "clear"
  /\ stage' = [stage EXCEPT ![rev[t]] = "partial"]
  /\ cut' = [u \in Thread |-> cut[u] \/ (pc[u] = "extract" /\ rev[u] = rev[t])]
  /\ Goes(t, "extract")
  /\ UNCHANGED <<published, new, active, state, inbox, rev, src, fd, alone,
                 overlapped, limits>>

Extract(t) ==
  /\ pc[t] = "extract"
  /\ ~Removed(t)
  /\ stage' = IF cut[t] THEN stage ELSE [stage EXCEPT ![rev[t]] = "whole"]
  /\ Goes(t, "open")
  /\ UNCHANGED <<published, new, active, state, inbox, locals, limits>>

(* The directory vanishes under an extraction.                             *)
ExtractFails(t) ==
  /\ pc[t] = "extract"
  /\ cut[t]
  /\ Ends(t)
  /\ UNCHANGED <<published, limits>>

OpenNew(t) ==
  /\ pc[t] = "open"
  /\ new' = 0
  /\ fd' = [fd EXCEPT ![t] = "new"]
  /\ Goes(t, "write")
  /\ UNCHANGED <<published, stage, active, state, inbox, rev, src, cut, alone,
                 overlapped, limits>>

WriteNew(t) ==
  /\ pc[t] = "write"
  /\ new' = IF fd[t] = "new" THEN rev[t] ELSE new
  /\ active' = IF fd[t] = "active" THEN rev[t] ELSE active
  /\ fd' = [fd EXCEPT ![t] = "none"]
  /\ Goes(t, "replace")
  /\ UNCHANGED <<published, stage, state, inbox, rev, src, cut, alone, overlapped,
                 limits>>

(* Mutant: an active.json that is there is kept.                           *)
ActivateFirst(t) ==
  /\ pc[t] = "replace"
  /\ new # None
  /\ active' = IF active = 0 THEN new ELSE active
  /\ new' = None
  /\ fd' = [u \in Thread |-> IF fd[u] = "none" THEN "none" ELSE "gone"]
  /\ Goes(t, "trunc")
  /\ UNCHANGED <<published, stage, state, inbox, rev, src, cut, alone, overlapped,
                 limits>>

Activate(t) ==
  /\ pc[t] = "replace"
  /\ new # None
  /\ active' = new
  /\ new' = None
  /\ fd' = [u \in Thread |-> CASE fd[u] = "new" -> "active"
                               [] fd[u] = "active" -> "gone"
                               [] OTHER -> fd[u]]
  /\ Goes(t, "trunc")
  /\ UNCHANGED <<published, stage, state, inbox, rev, src, cut, alone, overlapped,
                 limits>>

(* Another thread has renamed the file or, on Windows, has it open.        *)
ActivateFails(t) ==
  /\ pc[t] = "replace"
  /\ new = None \/ \E u \in Thread : fd[u] # "none"
  /\ Ends(t)
  /\ UNCHANGED <<published, limits>>

(* _save_state opens channel_state.json itself.                            *)
TruncateState(t) ==
  /\ pc[t] = "trunc"
  /\ state' = 0
  /\ Goes(t, "save")
  /\ UNCHANGED <<published, stage, new, active, inbox, locals, limits>>

(* Over what another thread has written meanwhile the result may not parse.*)
SaveState(t) ==
  /\ pc[t] = "save"
  /\ state' \in {rev[t]} \cup {s \in {0} : state # 0}
  /\ Goes(t, "applied")
  /\ UNCHANGED <<published, stage, new, active, inbox, locals, limits>>

Applied(t) ==
  /\ pc[t] = "applied"
  /\ Ends(t)
  /\ UNCHANGED <<published, limits>>

-----------------------------------------------------------------------------
(* The environment. *)
Publish ==
  /\ published < MaxRev
  /\ published' = published + 1
  /\ UNCHANGED <<disk, pc, locals, limits>>

(* Mutant: an archive that cannot be unpacked is applied all the same.     *)
FailsSwallowed(t) ==
  /\ pc[t] \notin {"idle", "check", "torrent", "applied"}
  /\ faults < FaultLimit
  /\ faults' = faults + 1
  /\ IF pc[t] = "extract" THEN Goes(t, "open") /\ UNCHANGED <<disk, locals>>
                          ELSE Ends(t)
  /\ UNCHANGED <<published, requests, crashes>>

(* The download, the sum, the archive or the disk fails.                   *)
Fails(t) ==
  /\ pc[t] \notin {"idle", "check", "torrent", "applied"}
  /\ faults < FaultLimit
  /\ faults' = faults + 1
  /\ Ends(t)
  /\ UNCHANGED <<published, requests, crashes>>

(* Mutant: a restart goes back to the revision that is recorded.           *)
RestartRepairs ==
  /\ crashes < CrashLimit
  /\ crashes' = crashes + 1
  /\ \E t \in Thread : ~Idle(t)
  /\ active' = state
  /\ pc' = [t \in Thread |-> "idle"] /\ rev' = [t \in Thread |-> 0]
  /\ src' = [t \in Thread |-> "none"] /\ fd' = [t \in Thread |-> "none"]
  /\ cut' = [t \in Thread |-> FALSE] /\ alone' = [t \in Thread |-> TRUE]
  /\ UNCHANGED <<published, stage, new, state, inbox, overlapped, requests, faults>>

Restart ==
  /\ crashes < CrashLimit
  /\ crashes' = crashes + 1
  /\ pc' = [t \in Thread |-> "idle"] /\ rev' = [t \in Thread |-> 0]
  /\ src' = [t \in Thread |-> "none"] /\ fd' = [t \in Thread |-> "none"]
  /\ cut' = [t \in Thread |-> FALSE] /\ alone' = [t \in Thread |-> TRUE]
  /\ UNCHANGED <<published, disk, overlapped, requests, faults>>

(* What sync_once does when nothing outside it fails, up to its return.    *)
SyncStep(t) ==
  \/ UpToDate(t) \/ Check(t) \/ Prepare(t) \/ TorrentArrives(t) \/ TorrentFails(t)
  \/ Download(t) \/ BundleGone(t) \/ ArchiveGone(t) \/ SumDiffers(t) \/ Verify(t)
  \/ Clear(t) \/ Extract(t) \/ ExtractFails(t)
  \/ OpenNew(t) \/ WriteNew(t) \/ Activate(t) \/ ActivateFails(t)
  \/ TruncateState(t) \/ SaveState(t)

Proceeds(t) == SyncStep(t) \/ Applied(t)

Next ==
  \/ \E t \in Thread : Fetch(t) \/ Proceeds(t) \/ Fails(t)
  \/ Publish \/ Restart

(* The loop calls sync_once again every 30 s, and no statement hangs: every*)
(* network call has a timeout.                                             *)
Fairness == WF_vars(Fetch(Loop)) /\ \A t \in Thread : WF_vars(Proceeds(t))

Spec     == Init /\ [][Next]_vars
FairSpec == Spec /\ Fairness

-----------------------------------------------------------------------------
(* Properties. *)

(* A sync that met no other and returns "applied" has done all it says:    *)
(* its revision is whole, served and recorded, whatever failed, crashed or *)
(* overlapped syncs left on disk.                                          *)
QuietSyncApplies ==
  \A t \in Thread : pc[t] = "applied" /\ alone[t] =>
    /\ stage[rev[t]] = "whole"
    /\ active = rev[t]
    /\ state = rev[t]

(* As long as syncs do not overlap, a recorded revision is whole on disk   *)
(* and it or a later one is served: the record is written last, so a crash *)
(* or failure anywhere makes the node repeat a revision, never skip one.   *)
RecordedIsServed ==
  overlapped \/ state = 0 \/ (active >= state /\ stage[state] = "whole")

Troubled == faults + crashes > 0

(* As long as syncs do not overlap, the pages that are served are whole: a *)
(* new revision is unpacked beside them.  The exception is the repetition  *)
(* of a revision that was served when its sync died before recording it.   *)
ServedIsWhole ==
  overlapped \/ active = 0 \/ stage[active] = "whole"
             \/ (active > state /\ Troubled)

(* The two files tell the truth about the directories.                     *)
FilesTellTheTruth == RecordedIsServed /\ ServedIsWhole

(* The served revision goes back only when syncs meet: then a slow sync of *)
(* an old revision may end after that of a newer one.                      *)
NoDowngrade ==
  [][active' >= active \/ overlapped]_active

(* On a slow link every torrent may be taken while its last piece is out   *)
(* (torrent_sync.py:96), in every round anew: the archive never fits.      *)
TorrentsEndInPart == []<><<\E t \in Thread : SumDiffers(t)>>_vars

(* If syncs never overlap, the revision published last is in the end       *)
(* served, whole and recorded, in spite of failures and restarts, unless   *)
(* torrents end in part for ever.                                          *)
SiteArrives ==
  \/ <>overlapped
  \/ TorrentsEndInPart
  \/ <>[](active = published /\ state = published /\ stage[published] = "whole")
=============================================================================
