-------------------------------- MODULE SiteOpen --------------------------------
(***************************************************************************)
(* libs/site_sync/browser_open.py beside SiteSync: the node shows the      *)
(* pages under /site/ in the user's browser once for every revision and    *)
(* every build of the installer.  maybe_open_local_site is called by a     *)
(* sync that has applied a revision, and in the first half minute by a     *)
(* thread of its own, the starter; a lock keeps the calls apart, but not   *)
(* from the syncs that write active.json and channel_state.json meanwhile. *)
(* browser_open_state.json is renamed into place, under the lock.          *)
(***************************************************************************)
EXTENDS SiteSync

CONSTANTS
  Starter, Nobody,       \* the starter; nobody holds the lock
  MaxBuild               \* bound on builds of the installer

ASSUME OpenAssumption ==
  /\ Starter \notin Thread /\ Nobody \notin Thread \cup {Starter}
  /\ MaxBuild \in Nat

VARIABLES
  build,                 \* installer_build.txt, 0 when there is none
  opened, openedFor,     \* browser_open_state.json: revision and build
  holder,                \* who holds _open_lock over a statement
  sawRev, sawBuild,      \* the revision and build it has read
  onScreen,              \* has it called the browser?
  asked,                 \* syncs that have called maybe_open_local_site
  starting,              \* is the starter still at its sixty calls?
  shown,                 \* history: what was shown and noted, or is to be
  twice                  \* history: has one of them been shown again?

call     == <<holder, sawRev, sawBuild, onScreen>>
openVars == <<build, opened, openedFor, call, asked, starting, shown, twice>>
siteVars == <<vars, openVars>>

SiteTypeOK ==
  /\ TypeOK
  /\ build \in 0..MaxBuild /\ opened \in 0..MaxRev /\ openedFor \in 0..build
  /\ holder \in Thread \cup {Starter, Nobody}
  /\ sawRev \in 0..MaxRev /\ sawBuild \in 0..build /\ onScreen \in BOOLEAN
  /\ asked \subseteq Thread /\ starting \in BOOLEAN
  /\ shown \subseteq (0..MaxRev) \X (0..build) /\ twice \in BOOLEAN

SiteInit ==
  /\ Init
  /\ build = 0 /\ opened = 0 /\ openedFor = 0
  /\ holder = Nobody /\ sawRev = 0 /\ sawBuild = 0 /\ onScreen = FALSE
  /\ asked = {} /\ starting = TRUE
  /\ shown = {} /\ twice = FALSE

-----------------------------------------------------------------------------
Calls(x) == IF x = Starter THEN starting ELSE pc[x] = "applied" /\ x \notin asked

(* The call returns: the sync goes on, the starter calls again or has done *)
(* so sixty times.                                                         *)
Returns(x) ==
  IF x = Starter THEN starting' \in BOOLEAN /\ UNCHANGED asked
                 ELSE asked' = asked \cup {x} /\ UNCHANGED starting

Unlocks == holder' = Nobody /\ sawRev' = 0 /\ sawBuild' = 0 /\ onScreen' = FALSE

(* Mutant: nothing is due until the build is known to be newer.            *)
DueByBuild == build > openedFor

Due == state > opened \/ build > openedFor

(* The lock is taken, and there are pages to show: active.json, once       *)
(* there, stays.                                                           *)
Look(x) ==
  /\ Calls(x) /\ holder = Nobody
  /\ active # 0 /\ Due
  /\ holder' = x /\ sawRev' = state /\ sawBuild' = build
  /\ UNCHANGED <<vars, build, opened, openedFor, onScreen, asked, starting, shown, twice>>

NothingToShow(x) ==
  /\ Calls(x) /\ holder = Nobody
  /\ ~(active # 0 /\ Due)
  /\ Returns(x)
  /\ UNCHANGED <<vars, build, opened, openedFor, call, shown, twice>>

Show(x) ==
  /\ holder = x /\ ~onScreen
  /\ onScreen' = TRUE
  /\ shown' = shown \cup {<<sawRev, sawBuild>>}
  /\ twice' = (twice \/ <<sawRev, sawBuild>> \in shown)
  /\ UNCHANGED <<vars, build, opened, openedFor, holder, sawRev, sawBuild, asked, starting>>

(* Mutant: the build is noted with a new revision only.                    *)
NoteOnRevision(x) ==
  /\ holder = x /\ onScreen
  /\ opened' = sawRev
  /\ openedFor' = IF sawRev > opened THEN sawBuild ELSE openedFor
  /\ Unlocks /\ Returns(x)
  /\ UNCHANGED <<vars, build, shown, twice>>

(* Without a build the one noted before stays.                             *)
Note(x) ==
  /\ holder = x /\ onScreen
  /\ opened' = sawRev
  /\ openedFor' = IF sawBuild = 0 THEN openedFor ELSE sawBuild
  /\ Unlocks /\ Returns(x)
  /\ UNCHANGED <<vars, build, shown, twice>>

Fault  == faults < FaultLimit /\ faults' = faults + 1
NoSync == UNCHANGED <<published, disk, pc, locals, requests, crashes>>

(* The browser cannot be started: nothing is noted.                        *)
ShowFails(x) ==
  /\ holder = x /\ ~onScreen
  /\ Fault
  /\ Unlocks /\ Returns(x)
  /\ NoSync /\ UNCHANGED <<build, opened, openedFor, shown, twice>>

Unnoted == IF onScreen THEN shown \ {<<sawRev, sawBuild>>} ELSE shown

(* The disk is full: sync_once raises, and the starter ends.               *)
NoteFails(x) ==
  /\ holder = x /\ onScreen
  /\ Fault
  /\ shown' = Unnoted
  /\ Unlocks
  /\ IF x = Starter THEN starting' = FALSE /\ UNCHANGED asked
                    ELSE asked' = asked \cup {x} /\ UNCHANGED starting
  /\ NoSync /\ UNCHANGED <<build, opened, openedFor, twice>>

Upgrade ==
  /\ build < MaxBuild
  /\ build' = build + 1
  /\ UNCHANGED <<vars, opened, openedFor, call, asked, starting, shown, twice>>

-----------------------------------------------------------------------------
Caller == Thread \cup {Starter}

Asks(x) == Look(x) \/ NothingToShow(x) \/ Show(x) \/ Note(x)

(* sync_once calls maybe_open_local_site before it returns "applied".      *)
Concludes(t) ==
  /\ t \in asked
  /\ Applied(t)
  /\ asked' = asked \ {t}
  /\ UNCHANGED <<build, opened, openedFor, call, starting, shown, twice>>

Restarts ==
  /\ Restart
  /\ shown' = Unnoted
  /\ Unlocks
  /\ asked' = {} /\ starting' = TRUE
  /\ UNCHANGED <<build, opened, openedFor, twice>>

SiteNext ==
  \/ \E t \in Thread :
       \/ Fetch(t) /\ UNCHANGED openVars
       \/ SyncStep(t) /\ UNCHANGED openVars
       \/ Fails(t) /\ UNCHANGED openVars
       \/ Concludes(t)
  \/ \E x \in Caller : Asks(x) \/ ShowFails(x) \/ NoteFails(x)
  \/ Publish /\ UNCHANGED openVars
  \/ Restarts \/ Upgrade

(* The fairness of SiteSync, and of the calls: nothing under the lock      *)
(* waits, and the starter calls for half a minute after every start.       *)
SiteFairness ==
  /\ WF_siteVars(Fetch(Loop) /\ UNCHANGED openVars)
  /\ \A t \in Thread : WF_siteVars((SyncStep(t) /\ UNCHANGED openVars) \/ Concludes(t))
  /\ \A x \in Caller : WF_siteVars(Asks(x))

SiteSpec == SiteInit /\ [][SiteNext]_siteVars /\ SiteFairness

-----------------------------------------------------------------------------
(* Properties. *)

(* A revision is shown once for a build, however calls and syncs meet and  *)
(* whatever they find in channel_state.json, unless a failure or restart   *)
(* came between the browser and the note (lines 146 and 151).              *)
ShownOnce == ~twice

(* If syncs do not meet and the browser can be started, the revision that  *)
(* is published last is in the end shown, also when a sync recorded it and *)
(* died before it had called the browser.  It must arrive, too: torrents   *)
(* that end in part for ever are excepted.                                 *)
LastIsShown ==
  <>overlapped \/ <>(faults > 0) \/ TorrentsEndInPart \/ <>[](opened = published)
=============================================================================
