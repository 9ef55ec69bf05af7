------------------------------- MODULE Installer -------------------------------
(***************************************************************************)
(* apps/installer: the program that keeps a node installed, up to date and *)
(* running.  Its goroutines are the main one (boot, shutdown), updateLoop  *)
(* (every tick: installer upgrade, then payload sync) and superviseNode    *)
(* (waits for the node process, restarts it two minutes after a crash).    *)
(* They share nodeRunner (the current *exec.Cmd) and one flag,             *)
(* intentionalNodeStop.  Node processes live in the operating system: they *)
(* crash, and they survive an installer that is killed.                    *)
(*                                                                         *)
(* Main runs the same syncPayload at boot as updateLoop later, and starts  *)
(* updateLoop only after it, so one control variable, pc, serves both.     *)
(* A kill takes effect at once (the code sleeps 0.4 s after each).         *)
(***************************************************************************)
EXTENDS Naturals, FiniteSets

CONSTANTS
  Payload,        \* sha256 of the payloads the server may offer
  Proc,           \* process ids of nodes, never used again
  NoProc,         \* no process
  NoPayload,      \* no marker file
  FirstPayload,   \* the payload offered at first
  PublishLimit,   \* bound on publications
  BuildLimit,     \* how many of the first ones may bring a new installer
  CrashLimit,     \* bound on crashes of nodes
  FaultLimit,     \* bound on failures of the network, the archive or pip
  StartLimit,     \* bound on failing process starts
  RelaunchLimit,  \* bound on relaunches of the installer by the user
  TroubleLimit    \* bound on all of the latter four together

ASSUME InstallerAssumption ==
  /\ NoProc \notin Proc
  /\ NoPayload \notin Payload \cup {"missing", "broken"}
  /\ {"missing", "broken"} \cap Payload = {}
  /\ FirstPayload \in Payload
  /\ PublishLimit \in Nat /\ BuildLimit \in Nat /\ CrashLimit \in Nat
  /\ FaultLimit \in Nat /\ StartLimit \in Nat /\ RelaunchLimit \in Nat
  /\ TroubleLimit \in Nat

VARIABLES
  offered, remote,          \* server: sha in core-manifest.json, installer_build
  app, marker, localBuild,  \* disk: appDir, last_payload_sha256, installer_build
  born, alive,              \* nodes: started so far, still running
  home, image,              \* where each listens, the code it runs
  cmd, flag,                \* nodeRunner.cmd and intentionalNodeStop
  main,                     \* boot, run, down (StopNode called), exit
  pc, want, build,          \* the sync thread, what version.json told it,
  started, fresh,           \* its other locals
  spc, held,                \* superviseNode and the process it waits for
  myBuild,                  \* history: build of the running installer
  stopped, waited,          \* history: processes killed on purpose, waited for
  publishes, crashes, errors, failedStarts, relaunches

server  == <<offered, remote>>
disk    == <<app, marker, localBuild>>
nodes   == <<born, alive, home, image, stopped>>
runner  == <<cmd, flag>>
thread  == <<pc, want, build, started, fresh>>
sup     == <<spc, held, waited>>
limits  == <<publishes, crashes, errors, failedStarts, relaunches>>
vars    == <<server, disk, nodes, runner, main, thread, sup, myBuild, limits>>

(* A relaunch counts for two.                                              *)
troubles == crashes + errors + failedStarts + 2 * relaunches

(* missing: no node_main.py; broken: an archive extracted in part. *)
AppState == Payload \cup {"missing", "broken"}
Spot     == {"none", "port", "other"}

ThreadState == {"sweep", "idle", "upgrade", "freeport", "launch", "sync",
                "clear", "fetch", "unpack", "pip", "stop", "kill", "start",
                "set", "off"}
SupState    == {"look", "wait", "judge", "delay", "set", "retry", "off"}

TypeOK ==
  /\ offered \in Payload /\ remote \in Nat
  /\ app \in AppState /\ marker \in Payload \cup {NoPayload}
  /\ localBuild \in Nat /\ myBuild \in Nat
  /\ born \in SUBSET Proc /\ alive \in SUBSET born
  /\ stopped \in SUBSET born /\ waited \in SUBSET born
  /\ home \in [Proc -> Spot]
  /\ image \in [Proc -> AppState]
  /\ cmd \in Proc \cup {NoProc} /\ flag \in BOOLEAN
  /\ main \in {"boot", "run", "down", "exit"}
  /\ pc \in ThreadState /\ want \in Payload /\ build \in Nat
  /\ started \in BOOLEAN /\ fresh \in Proc \cup {NoProc}
  /\ spc \in SupState /\ held \in Proc \cup {NoProc}
  /\ publishes \in Nat /\ crashes \in Nat /\ errors \in Nat
  /\ failedStarts \in Nat /\ relaunches \in Nat

Init ==
  /\ offered = FirstPayload /\ remote = 1
  /\ app \in {"missing", FirstPayload}
  /\ marker = IF app = FirstPayload THEN FirstPayload ELSE NoPayload
  /\ localBuild = 1 /\ myBuild = 1
  /\ born = {} /\ alive = {} /\ stopped = {} /\ waited = {}
  /\ home = [p \in Proc |-> "none"]
  /\ image = [p \in Proc |-> "missing"]
  /\ cmd = NoProc /\ flag = FALSE
  /\ main = "boot" /\ pc = "sweep" /\ want = FirstPayload /\ build = 0
  /\ started = FALSE /\ fresh = NoProc
  /\ spc = "look" /\ held = NoProc
  /\ publishes = 0 /\ crashes = 0 /\ errors = 0 /\ failedStarts = 0
  /\ relaunches = 0

-----------------------------------------------------------------------------
(* Node processes. *)
(* exec.Cmd.Start: the node runs the code that is in appDir.               *)
NewProc == CHOOSE p \in Proc : p \notin born

Born(p) ==
  /\ Proc \ born # {}
  /\ born' = born \cup {p}
  /\ alive' = alive \cup {p}
  /\ image' = [image EXCEPT ![p] = app]
  /\ home' = [home EXCEPT ![p] = "none"]

Closed(S) == [p \in Proc |-> IF p \in S THEN "none" ELSE home[p]]

Kill(S) ==
  /\ born' = born
  /\ alive' = alive \ S
  /\ home' = Closed(S)
  /\ stopped' = stopped \cup (S \cap alive)

(* port_manager.pick_port: the port given by the installer if it is free,  *)
(* another candidate otherwise.                                            *)
Listens(p) ==
  /\ p \in alive
  /\ home[p] = "none"
  /\ home' = [home EXCEPT ![p] =
       IF \E q \in alive : home[q] = "port" THEN "other" ELSE "port"]
  /\ UNCHANGED <<server, disk, born, alive, image, stopped, runner, main, thread,
                 sup, myBuild, limits>>

Crashes(p) ==
  /\ p \in alive
  /\ crashes < CrashLimit /\ troubles < TroubleLimit
  /\ crashes' = crashes + 1
  /\ alive' = alive \ {p}
  /\ home' = Closed({p})
  /\ UNCHANGED <<server, disk, born, image, stopped, runner, main, thread, sup,
                 myBuild, publishes, errors, failedStarts, relaunches>>

(* _restart_node_process (payload watcher, apply-upgrade, restart): exec   *)
(* of the code on disk in the same process; nothing without node_main.py.  *)
Reexecs(p) ==
  /\ p \in alive
  /\ app # "missing" /\ app # image[p]
  /\ image' = [image EXCEPT ![p] = app]
  /\ home' = [home EXCEPT ![p] = "none"]
  /\ UNCHANGED <<server, disk, born, alive, stopped, runner, main, thread, sup,
                 myBuild, limits>>

(* The server publishes another payload, and maybe another installer. *)
Publish(v, newBuild) ==
  /\ publishes < PublishLimit
  /\ newBuild => publishes < BuildLimit
  /\ v # offered
  /\ publishes' = publishes + 1
  /\ offered' = v
  /\ remote' = IF newBuild THEN remote + 1 ELSE remote
  /\ UNCHANGED <<disk, nodes, runner, main, thread, sup, myBuild, crashes,
                 errors, failedStarts, relaunches>>

-----------------------------------------------------------------------------
(* StopNode: one locked section; Wait is left to superviseNode. *)
(* Mutants: the process is not killed; the flag is not set; a process that *)
(* does not exist is killed.                                               *)
StopNodeUnkilled ==
  /\ flag' = TRUE
  /\ cmd' = NoProc
  /\ Kill({})

StopNodeUnflagged ==
  /\ flag' = flag
  /\ cmd' = NoProc
  /\ Kill({cmd})

StopNodeUnchecked ==
  /\ flag' = TRUE
  /\ cmd' = NoProc
  /\ born' = born
  /\ alive' = alive \ {cmd}
  /\ home' = home
  /\ stopped' = stopped \cup {cmd}

StopNode ==
  /\ flag' = TRUE
  /\ cmd' = NoProc
  /\ Kill({cmd})

(* killListenersOnPort, killExistingNodeListeners: whoever listens there. *)
KillListeners(spots) == Kill({p \in alive : home[p] \in spots})

AllPorts == {"port", "other"}

Error       == troubles < TroubleLimit /\ errors < FaultLimit /\ errors' = errors + 1
StartFailed ==
  troubles < TroubleLimit /\ failedStarts < StartLimit /\ failedStarts' = failedStarts + 1

Goto(l) == pc' = l

(* After a sync that replaced nothing: boot goes on to start the node.     *)
Rest == IF main = "boot" THEN "start" ELSE "idle"

-----------------------------------------------------------------------------
(* Boot: killExistingNodeListeners. *)
Sweep ==
  /\ pc = "sweep"
  /\ KillListeners(AllPorts)
  /\ Goto("upgrade")
  /\ started' = FALSE
  /\ UNCHANGED <<server, disk, image, runner, main, want, build, fresh, sup,
                 myBuild, limits>>

(* updateLoop: the next tick; runner.Get() is read before the upgrade. *)
Tick ==
  /\ pc = "idle"
  /\ Goto("upgrade")
  /\ started' = (cmd # NoProc)
  /\ UNCHANGED <<server, disk, nodes, runner, main, want, build, fresh, sup, myBuild,
                 limits>>

(* tryInstallerUpgrade: nothing newer, or a fetch, a download or a check   *)
(* failed.                                                                 *)
NoUpgrade ==
  /\ pc = "upgrade"
  /\ remote <= localBuild
  /\ Goto("sync")
  /\ UNCHANGED <<server, disk, nodes, runner, main, want, build, started, fresh, sup,
                 myBuild, limits>>

UpgradeFails ==
  /\ pc = "upgrade"
  /\ Error
  /\ Goto("sync")
  /\ UNCHANGED <<server, disk, nodes, runner, main, want, build, started, fresh, sup,
                 myBuild, publishes, crashes, failedStarts, relaunches>>

(* The new installer is on disk: its build is recorded, the node stopped. *)
UpgradeReady ==
  /\ pc = "upgrade"
  /\ remote > localBuild
  /\ localBuild' = remote
  /\ IF started THEN StopNode ELSE UNCHANGED <<runner, born, alive, home, stopped>>
  /\ Goto("freeport")
  /\ UNCHANGED <<server, app, marker, image, main, want, build, started, fresh, sup,
                 myBuild, limits>>

FreePort ==
  /\ pc \in {"freeport", "kill"}
  /\ KillListeners({"port"})
  /\ Goto(IF pc = "freeport" THEN "launch" ELSE "start")
  /\ UNCHANGED <<server, disk, image, runner, main, want, build, started, fresh,
                 sup, myBuild, limits>>

(* A new installer process: everything in memory starts over. *)
Reboot ==
  /\ cmd' = NoProc /\ flag' = FALSE
  /\ main' = "boot" /\ pc' = "sweep" /\ started' = FALSE /\ fresh' = NoProc
  /\ spc' = "look" /\ held' = NoProc

Launch ==
  /\ pc = "launch"
  /\ Reboot
  /\ myBuild' = localBuild
  /\ UNCHANGED <<server, disk, nodes, want, build, waited, limits>>

LaunchFails ==
  /\ pc = "launch"
  /\ StartFailed
  /\ Goto("sync")
  /\ UNCHANGED <<server, disk, nodes, runner, main, want, build, started, fresh, sup,
                 myBuild, publishes, crashes, errors, relaunches>>

-----------------------------------------------------------------------------
(* syncPayload. *)
UpToDate == marker = offered /\ app # "missing"

(* Nothing to do; the caller records installer_build. *)
SyncSkips ==
  /\ pc = "sync"
  /\ UpToDate
  /\ localBuild' = remote
  /\ Goto(Rest)
  /\ UNCHANGED <<server, app, marker, nodes, runner, main, want, build, started, fresh,
                 sup, myBuild, limits>>

(* Mutant: the payload is replaced under a running node. *)
SyncGoesOn ==
  /\ pc = "sync"
  /\ ~UpToDate
  /\ want' = offered /\ build' = remote
  /\ Goto("fetch")
  /\ UNCHANGED <<server, disk, nodes, runner, main, started, fresh, sup,
                 myBuild, limits>>

SyncStops ==
  /\ pc = "sync"
  /\ ~UpToDate
  /\ want' = offered /\ build' = remote
  /\ StopNode
  /\ Goto("clear")
  /\ UNCHANGED <<server, disk, image, main, started, fresh, sup, myBuild,
                 limits>>

ClearPorts ==
  /\ pc = "clear"
  /\ KillListeners(AllPorts)
  /\ Goto("fetch")
  /\ UNCHANGED <<server, disk, image, runner, main, want, build, started, fresh,
                 sup, myBuild, limits>>

(* Download and sha256 check, then RemoveAll. *)
Fetched ==
  /\ pc = "fetch"
  /\ offered = want
  /\ app' = "missing"
  /\ Goto("unpack")
  /\ UNCHANGED <<server, marker, localBuild, nodes, runner, main, want, build, started,
                 fresh, sup, myBuild, limits>>

(* The server offers something else by now: sha256 mismatch. *)
Mismatch ==
  /\ pc = "fetch"
  /\ offered # want
  /\ Goto(Rest)
  /\ UNCHANGED <<server, disk, nodes, runner, main, want, build, started, fresh, sup,
                 myBuild, limits>>

Unpacked ==
  /\ pc = "unpack"
  /\ app' = want
  /\ Goto("pip")
  /\ UNCHANGED <<server, marker, localBuild, nodes, runner, main, want, build, started,
                 fresh, sup, myBuild, limits>>

UnpackFails ==
  /\ pc = "unpack"
  /\ Error
  /\ app' \in {"missing", "broken"}
  /\ Goto(Rest)
  /\ UNCHANGED <<server, marker, localBuild, nodes, runner, main, want, build, started,
                 fresh, sup, myBuild, publishes, crashes, failedStarts,
                 relaunches>>

(* version.json or the manifest, the download, or pip. *)
SyncFails ==
  /\ pc \in {"sync", "fetch", "pip"}
  /\ Error
  /\ Goto(Rest)
  /\ UNCHANGED <<server, disk, nodes, runner, main, want, build, started, fresh, sup,
                 myBuild, publishes, crashes, failedStarts, relaunches>>

(* Mutant: updateLoop forgets to start the node again. *)
InstalledOnly ==
  /\ pc = "pip"
  /\ marker' = want
  /\ localBuild' = build
  /\ Goto(Rest)
  /\ UNCHANGED <<server, app, nodes, runner, main, want, build, started, fresh,
                 sup, myBuild, limits>>

Installed ==
  /\ pc = "pip"
  /\ marker' = want
  /\ localBuild' = build
  /\ Goto(IF main = "boot" THEN "start" ELSE "stop")
  /\ UNCHANGED <<server, app, nodes, runner, main, want, build, started, fresh, sup,
                 myBuild, limits>>

-----------------------------------------------------------------------------
(* updateLoop stops the node once more, boot and updateLoop start one. *)
StopAgain ==
  /\ pc = "stop"
  /\ StopNode
  /\ Goto("kill")
  /\ UNCHANGED <<server, disk, image, main, want, build, started, fresh, sup,
                 myBuild, limits>>

Start ==
  /\ pc = "start"
  /\ main = "boot" => app # "missing"
  /\ Born(NewProc)
  /\ fresh' = NewProc
  /\ Goto("set")
  /\ UNCHANGED <<server, disk, stopped, runner, main, want, build, started, sup,
                 myBuild, limits>>

(* updateLoop goes on; at boot this, or a missing node_main.py, is fatal. *)
StartFails ==
  /\ pc = "start"
  /\ StartFailed
  /\ IF main = "boot"
     THEN main' = "exit" /\ Goto("off") /\ spc' = "off"
     ELSE Goto("idle") /\ UNCHANGED <<main, spc>>
  /\ UNCHANGED <<server, disk, nodes, runner, want, build, started, fresh, held, waited,
                 myBuild, publishes, crashes, errors, relaunches>>

NothingToStart ==
  /\ pc = "start" /\ main = "boot" /\ app = "missing"
  /\ main' = "exit" /\ Goto("off") /\ spc' = "off"
  /\ UNCHANGED <<server, disk, nodes, runner, want, build, started, fresh, held, waited,
                 myBuild, limits>>

SetCmd ==
  /\ pc = "set"
  /\ cmd' = fresh
  /\ fresh' = NoProc
  /\ main' = IF main = "boot" THEN "run" ELSE main
  /\ Goto("idle")
  /\ UNCHANGED <<server, disk, nodes, flag, want, build, started, sup, myBuild, limits>>

-----------------------------------------------------------------------------
(* superviseNode. *)
Look ==
  /\ spc = "look"
  /\ cmd # NoProc
  /\ held' = cmd
  /\ waited' = waited \cup {cmd}
  /\ spc' = "wait"
  /\ UNCHANGED <<server, disk, nodes, runner, main, thread, myBuild, limits>>

(* Wait returns; clearCmdIfSame. *)
Reap ==
  /\ spc = "wait"
  /\ held \notin alive
  /\ cmd' = IF cmd = held THEN NoProc ELSE cmd
  /\ spc' = "judge"
  /\ UNCHANGED <<server, disk, nodes, flag, main, thread, held, waited, myBuild,
                 limits>>

(* takeIntentionalNodeStop. *)
TakesAsStop ==
  /\ spc = "judge"
  /\ flag
  /\ flag' = FALSE
  /\ spc' = "look" /\ held' = NoProc
  /\ UNCHANGED <<server, disk, nodes, cmd, main, thread, waited, myBuild, limits>>

(* Mutant: the crash is logged, nothing else. *)
LogsCrash ==
  /\ spc = "judge"
  /\ ~flag
  /\ spc' = "look"
  /\ UNCHANGED <<server, disk, nodes, runner, main, thread, held, waited,
                 myBuild, limits>>

TakesAsCrash ==
  /\ spc = "judge"
  /\ ~flag
  /\ spc' = "delay"
  /\ UNCHANGED <<server, disk, nodes, runner, main, thread, held, waited,
                 myBuild, limits>>

(* Two minutes later, whatever happened meanwhile. *)
Restarts ==
  /\ spc = "delay"
  /\ Born(NewProc)
  /\ held' = NewProc
  /\ spc' = "set"
  /\ UNCHANGED <<server, disk, stopped, runner, main, thread, waited, myBuild,
                 limits>>

RestartFails ==
  /\ spc = "delay"
  /\ StartFailed
  /\ spc' = "retry" /\ held' = NoProc
  /\ UNCHANGED <<server, disk, nodes, runner, main, thread, waited, myBuild,
                 publishes, crashes, errors, relaunches>>

(* Another two minutes, then the top of the loop. *)
RetryEnds ==
  /\ spc = "retry"
  /\ spc' = "look"
  /\ UNCHANGED <<server, disk, nodes, runner, main, thread, held, waited,
                 myBuild, limits>>

SupSetCmd ==
  /\ spc = "set"
  /\ cmd' = held
  /\ held' = NoProc
  /\ spc' = "look"
  /\ UNCHANGED <<server, disk, nodes, flag, main, thread, waited, myBuild, limits>>

-----------------------------------------------------------------------------
(* A signal or the tray: StopNode, then the process exits; updateLoop is   *)
(* not told.                                                               *)
ShutdownStops ==
  /\ main = "run"
  /\ main' = "down"
  /\ StopNode
  /\ UNCHANGED <<server, disk, image, thread, sup, myBuild, limits>>

Exit ==
  /\ main = "down"
  /\ main' = "exit" /\ Goto("off") /\ spc' = "off"
  /\ UNCHANGED <<server, disk, nodes, runner, want, build, started, fresh, held, waited,
                 myBuild, limits>>

(* The user starts the installer: after an exit, or over a running one,    *)
(* which killOtherInstallerInstances kills; its node lives on.             *)
Relaunch ==
  /\ relaunches < RelaunchLimit /\ troubles + 1 < TroubleLimit
  /\ relaunches' = relaunches + 1
  /\ Reboot
  /\ UNCHANGED <<server, disk, nodes, want, build, waited, myBuild, publishes, crashes,
                 errors, failedStarts>>

-----------------------------------------------------------------------------
UpgradeStep == NoUpgrade \/ UpgradeFails \/ UpgradeReady \/ FreePort \/ Launch
                 \/ LaunchFails

SyncStep == SyncSkips \/ SyncStops \/ ClearPorts \/ Fetched \/ Mismatch
              \/ Unpacked \/ UnpackFails \/ SyncFails \/ Installed

StartStep == StopAgain \/ Start \/ StartFails
               \/ NothingToStart \/ SetCmd

ThreadStep == Sweep \/ Tick \/ UpgradeStep \/ SyncStep \/ StartStep

SupStep == Look \/ Reap \/ TakesAsStop \/ TakesAsCrash
             \/ Restarts \/ RestartFails \/ RetryEnds
             \/ SupSetCmd

NodeStep(p) == Listens(p) \/ Crashes(p) \/ Reexecs(p)

Next ==
  \/ ThreadStep
  \/ SupStep
  \/ \E p \in Proc : NodeStep(p)
  \/ \E v \in Payload, b \in BOOLEAN : Publish(v, b)
  \/ ShutdownStops \/ Exit \/ Relaunch

(* Goroutines run; the faults among their steps are bounded. *)
Fairness == WF_vars(ThreadStep) /\ WF_vars(SupStep)

Spec     == Init /\ [][Next]_vars
FairSpec == Spec /\ Fairness

-----------------------------------------------------------------------------
(* Properties. *)

(* One node at a time: what updateLoop starts replaces what StopNode and   *)
(* the port sweeps have killed.  As the comment of                         *)
(* killExistingNodeListeners has it (main.go:288): "so only one web server *)
(* binds our ports".                                                       *)
OneNode == Cardinality(alive) <= 1

(* No node runs from a directory that is being replaced (main.go:289:      *)
(* "and reinstall can replace files safely").                              *)
ReplaceWhileStopped == pc \in {"unpack", "pip"} => alive = {}

(* Between two rounds of updateLoop the node it tracks runs what is on     *)
(* disk.                                                                   *)
NodeIsCurrent == pc = "idle" /\ cmd \in alive => image[cmd] = app

(* All three hold through installations, updates, their failures and       *)
(* upgrades of the installer, as long as no node crashes and nobody        *)
(* relaunches the installer: those leave nodes updateLoop does not know.   *)
UpdatesAreClean ==
  crashes + relaunches = 0 => OneNode /\ ReplaceWhileStopped /\ NodeIsCurrent

(* A node that was stopped on purpose is not restarted as if it had        *)
(* crashed (supervisor.go:11), unless one has crashed: its flag may have   *)
(* been used up for that one.                                              *)
StopsAreNotCrashes ==
  [][spc = "judge" /\ spc' = "delay" =>
       held \notin stopped \/ crashes + relaunches > 0]_vars

(* And the other way round (supervisor.go:10): an exit nobody asked for is *)
(* reported and followed by a restart.                                     *)
CrashesAreNotStops == [][TakesAsStop => held \in stopped]_vars

(* exec.Cmd allows one Wait: no process is waited for twice                *)
(* (supervisor.go:46, node_runner.go:46), whoever starts it.               *)
WaitsOnce == [][spc # "wait" /\ spc' = "wait" => held' \notin waited]_vars

(* The supervisor and StopNode agree on what an exit was.                  *)
ExitsJudged == StopsAreNotCrashes /\ WaitsOnce

(* Where the payload is installed when the installer starts, a node that   *)
(* crashes comes back, unless the installer is told to stop; except after  *)
(* a failing start, which the supervisor does not repeat, or a payload     *)
(* update (see CrashesAreNotStops).                                        *)
NodeComesBack ==
  app # "missing" =>
    (main = "run" /\ cmd \notin alive
       ~> cmd \in alive \/ main # "run" \/ failedStarts > 0 \/ publishes > 0)

(* A payload was asked for, its round stopped the node and failed, and the *)
(* server has gone back to the one the marker names: "up to date"          *)
(* (main.go:460), so nobody starts the node again.                         *)
TakenBack == marker = offered /\ want # offered

(* The payload offered ends up running, after any number of failures of a  *)
(* download, an archive or pip, unless a node crashes; a process that      *)
(* cannot be started is not tried again, and a payload taken back after a  *)
(* failed round leaves the node down.                                      *)
PayloadArrives ==
  []<>(\/ main \in {"down", "exit"} \/ failedStarts > 0 \/ crashes + relaunches > 0
       \/ TakenBack
       \/ cmd \in alive /\ image[cmd] = offered)
=============================================================================
