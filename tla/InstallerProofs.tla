----------------------------- MODULE InstallerProofs -----------------------------
(***************************************************************************)
(* What holds of the installer and its nodes for any number of payloads,   *)
(* processes, failures, crashes and relaunches.                            *)
(***************************************************************************)
EXTENDS Installer, FiniteSetTheorems, TLAPS

(* Processes that somebody has started and is about to make the current    *)
(* one, and whom the supervisor waits for: exec.Cmd allows one Wait.       *)
Handed ==
  /\ cmd \in born \cup {NoProc}
  /\ pc = "set"  => fresh \in born \ waited /\ fresh # cmd
  /\ spc = "set" => held \in born \ waited /\ held # cmd
  /\ pc = "set" /\ spc = "set" => fresh # held
  /\ cmd \in waited => spc = "off" \/ (spc = "wait" /\ held = cmd)

(* Where updateLoop has stopped the node, or boot has swept the ports.     *)
Emptied == {"sweep", "freeport", "launch", "clear", "fetch", "unpack", "pip",
            "stop", "kill", "start"}

(* Without crashes and relaunches the thread knows of every node: it       *)
(* stopped it, has just started it, or finds it in nodeRunner.             *)
Known ==
  /\ pc \in Emptied                    => alive = {}
  /\ main = "boot" /\ pc # "set"       => alive = {}
  /\ pc = "upgrade" /\ ~started        => alive = {}
  /\ pc = "set"                        => alive = {fresh}
  /\ pc \in {"idle", "upgrade", "sync"} => alive \subseteq {cmd}
  /\ cmd # NoProc => cmd \in alive
  /\ \A p, q \in alive : p = q
  /\ \A p \in alive : image[p] = app

(* The supervisor then sees no end that was not asked for.                 *)
Calm ==
  /\ spc \notin {"delay", "set", "retry"}
  /\ spc = "judge" \/ (spc = "wait" /\ held \notin alive) => flag

Clean    == crashes + relaunches = 0
CleanInv == Clean => Known /\ Calm
IInv     == TypeOK /\ Handed /\ CleanInv

-----------------------------------------------------------------------------
LEMMA NewProcIsNew == Proc \ born # {} => NewProc \in Proc \ born
BY DEF NewProc

LEMMA InitInv == Init => IInv
<1> SUFFICES ASSUME Init PROVE IInv
  OBVIOUS
<1>1. TypeOK
  BY InstallerAssumption DEF Init, TypeOK, AppState, Spot, ThreadState, SupState
<1>2. Handed
  BY DEF Init, Handed
<1>3. CleanInv
  BY DEF Init, CleanInv, Known, Calm, Emptied
<1> QED
  BY <1>1, <1>2, <1>3 DEF IInv

(* Whoever is killed, what is left are nodes on ports. *)
LEMMA KillTypes ==
  TypeOK => \A S : Kill(S) =>
    /\ born' = born /\ alive' \in SUBSET born' /\ stopped' \in SUBSET born'
    /\ home' \in [Proc -> Spot]
<1> SUFFICES ASSUME TypeOK, NEW S, Kill(S)
             PROVE  /\ born' = born /\ alive' \in SUBSET born'
                    /\ stopped' \in SUBSET born' /\ home' \in [Proc -> Spot]
  OBVIOUS
<1>1. home' \in [Proc -> Spot]
  BY DEF Kill, Closed, TypeOK, Spot
<1>2. born' = born /\ alive' \in SUBSET born /\ stopped' \in SUBSET born
  BY DEF Kill, TypeOK
<1> QED
  BY <1>1, <1>2

LEMMA StepTypes == TypeOK /\ Handed /\ [Next]_vars => TypeOK'
<1> SUFFICES ASSUME TypeOK, Handed, [Next]_vars PROVE TypeOK'
  OBVIOUS
<1> DEFINE Goal == TypeOK'
<1>0. NewProc \in Proc \/ Proc \ born = {}
  BY NewProcIsNew
<1>k. \A S : Kill(S) =>
        /\ born' = born /\ alive' \in SUBSET born' /\ stopped' \in SUBSET born'
        /\ home' \in [Proc -> Spot]
  BY KillTypes
<1>1. ASSUME Sweep PROVE Goal
  <2>1. /\ born' = born /\ alive' \in SUBSET born' /\ stopped' \in SUBSET born'
        /\ home' \in [Proc -> Spot]
    BY <1>k, <1>1 DEF Sweep, KillListeners
  <2>2. started' \in BOOLEAN /\ flag' \in BOOLEAN
    BY <1>1 DEF Sweep, runner, TypeOK
  <2> QED
    BY <1>0, <2>1, <2>2, <1>1
       DEF Sweep, Goto, server, disk, runner, sup, limits, TypeOK, AppState, ThreadState
<1>2. ASSUME Tick PROVE Goal
  BY <1>0, <1>2 DEF Tick, Goto, server, disk, nodes, runner, sup, limits, TypeOK,
     AppState, Spot, ThreadState, SupState
<1>3. ASSUME NoUpgrade PROVE Goal
  BY <1>0, <1>3 DEF NoUpgrade, Goto, server, disk, nodes, runner, sup, limits,
     TypeOK, AppState, Spot, ThreadState, SupState
<1>4. ASSUME UpgradeFails PROVE Goal
  BY <1>0, <1>4 DEF UpgradeFails, Error, Goto, server, disk, nodes, runner, sup,
     TypeOK, AppState, Spot, ThreadState, SupState
<1>5. ASSUME UpgradeReady PROVE Goal
  <2>1. /\ born' = born /\ alive' \in SUBSET born' /\ stopped' \in SUBSET born'
        /\ home' \in [Proc -> Spot]
    BY <1>k, <1>5 DEF UpgradeReady, StopNode, TypeOK
  <2>2. started' \in BOOLEAN /\ flag' \in BOOLEAN
    BY <1>5 DEF UpgradeReady, StopNode, runner, TypeOK
  <2> QED
    BY <1>0, <2>1, <2>2, <1>5
       DEF UpgradeReady, StopNode, Goto, server, runner, sup, limits, TypeOK, AppState, ThreadState
<1>6. ASSUME FreePort PROVE Goal
  BY <1>k, <1>6 DEF FreePort, KillListeners, Goto, server, disk,
     runner, sup, limits, TypeOK, AppState, Spot, ThreadState, SupState
<1>7. ASSUME Launch PROVE Goal
  BY <1>0, <1>7 DEF Launch, Reboot, server, disk, nodes, limits, TypeOK, AppState,
     Spot, ThreadState, SupState
<1>8. ASSUME LaunchFails PROVE Goal
  BY <1>0, <1>8 DEF LaunchFails, StartFailed, Goto, server, disk, nodes, runner,
     sup, TypeOK, AppState, Spot, ThreadState, SupState
<1>9. ASSUME SyncSkips PROVE Goal
  BY <1>0, <1>9 DEF SyncSkips, Goto, Rest, server, nodes, runner, sup, limits,
     TypeOK, AppState, Spot, ThreadState, SupState
<1>10. ASSUME SyncStops PROVE Goal
  BY <1>k, <1>10 DEF SyncStops, StopNode, Goto, server, disk, sup, limits,
     TypeOK, AppState, Spot, ThreadState, SupState
<1>11. ASSUME ClearPorts PROVE Goal
  BY <1>k, <1>11 DEF ClearPorts, KillListeners, Goto, server, disk,
     runner, sup, limits, TypeOK, AppState, Spot, ThreadState, SupState
<1>12. ASSUME Fetched PROVE Goal
  BY <1>0, <1>12 DEF Fetched, Goto, server, nodes, runner, sup, limits, TypeOK,
     AppState, Spot, ThreadState, SupState
<1>13. ASSUME Mismatch PROVE Goal
  BY <1>0, <1>13 DEF Mismatch, Goto, Rest, server, disk, nodes, runner, sup, limits,
     TypeOK, AppState, Spot, ThreadState, SupState
<1>14. ASSUME Unpacked PROVE Goal
  BY <1>0, <1>14 DEF Unpacked, Goto, server, nodes, runner, sup, limits, TypeOK,
     AppState, Spot, ThreadState, SupState
<1>15. ASSUME UnpackFails PROVE Goal
  BY <1>0, <1>15 DEF UnpackFails, Error, Goto, Rest, server, nodes, runner, sup,
     TypeOK, AppState, Spot, ThreadState, SupState
<1>16. ASSUME SyncFails PROVE Goal
  BY <1>0, <1>16 DEF SyncFails, Error, Goto, Rest, server, disk, nodes, runner, sup,
     TypeOK, AppState, Spot, ThreadState, SupState
<1>17. ASSUME Installed PROVE Goal
  BY <1>0, <1>17 DEF Installed, Goto, server, nodes, runner, sup, limits, TypeOK,
     AppState, Spot, ThreadState, SupState
<1>18. ASSUME StopAgain PROVE Goal
  BY <1>k, <1>18 DEF StopAgain, StopNode, Goto, server, disk, sup, limits,
     TypeOK, AppState, Spot, ThreadState, SupState
<1>19. ASSUME Start PROVE Goal
  BY <1>0, <1>19 DEF Start, Born, Goto, server, disk, runner, sup, limits, TypeOK,
     AppState, Spot, ThreadState, SupState
<1>20. ASSUME StartFails PROVE Goal
  BY <1>0, <1>20 DEF StartFails, StartFailed, Goto, server, disk, nodes, runner,
     TypeOK, AppState, Spot, ThreadState, SupState
<1>21. ASSUME NothingToStart PROVE Goal
  BY <1>0, <1>21 DEF NothingToStart, Goto, server, disk, nodes, runner, limits,
     TypeOK, AppState, Spot, ThreadState, SupState
<1>22. ASSUME SetCmd PROVE Goal
  BY <1>0, <1>22 DEF SetCmd, Goto, server, disk, nodes, sup, limits, Handed, TypeOK,
     AppState, Spot, ThreadState, SupState
<1>23. ASSUME Look PROVE Goal
  BY <1>0, <1>23 DEF Look, server, disk, nodes, runner, thread, limits, Handed,
     TypeOK, AppState, Spot, ThreadState, SupState
<1>24. ASSUME Reap PROVE Goal
  BY <1>0, <1>24 DEF Reap, server, disk, nodes, thread, limits, TypeOK, AppState,
     Spot, ThreadState, SupState
<1>25. ASSUME TakesAsStop PROVE Goal
  <2>1. flag' \in BOOLEAN
    BY <1>25 DEF TakesAsStop
  <2>2. spc' \in SupState /\ held' \in Proc \cup {NoProc}
    BY <1>25 DEF TakesAsStop, SupState
  <2> QED
    BY <2>1, <2>2, <1>25 DEF TakesAsStop, server, disk, nodes, thread, limits, TypeOK
<1>26. ASSUME TakesAsCrash PROVE Goal
  BY <1>0, <1>26 DEF TakesAsCrash, server, disk, nodes, runner, thread, limits,
     TypeOK, AppState, Spot, ThreadState, SupState
<1>27. ASSUME Restarts PROVE Goal
  BY <1>0, <1>27 DEF Restarts, Born, server, disk, runner, thread, limits, TypeOK,
     AppState, Spot, ThreadState, SupState
<1>28. ASSUME RestartFails PROVE Goal
  BY <1>0, <1>28 DEF RestartFails, StartFailed, server, disk, nodes, runner, thread,
     TypeOK, AppState, Spot, ThreadState, SupState
<1>29. ASSUME RetryEnds PROVE Goal
  BY <1>0, <1>29 DEF RetryEnds, server, disk, nodes, runner, thread, limits, TypeOK,
     AppState, Spot, ThreadState, SupState
<1>30. ASSUME SupSetCmd PROVE Goal
  BY <1>0, <1>30 DEF SupSetCmd, server, disk, nodes, thread, limits, Handed, TypeOK,
     AppState, Spot, ThreadState, SupState
<1>31. ASSUME NEW p \in Proc, Listens(p) PROVE Goal
  BY <1>0, <1>31 DEF Listens, server, disk, runner, thread, sup, limits, TypeOK,
     AppState, Spot, ThreadState, SupState
<1>32. ASSUME NEW p \in Proc, Crashes(p) PROVE Goal
  <2>1. home' \in [Proc -> Spot] /\ alive' \in SUBSET born'
    BY <1>32 DEF Crashes, Closed, TypeOK, Spot
  <2>2. UNCHANGED <<server, disk, born, image, stopped, runner, main, thread, sup,
                    myBuild, publishes, errors, failedStarts, relaunches>>
    BY <1>32 DEF Crashes
  <2>3. crashes' \in Nat
    BY <1>32 DEF Crashes, TypeOK
  <2> QED
    BY <2>1, <2>2, <2>3 DEF server, disk, runner, thread, sup, TypeOK
<1>33. ASSUME NEW p \in Proc, Reexecs(p) PROVE Goal
  BY <1>0, <1>33 DEF Reexecs, server, disk, runner, thread, sup, limits, TypeOK,
     AppState, Spot, ThreadState, SupState
<1>34. ASSUME NEW v \in Payload, NEW b \in BOOLEAN, Publish(v, b) PROVE Goal
  BY <1>0, <1>34 DEF Publish, disk, nodes, runner, thread, sup, TypeOK, AppState,
     Spot, ThreadState, SupState
<1>35. ASSUME ShutdownStops PROVE Goal
  BY <1>k, <1>35 DEF ShutdownStops, StopNode, server, disk, thread, sup,
     limits, TypeOK, AppState, Spot, ThreadState, SupState
<1>36. ASSUME Exit PROVE Goal
  BY <1>0, <1>36 DEF Exit, Goto, server, disk, nodes, runner, limits, TypeOK,
     AppState, Spot, ThreadState, SupState
<1>37. ASSUME Relaunch PROVE Goal
  <2>1. flag' \in BOOLEAN /\ started' \in BOOLEAN
    BY <1>37 DEF Relaunch, Reboot
  <2>2. /\ main' = "boot" /\ pc' \in ThreadState /\ spc' \in SupState
        /\ cmd' = NoProc /\ fresh' = NoProc /\ held' = NoProc
    BY <1>37 DEF Relaunch, Reboot, ThreadState, SupState
  <2>3. relaunches' \in Nat
    BY <1>37 DEF Relaunch, TypeOK
  <2> QED
    BY <2>1, <2>2, <2>3, <1>37 DEF Relaunch, server, disk, nodes, TypeOK
<1>38. ASSUME UNCHANGED vars PROVE Goal
  BY <1>0, <1>38 DEF vars, server, disk, nodes, runner, thread, sup, limits, TypeOK,
     AppState, Spot, ThreadState, SupState
<1> QED
  BY <1>1, <1>2, <1>3, <1>4, <1>5, <1>6, <1>7, <1>8, <1>9, <1>10, <1>11, <1>12,
     <1>13, <1>14, <1>15, <1>16, <1>17, <1>18, <1>19, <1>20, <1>21, <1>22, <1>23,
     <1>24, <1>25, <1>26, <1>27, <1>28, <1>29, <1>30, <1>31, <1>32, <1>33, <1>34,
     <1>35, <1>36, <1>37, <1>38
     DEF Next, ThreadStep, UpgradeStep, SyncStep, StartStep, SupStep, NodeStep

LEMMA StepHanded == TypeOK /\ Handed /\ [Next]_vars => Handed'
<1> SUFFICES ASSUME TypeOK, Handed, [Next]_vars PROVE Handed'
  OBVIOUS
<1> DEFINE Goal == Handed'
<1>0. /\ born \subseteq Proc /\ waited \subseteq born /\ NoProc \notin Proc
      /\ held \in Proc \cup {NoProc} /\ fresh \in Proc \cup {NoProc}
      /\ Proc \ born # {} => NewProc \in Proc \ born
  BY InstallerAssumption, NewProcIsNew DEF TypeOK
<1>1. ASSUME Sweep PROVE Goal
  BY <1>0, <1>1 DEF Sweep, KillListeners, Kill, AllPorts, Goto, server, disk,
     runner, sup, limits, Handed
<1>2. ASSUME Tick PROVE Goal
  BY <1>0, <1>2 DEF Tick, Goto, server, disk, nodes, runner, sup, limits, Handed
<1>3. ASSUME NoUpgrade PROVE Goal
  BY <1>0, <1>3 DEF NoUpgrade, Goto, server, disk, nodes, runner, sup, limits,
     Handed
<1>4. ASSUME UpgradeFails PROVE Goal
  BY <1>0, <1>4 DEF UpgradeFails, Error, Goto, server, disk, nodes, runner, sup,
     Handed
<1>5. ASSUME UpgradeReady PROVE Goal
  BY <1>0, <1>5 DEF UpgradeReady, StopNode, Kill, Goto, server, runner, sup, limits,
     Handed
<1>6. ASSUME FreePort PROVE Goal
  BY <1>0, <1>6 DEF FreePort, KillListeners, Kill, AllPorts, Goto, server, disk,
     runner, sup, limits, Handed
<1>7. ASSUME Launch PROVE Goal
  BY <1>0, <1>7 DEF Launch, Reboot, server, disk, nodes, limits, Handed
<1>8. ASSUME LaunchFails PROVE Goal
  BY <1>0, <1>8 DEF LaunchFails, StartFailed, Goto, server, disk, nodes, runner,
     sup, Handed
<1>9. ASSUME SyncSkips PROVE Goal
  BY <1>0, <1>9 DEF SyncSkips, Goto, Rest, server, nodes, runner, sup, limits,
     Handed
<1>10. ASSUME SyncStops PROVE Goal
  BY <1>0, <1>10 DEF SyncStops, StopNode, Kill, Goto, server, disk, sup, limits,
     Handed
<1>11. ASSUME ClearPorts PROVE Goal
  BY <1>0, <1>11 DEF ClearPorts, KillListeners, Kill, AllPorts, Goto, server, disk,
     runner, sup, limits, Handed
<1>12. ASSUME Fetched PROVE Goal
  BY <1>0, <1>12 DEF Fetched, Goto, server, nodes, runner, sup, limits, Handed
<1>13. ASSUME Mismatch PROVE Goal
  BY <1>0, <1>13 DEF Mismatch, Goto, Rest, server, disk, nodes, runner, sup, limits,
     Handed
<1>14. ASSUME Unpacked PROVE Goal
  BY <1>0, <1>14 DEF Unpacked, Goto, server, nodes, runner, sup, limits, Handed
<1>15. ASSUME UnpackFails PROVE Goal
  BY <1>0, <1>15 DEF UnpackFails, Error, Goto, Rest, server, nodes, runner, sup,
     Handed
<1>16. ASSUME SyncFails PROVE Goal
  BY <1>0, <1>16 DEF SyncFails, Error, Goto, Rest, server, disk, nodes, runner, sup,
     Handed
<1>17. ASSUME Installed PROVE Goal
  BY <1>0, <1>17 DEF Installed, Goto, server, nodes, runner, sup, limits, Handed
<1>18. ASSUME StopAgain PROVE Goal
  BY <1>0, <1>18 DEF StopAgain, StopNode, Kill, Goto, server, disk, sup, limits,
     Handed
<1>19. ASSUME Start PROVE Goal
  BY <1>0, <1>19 DEF Start, Born, Goto, server, disk, runner, sup, limits, Handed
<1>20. ASSUME StartFails PROVE Goal
  BY <1>0, <1>20 DEF StartFails, StartFailed, Goto, server, disk, nodes, runner,
     Handed
<1>21. ASSUME NothingToStart PROVE Goal
  BY <1>0, <1>21 DEF NothingToStart, Goto, server, disk, nodes, runner, limits,
     Handed
<1>22. ASSUME SetCmd PROVE Goal
  BY <1>0, <1>22 DEF SetCmd, Goto, server, disk, nodes, sup, limits, Handed
<1>23. ASSUME Look PROVE Goal
  BY <1>0, <1>23 DEF Look, server, disk, nodes, runner, thread, limits, Handed
<1>24. ASSUME Reap PROVE Goal
  BY <1>0, <1>24 DEF Reap, server, disk, nodes, thread, limits, Handed
<1>25. ASSUME TakesAsStop PROVE Goal
  BY <1>0, <1>25 DEF TakesAsStop, server, disk, nodes, thread, limits, Handed
<1>26. ASSUME TakesAsCrash PROVE Goal
  BY <1>0, <1>26 DEF TakesAsCrash, server, disk, nodes, runner, thread, limits,
     Handed
<1>27. ASSUME Restarts PROVE Goal
  BY <1>0, <1>27 DEF Restarts, Born, server, disk, runner, thread, limits, Handed
<1>28. ASSUME RestartFails PROVE Goal
  BY <1>0, <1>28 DEF RestartFails, StartFailed, server, disk, nodes, runner, thread,
     Handed
<1>29. ASSUME RetryEnds PROVE Goal
  BY <1>0, <1>29 DEF RetryEnds, server, disk, nodes, runner, thread, limits, Handed
<1>30. ASSUME SupSetCmd PROVE Goal
  BY <1>0, <1>30 DEF SupSetCmd, server, disk, nodes, thread, limits, Handed
<1>31. ASSUME NEW p \in Proc, Listens(p) PROVE Goal
  BY <1>0, <1>31 DEF Listens, server, disk, runner, thread, sup, limits, Handed
<1>32. ASSUME NEW p \in Proc, Crashes(p) PROVE Goal
  BY <1>0, <1>32 DEF Crashes, server, disk, runner, thread, sup, Handed
<1>33. ASSUME NEW p \in Proc, Reexecs(p) PROVE Goal
  BY <1>0, <1>33 DEF Reexecs, server, disk, runner, thread, sup, limits, Handed
<1>34. ASSUME NEW v \in Payload, NEW b \in BOOLEAN, Publish(v, b) PROVE Goal
  BY <1>0, <1>34 DEF Publish, disk, nodes, runner, thread, sup, Handed
<1>35. ASSUME ShutdownStops PROVE Goal
  BY <1>0, <1>35 DEF ShutdownStops, StopNode, Kill, server, disk, thread, sup,
     limits, Handed
<1>36. ASSUME Exit PROVE Goal
  BY <1>0, <1>36 DEF Exit, Goto, server, disk, nodes, runner, limits, Handed
<1>37. ASSUME Relaunch PROVE Goal
  BY <1>0, <1>37 DEF Relaunch, Reboot, server, disk, nodes, Handed
<1>38. ASSUME UNCHANGED vars PROVE Goal
  BY <1>0, <1>38 DEF vars, server, disk, nodes, runner, thread, sup, limits, Handed
<1> QED
  BY <1>1, <1>2, <1>3, <1>4, <1>5, <1>6, <1>7, <1>8, <1>9, <1>10, <1>11, <1>12,
     <1>13, <1>14, <1>15, <1>16, <1>17, <1>18, <1>19, <1>20, <1>21, <1>22, <1>23,
     <1>24, <1>25, <1>26, <1>27, <1>28, <1>29, <1>30, <1>31, <1>32, <1>33, <1>34,
     <1>35, <1>36, <1>37, <1>38
     DEF Next, ThreadStep, UpgradeStep, SyncStep, StartStep, SupStep, NodeStep

(* Crashes and relaunches are not forgotten.                               *)
LEMMA TroublesStay == TypeOK /\ [Next]_vars /\ Clean' => Clean
<1> SUFFICES ASSUME TypeOK, [Next]_vars PROVE Clean' => Clean
  OBVIOUS
<1> DEFINE Goal == Clean' => Clean
<1>0. crashes \in Nat /\ relaunches \in Nat
  BY DEF TypeOK
<1>1. ASSUME Sweep PROVE Goal
  BY <1>0, <1>1 DEF Sweep, KillListeners, Kill, AllPorts, Goto, server, disk,
     runner, sup, limits, Clean
<1>2. ASSUME Tick PROVE Goal
  BY <1>0, <1>2 DEF Tick, Goto, server, disk, nodes, runner, sup, limits, Clean
<1>3. ASSUME NoUpgrade PROVE Goal
  BY <1>0, <1>3 DEF NoUpgrade, Goto, server, disk, nodes, runner, sup, limits, Clean
<1>4. ASSUME UpgradeFails PROVE Goal
  BY <1>0, <1>4 DEF UpgradeFails, Error, Goto, server, disk, nodes, runner, sup,
     Clean
<1>5. ASSUME UpgradeReady PROVE Goal
  BY <1>0, <1>5 DEF UpgradeReady, StopNode, Kill, Goto, server, runner, sup, limits,
     Clean
<1>6. ASSUME FreePort PROVE Goal
  BY <1>0, <1>6 DEF FreePort, KillListeners, Kill, AllPorts, Goto, server, disk,
     runner, sup, limits, Clean
<1>7. ASSUME Launch PROVE Goal
  BY <1>0, <1>7 DEF Launch, Reboot, server, disk, nodes, limits, Clean
<1>8. ASSUME LaunchFails PROVE Goal
  BY <1>0, <1>8 DEF LaunchFails, StartFailed, Goto, server, disk, nodes, runner,
     sup, Clean
<1>9. ASSUME SyncSkips PROVE Goal
  BY <1>0, <1>9 DEF SyncSkips, Goto, Rest, server, nodes, runner, sup, limits, Clean
<1>10. ASSUME SyncStops PROVE Goal
  BY <1>0, <1>10 DEF SyncStops, StopNode, Kill, Goto, server, disk, sup, limits,
     Clean
<1>11. ASSUME ClearPorts PROVE Goal
  BY <1>0, <1>11 DEF ClearPorts, KillListeners, Kill, AllPorts, Goto, server, disk,
     runner, sup, limits, Clean
<1>12. ASSUME Fetched PROVE Goal
  BY <1>0, <1>12 DEF Fetched, Goto, server, nodes, runner, sup, limits, Clean
<1>13. ASSUME Mismatch PROVE Goal
  BY <1>0, <1>13 DEF Mismatch, Goto, Rest, server, disk, nodes, runner, sup, limits,
     Clean
<1>14. ASSUME Unpacked PROVE Goal
  BY <1>0, <1>14 DEF Unpacked, Goto, server, nodes, runner, sup, limits, Clean
<1>15. ASSUME UnpackFails PROVE Goal
  BY <1>0, <1>15 DEF UnpackFails, Error, Goto, Rest, server, nodes, runner, sup,
     Clean
<1>16. ASSUME SyncFails PROVE Goal
  BY <1>0, <1>16 DEF SyncFails, Error, Goto, Rest, server, disk, nodes, runner, sup,
     Clean
<1>17. ASSUME Installed PROVE Goal
  BY <1>0, <1>17 DEF Installed, Goto, server, nodes, runner, sup, limits, Clean
<1>18. ASSUME StopAgain PROVE Goal
  BY <1>0, <1>18 DEF StopAgain, StopNode, Kill, Goto, server, disk, sup, limits,
     Clean
<1>19. ASSUME Start PROVE Goal
  BY <1>0, <1>19 DEF Start, Born, Goto, server, disk, runner, sup, limits, Clean
<1>20. ASSUME StartFails PROVE Goal
  BY <1>0, <1>20 DEF StartFails, StartFailed, Goto, server, disk, nodes, runner,
     Clean
<1>21. ASSUME NothingToStart PROVE Goal
  BY <1>0, <1>21 DEF NothingToStart, Goto, server, disk, nodes, runner, limits,
     Clean
<1>22. ASSUME SetCmd PROVE Goal
  BY <1>0, <1>22 DEF SetCmd, Goto, server, disk, nodes, sup, limits, Clean
<1>23. ASSUME Look PROVE Goal
  BY <1>0, <1>23 DEF Look, server, disk, nodes, runner, thread, limits, Clean
<1>24. ASSUME Reap PROVE Goal
  BY <1>0, <1>24 DEF Reap, server, disk, nodes, thread, limits, Clean
<1>25. ASSUME TakesAsStop PROVE Goal
  BY <1>0, <1>25 DEF TakesAsStop, server, disk, nodes, thread, limits, Clean
<1>26. ASSUME TakesAsCrash PROVE Goal
  BY <1>0, <1>26 DEF TakesAsCrash, server, disk, nodes, runner, thread, limits,
     Clean
<1>27. ASSUME Restarts PROVE Goal
  BY <1>0, <1>27 DEF Restarts, Born, server, disk, runner, thread, limits, Clean
<1>28. ASSUME RestartFails PROVE Goal
  BY <1>0, <1>28 DEF RestartFails, StartFailed, server, disk, nodes, runner, thread,
     Clean
<1>29. ASSUME RetryEnds PROVE Goal
  BY <1>0, <1>29 DEF RetryEnds, server, disk, nodes, runner, thread, limits, Clean
<1>30. ASSUME SupSetCmd PROVE Goal
  BY <1>0, <1>30 DEF SupSetCmd, server, disk, nodes, thread, limits, Clean
<1>31. ASSUME NEW p \in Proc, Listens(p) PROVE Goal
  BY <1>0, <1>31 DEF Listens, server, disk, runner, thread, sup, limits, Clean
<1>32. ASSUME NEW p \in Proc, Crashes(p) PROVE Goal
  BY <1>0, <1>32 DEF Crashes, server, disk, runner, thread, sup, Clean
<1>33. ASSUME NEW p \in Proc, Reexecs(p) PROVE Goal
  BY <1>0, <1>33 DEF Reexecs, server, disk, runner, thread, sup, limits, Clean
<1>34. ASSUME NEW v \in Payload, NEW b \in BOOLEAN, Publish(v, b) PROVE Goal
  BY <1>0, <1>34 DEF Publish, disk, nodes, runner, thread, sup, Clean
<1>35. ASSUME ShutdownStops PROVE Goal
  BY <1>0, <1>35 DEF ShutdownStops, StopNode, Kill, server, disk, thread, sup,
     limits, Clean
<1>36. ASSUME Exit PROVE Goal
  BY <1>0, <1>36 DEF Exit, Goto, server, disk, nodes, runner, limits, Clean
<1>37. ASSUME Relaunch PROVE Goal
  BY <1>0, <1>37 DEF Relaunch, Reboot, server, disk, nodes, Clean
<1>38. ASSUME UNCHANGED vars PROVE Goal
  BY <1>0, <1>38 DEF vars, server, disk, nodes, runner, thread, sup, limits, Clean
<1> QED
  BY <1>1, <1>2, <1>3, <1>4, <1>5, <1>6, <1>7, <1>8, <1>9, <1>10, <1>11, <1>12,
     <1>13, <1>14, <1>15, <1>16, <1>17, <1>18, <1>19, <1>20, <1>21, <1>22, <1>23,
     <1>24, <1>25, <1>26, <1>27, <1>28, <1>29, <1>30, <1>31, <1>32, <1>33, <1>34,
     <1>35, <1>36, <1>37, <1>38
     DEF Next, ThreadStep, UpgradeStep, SyncStep, StartStep, SupStep, NodeStep

LEMMA StepClean == IInv /\ [Next]_vars => CleanInv'
<1> SUFFICES ASSUME IInv, [Next]_vars, Clean' PROVE Known' /\ Calm'
  BY DEF CleanInv
<1> DEFINE Goal == Known' /\ Calm'
<1>0. /\ alive \subseteq Proc /\ born \subseteq Proc /\ NoProc \notin Proc
      /\ alive \subseteq born
      /\ Proc \ born # {} => NewProc \in Proc \ born
      /\ crashes \in Nat /\ relaunches \in Nat /\ image \in [Proc -> AppState] /\ Handed
  BY InstallerAssumption, NewProcIsNew DEF IInv, TypeOK
<1>c. Clean
  BY TroublesStay DEF IInv
<1>k. Known /\ Calm
  BY <1>c DEF IInv, CleanInv
<1>1. ASSUME Sweep PROVE Goal
  BY <1>0, <1>k, <1>1 DEF Sweep, KillListeners, Kill, AllPorts, Goto, server, disk,
     runner, sup, limits, Handed, Known, Calm, Emptied
<1>2. ASSUME Tick PROVE Goal
  BY <1>0, <1>k, <1>2 DEF Tick, Goto, server, disk, nodes, runner, sup, limits,
     Handed, Known, Calm, Emptied
<1>3. ASSUME NoUpgrade PROVE Goal
  BY <1>0, <1>k, <1>3 DEF NoUpgrade, Goto, server, disk, nodes, runner, sup, limits,
     Handed, Known, Calm, Emptied
<1>4. ASSUME UpgradeFails PROVE Goal
  BY <1>0, <1>k, <1>4 DEF UpgradeFails, Error, Goto, server, disk, nodes, runner,
     sup, Handed, Known, Calm, Emptied
<1>5. ASSUME UpgradeReady PROVE Goal
  BY <1>0, <1>k, <1>5 DEF UpgradeReady, StopNode, Kill, Goto, server, runner, sup,
     limits, Handed, Known, Calm, Emptied
<1>6. ASSUME FreePort PROVE Goal
  BY <1>0, <1>k, <1>6 DEF FreePort, KillListeners, Kill, AllPorts, Goto, server,
     disk, runner, sup, limits, Handed, Known, Calm, Emptied
<1>7. ASSUME Launch PROVE Goal
  BY <1>0, <1>k, <1>7 DEF Launch, Reboot, server, disk, nodes, limits, Handed,
     Known, Calm, Emptied
<1>8. ASSUME LaunchFails PROVE Goal
  BY <1>0, <1>k, <1>8 DEF LaunchFails, StartFailed, Goto, server, disk, nodes,
     runner, sup, Handed, Known, Calm, Emptied
<1>9. ASSUME SyncSkips PROVE Goal
  BY <1>0, <1>k, <1>9 DEF SyncSkips, Goto, Rest, server, nodes, runner, sup, limits,
     Handed, Known, Calm, Emptied
<1>10. ASSUME SyncStops PROVE Goal
  BY <1>0, <1>k, <1>10 DEF SyncStops, StopNode, Kill, Goto, server, disk, sup,
     limits, Handed, Known, Calm, Emptied
<1>11. ASSUME ClearPorts PROVE Goal
  BY <1>0, <1>k, <1>11 DEF ClearPorts, KillListeners, Kill, AllPorts, Goto, server,
     disk, runner, sup, limits, Handed, Known, Calm, Emptied
<1>12. ASSUME Fetched PROVE Goal
  BY <1>0, <1>k, <1>12 DEF Fetched, Goto, server, nodes, runner, sup, limits,
     Handed, Known, Calm, Emptied
<1>13. ASSUME Mismatch PROVE Goal
  BY <1>0, <1>k, <1>13 DEF Mismatch, Goto, Rest, server, disk, nodes, runner, sup,
     limits, Handed, Known, Calm, Emptied
<1>14. ASSUME Unpacked PROVE Goal
  BY <1>0, <1>k, <1>14 DEF Unpacked, Goto, server, nodes, runner, sup, limits,
     Handed, Known, Calm, Emptied
<1>15. ASSUME UnpackFails PROVE Goal
  BY <1>0, <1>k, <1>15 DEF UnpackFails, Error, Goto, Rest, server, nodes, runner,
     sup, Handed, Known, Calm, Emptied
<1>16. ASSUME SyncFails PROVE Goal
  BY <1>0, <1>k, <1>16 DEF SyncFails, Error, Goto, Rest, server, disk, nodes,
     runner, sup, Handed, Known, Calm, Emptied
<1>17. ASSUME Installed PROVE Goal
  BY <1>0, <1>k, <1>17 DEF Installed, Goto, server, nodes, runner, sup, limits,
     Handed, Known, Calm, Emptied
<1>18. ASSUME StopAgain PROVE Goal
  BY <1>0, <1>k, <1>18 DEF StopAgain, StopNode, Kill, Goto, server, disk, sup,
     limits, Handed, Known, Calm, Emptied
<1>19. ASSUME Start PROVE Goal
  <2>1. alive = {} /\ NewProc \in Proc \ born
    BY <1>0, <1>k, <1>19 DEF Start, Born, Known, Emptied
  <2>2. /\ alive' = {NewProc} /\ image'[NewProc] = app /\ fresh' = NewProc
        /\ pc' = "set" /\ cmd' = NoProc
    BY <1>0, <1>k, <2>1, <1>19 DEF Start, Born, Goto, runner, Known
  <2>3. Known'
    BY <2>2, <1>19 DEF Start, disk, Known, Emptied
  <2>4. Calm'
    BY <1>k, <2>1, <2>2, <1>19 DEF Start, runner, sup, Calm
  <2> QED
    BY <2>3, <2>4
<1>20. ASSUME StartFails PROVE Goal
  BY <1>0, <1>k, <1>20 DEF StartFails, StartFailed, Goto, server, disk, nodes,
     runner, Handed, Known, Calm, Emptied
<1>21. ASSUME NothingToStart PROVE Goal
  BY <1>0, <1>k, <1>21 DEF NothingToStart, Goto, server, disk, nodes, runner,
     limits, Handed, Known, Calm, Emptied
<1>22. ASSUME SetCmd PROVE Goal
  BY <1>0, <1>k, <1>22 DEF SetCmd, Goto, server, disk, nodes, sup, limits, Handed,
     Known, Calm, Emptied
<1>23. ASSUME Look PROVE Goal
  BY <1>0, <1>k, <1>23 DEF Look, server, disk, nodes, runner, thread, limits,
     Handed, Known, Calm, Emptied
<1>24. ASSUME Reap PROVE Goal
  BY <1>0, <1>k, <1>24 DEF Reap, server, disk, nodes, thread, limits, Handed, Known,
     Calm, Emptied
<1>25. ASSUME TakesAsStop PROVE Goal
  BY <1>0, <1>k, <1>25 DEF TakesAsStop, server, disk, nodes, thread, limits, Handed,
     Known, Calm, Emptied
<1>26. ASSUME TakesAsCrash PROVE Goal
  BY <1>0, <1>k, <1>26 DEF TakesAsCrash, server, disk, nodes, runner, thread,
     limits, Handed, Known, Calm, Emptied
<1>27. ASSUME Restarts PROVE Goal
  BY <1>0, <1>k, <1>27 DEF Restarts, Born, server, disk, runner, thread, limits,
     Handed, Known, Calm, Emptied
<1>28. ASSUME RestartFails PROVE Goal
  BY <1>0, <1>k, <1>28 DEF RestartFails, StartFailed, server, disk, nodes, runner,
     thread, Handed, Known, Calm, Emptied
<1>29. ASSUME RetryEnds PROVE Goal
  BY <1>0, <1>k, <1>29 DEF RetryEnds, server, disk, nodes, runner, thread, limits,
     Handed, Known, Calm, Emptied
<1>30. ASSUME SupSetCmd PROVE Goal
  BY <1>0, <1>k, <1>30 DEF SupSetCmd, server, disk, nodes, thread, limits, Handed,
     Known, Calm, Emptied
<1>31. ASSUME NEW p \in Proc, Listens(p) PROVE Goal
  BY <1>0, <1>k, <1>31 DEF Listens, server, disk, runner, thread, sup, limits,
     Handed, Known, Calm, Emptied
<1>32. ASSUME NEW p \in Proc, Crashes(p) PROVE Goal
  <2>1. ~Clean'
    BY <1>0, <1>32 DEF Crashes, Clean
  <2> QED
    BY <2>1
<1>33. ASSUME NEW p \in Proc, Reexecs(p) PROVE Goal
  BY <1>0, <1>k, <1>33 DEF Reexecs, server, disk, runner, thread, sup, limits,
     Handed, Known, Calm, Emptied
<1>34. ASSUME NEW v \in Payload, NEW b \in BOOLEAN, Publish(v, b) PROVE Goal
  BY <1>0, <1>k, <1>34 DEF Publish, disk, nodes, runner, thread, sup, Handed, Known,
     Calm, Emptied
<1>35. ASSUME ShutdownStops PROVE Goal
  BY <1>0, <1>k, <1>35 DEF ShutdownStops, StopNode, Kill, server, disk, thread, sup,
     limits, Handed, Known, Calm, Emptied
<1>36. ASSUME Exit PROVE Goal
  BY <1>0, <1>k, <1>36 DEF Exit, Goto, server, disk, nodes, runner, limits, Handed,
     Known, Calm, Emptied
<1>37. ASSUME Relaunch PROVE Goal
  <2>1. ~Clean'
    BY <1>0, <1>37 DEF Relaunch, Clean
  <2> QED
    BY <2>1
<1>38. ASSUME UNCHANGED vars PROVE Goal
  BY <1>0, <1>k, <1>38 DEF vars, server, disk, nodes, runner, thread, sup, limits,
     Handed, Known, Calm, Emptied
<1> QED
  BY <1>1, <1>2, <1>3, <1>4, <1>5, <1>6, <1>7, <1>8, <1>9, <1>10, <1>11, <1>12,
     <1>13, <1>14, <1>15, <1>16, <1>17, <1>18, <1>19, <1>20, <1>21, <1>22, <1>23,
     <1>24, <1>25, <1>26, <1>27, <1>28, <1>29, <1>30, <1>31, <1>32, <1>33, <1>34,
     <1>35, <1>36, <1>37, <1>38
     DEF Next, ThreadStep, UpgradeStep, SyncStep, StartStep, SupStep, NodeStep

(* Only Look begins a wait, and a crash is told by the flag.               *)
LEMMA Judging ==
  ASSUME [Next]_vars
  PROVE  /\ spc # "wait" /\ spc' = "wait" => Look
         /\ spc = "judge" /\ spc' = "delay" => ~flag
<1> DEFINE Goal == /\ spc # "wait" /\ spc' = "wait" => Look
                   /\ spc = "judge" /\ spc' = "delay" => ~flag
<1>1. ASSUME Sweep PROVE Goal
  BY <1>1 DEF Sweep, KillListeners, Kill, AllPorts, Goto, server, disk, runner, sup,
     limits
<1>2. ASSUME Tick PROVE Goal
  BY <1>2 DEF Tick, Goto, server, disk, nodes, runner, sup, limits
<1>3. ASSUME NoUpgrade PROVE Goal
  BY <1>3 DEF NoUpgrade, Goto, server, disk, nodes, runner, sup, limits
<1>4. ASSUME UpgradeFails PROVE Goal
  BY <1>4 DEF UpgradeFails, Error, Goto, server, disk, nodes, runner, sup
<1>5. ASSUME UpgradeReady PROVE Goal
  BY <1>5 DEF UpgradeReady, StopNode, Kill, Goto, server, runner, sup, limits
<1>6. ASSUME FreePort PROVE Goal
  BY <1>6 DEF FreePort, KillListeners, Kill, AllPorts, Goto, server, disk, runner,
     sup, limits
<1>7. ASSUME Launch PROVE Goal
  BY <1>7 DEF Launch, Reboot, server, disk, nodes, limits
<1>8. ASSUME LaunchFails PROVE Goal
  BY <1>8 DEF LaunchFails, StartFailed, Goto, server, disk, nodes, runner, sup
<1>9. ASSUME SyncSkips PROVE Goal
  BY <1>9 DEF SyncSkips, Goto, Rest, server, nodes, runner, sup, limits
<1>10. ASSUME SyncStops PROVE Goal
  BY <1>10 DEF SyncStops, StopNode, Kill, Goto, server, disk, sup, limits
<1>11. ASSUME ClearPorts PROVE Goal
  BY <1>11 DEF ClearPorts, KillListeners, Kill, AllPorts, Goto, server, disk,
     runner, sup, limits
<1>12. ASSUME Fetched PROVE Goal
  BY <1>12 DEF Fetched, Goto, server, nodes, runner, sup, limits
<1>13. ASSUME Mismatch PROVE Goal
  BY <1>13 DEF Mismatch, Goto, Rest, server, disk, nodes, runner, sup, limits
<1>14. ASSUME Unpacked PROVE Goal
  BY <1>14 DEF Unpacked, Goto, server, nodes, runner, sup, limits
<1>15. ASSUME UnpackFails PROVE Goal
  BY <1>15 DEF UnpackFails, Error, Goto, Rest, server, nodes, runner, sup
<1>16. ASSUME SyncFails PROVE Goal
  BY <1>16 DEF SyncFails, Error, Goto, Rest, server, disk, nodes, runner, sup
<1>17. ASSUME Installed PROVE Goal
  BY <1>17 DEF Installed, Goto, server, nodes, runner, sup, limits
<1>18. ASSUME StopAgain PROVE Goal
  BY <1>18 DEF StopAgain, StopNode, Kill, Goto, server, disk, sup, limits
<1>19. ASSUME Start PROVE Goal
  BY <1>19 DEF Start, Born, Goto, server, disk, runner, sup, limits
<1>20. ASSUME StartFails PROVE Goal
  BY <1>20 DEF StartFails, StartFailed, Goto, server, disk, nodes, runner
<1>21. ASSUME NothingToStart PROVE Goal
  BY <1>21 DEF NothingToStart, Goto, server, disk, nodes, runner, limits
<1>22. ASSUME SetCmd PROVE Goal
  BY <1>22 DEF SetCmd, Goto, server, disk, nodes, sup, limits
<1>23. ASSUME Look PROVE Goal
  BY <1>23 DEF Look, server, disk, nodes, runner, thread, limits
<1>24. ASSUME Reap PROVE Goal
  BY <1>24 DEF Reap, server, disk, nodes, thread, limits
<1>25. ASSUME TakesAsStop PROVE Goal
  BY <1>25 DEF TakesAsStop, server, disk, nodes, thread, limits
<1>26. ASSUME TakesAsCrash PROVE Goal
  BY <1>26 DEF TakesAsCrash, server, disk, nodes, runner, thread, limits
<1>27. ASSUME Restarts PROVE Goal
  BY <1>27 DEF Restarts, Born, server, disk, runner, thread, limits
<1>28. ASSUME RestartFails PROVE Goal
  BY <1>28 DEF RestartFails, StartFailed, server, disk, nodes, runner, thread
<1>29. ASSUME RetryEnds PROVE Goal
  BY <1>29 DEF RetryEnds, server, disk, nodes, runner, thread, limits
<1>30. ASSUME SupSetCmd PROVE Goal
  BY <1>30 DEF SupSetCmd, server, disk, nodes, thread, limits
<1>31. ASSUME NEW p \in Proc, Listens(p) PROVE Goal
  BY <1>31 DEF Listens, server, disk, runner, thread, sup, limits
<1>32. ASSUME NEW p \in Proc, Crashes(p) PROVE Goal
  BY <1>32 DEF Crashes, server, disk, runner, thread, sup
<1>33. ASSUME NEW p \in Proc, Reexecs(p) PROVE Goal
  BY <1>33 DEF Reexecs, server, disk, runner, thread, sup, limits
<1>34. ASSUME NEW v \in Payload, NEW b \in BOOLEAN, Publish(v, b) PROVE Goal
  BY <1>34 DEF Publish, disk, nodes, runner, thread, sup
<1>35. ASSUME ShutdownStops PROVE Goal
  BY <1>35 DEF ShutdownStops, StopNode, Kill, server, disk, thread, sup, limits
<1>36. ASSUME Exit PROVE Goal
  BY <1>36 DEF Exit, Goto, server, disk, nodes, runner, limits
<1>37. ASSUME Relaunch PROVE Goal
  BY <1>37 DEF Relaunch, Reboot, server, disk, nodes
<1>38. ASSUME UNCHANGED vars PROVE Goal
  BY <1>38 DEF vars, server, disk, nodes, runner, thread, sup, limits
<1> QED
  BY <1>1, <1>2, <1>3, <1>4, <1>5, <1>6, <1>7, <1>8, <1>9, <1>10, <1>11, <1>12,
     <1>13, <1>14, <1>15, <1>16, <1>17, <1>18, <1>19, <1>20, <1>21, <1>22, <1>23,
     <1>24, <1>25, <1>26, <1>27, <1>28, <1>29, <1>30, <1>31, <1>32, <1>33, <1>34,
     <1>35, <1>36, <1>37, <1>38
     DEF Next, ThreadStep, UpgradeStep, SyncStep, StartStep, SupStep, NodeStep

(* The invariant holds of every state the installer reaches.               *)
THEOREM Invariance == Spec => []IInv
<1>1. IInv /\ [Next]_vars => IInv'
  BY StepTypes, StepHanded, StepClean DEF IInv
<1> QED
  BY InitInv, <1>1, PTL DEF Spec

(* Server, disk, processes and goroutines hold what they are said to hold: *)
(* no process is current, killed or waited for that was never started.     *)
THEOREM TypeCorrect == Spec => []TypeOK
<1>1. IInv => TypeOK
  BY DEF IInv
<1> QED
  BY <1>1, Invariance, PTL

LEMMA AtMostOne == ASSUME NEW S, \A p, q \in S : p = q PROVE Cardinality(S) <= 1
<1>1. CASE S = {}
  BY <1>1, FS_EmptySet
<1>2. CASE S # {}
  <2>1. PICK p \in S : S = {p}
    BY <1>2
  <2>2. Cardinality(S) = 1
    BY <2>1, FS_Singleton
  <2> QED
    BY <2>2
<1> QED
  BY <1>1, <1>2

(* As long as no node crashes and nobody relaunches the installer: one     *)
(* node at a time, none over a directory that is being replaced, and       *)
(* between two rounds of updateLoop none from code that is not on disk.    *)
THEOREM UpdatesClean == Spec => []UpdatesAreClean
<1>1. ASSUME IInv, crashes + relaunches = 0
      PROVE  OneNode /\ ReplaceWhileStopped /\ NodeIsCurrent
  <2>1. Known
    BY <1>1 DEF IInv, CleanInv, Clean
  <2> QED
    BY <2>1, AtMostOne DEF Known, Emptied, OneNode, ReplaceWhileStopped, NodeIsCurrent
<1> QED
  BY <1>1, Invariance, PTL DEF UpdatesAreClean

(* No process is waited for twice, whoever starts it, crashes and          *)
(* relaunches included; and while there are none, no stop is taken for a   *)
(* crash.                                                                  *)
THEOREM ExitsAreJudged == Spec => ExitsJudged
<1>1. ASSUME IInv, [Next]_vars, spc # "wait", spc' = "wait" PROVE held' \notin waited
  <2>1. held' = cmd /\ spc = "look"
    BY <1>1, Judging DEF Look
  <2> QED
    BY <1>1, <2>1 DEF IInv, Handed
<1>2. ASSUME IInv, spc = "judge", spc' = "delay", [Next]_vars
      PROVE  held \notin stopped \/ crashes + relaunches > 0
  <2>1. ~flag
    BY <1>2, Judging
  <2>2. ~Clean
    BY <1>2, <2>1 DEF IInv, CleanInv, Calm
  <2>3. crashes \in Nat /\ relaunches \in Nat
    BY <1>2 DEF IInv, TypeOK
  <2> QED
    BY <2>2, <2>3 DEF Clean
<1> QED
  BY <1>1, <1>2, Invariance, PTL DEF Spec, ExitsJudged, WaitsOnce, StopsAreNotCrashes
=============================================================================
