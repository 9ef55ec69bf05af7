------------------------------- MODULE SyncProofs -------------------------------
(***************************************************************************)
(* What holds of the three channels of a node, for any number of threads,  *)
(* revisions, requests, previews, failures and restarts: the pages and the *)
(* browser that shows them, then the tools and the previews beside them,   *)
(* then the three together.                                                *)
(***************************************************************************)
EXTENDS MCSync, TLAPS


(* A thread between two syncs holds nothing; a sync is at a revision that  *)
(* was published.                                                          *)
SyncFits ==
  \A t \in Thread :
    IF Idle(t) THEN fd[t] = "none" /\ ~cut[t]
               ELSE rev[t] \in Rev /\ rev[t] <= published

(* The histories tell the truth: a sync that met no other is the only one. *)
HistoryTrue ==
  /\ \A t, u \in Thread : ~Idle(t) /\ alone[t] /\ u # t => Idle(u)
  /\ ~overlapped => \A t \in Thread : alone[t]

Ahead  == {"prepare", "torrent", "https", "verify", "clear", "extract", "open",
           "write", "replace", "trunc"}
Staged == {"open", "write", "replace", "trunc", "save", "applied"}

(* What a sync that met no other knows of the disk, statement by statement.*)
SoleSync ==
  \A t \in Thread : ~Idle(t) /\ alone[t] =>
    /\ ~cut[t]
    /\ fd[t] = IF pc[t] = "write" THEN "new" ELSE "none"
    /\ pc[t] \in Ahead => rev[t] > state
    /\ pc[t] \in Staged => stage[rev[t]] = "whole"
    /\ pc[t] = "replace" => new = rev[t]
    /\ pc[t] \in {"trunc", "save", "applied"} => active = rev[t]
    /\ pc[t] = "save" => state = 0
    /\ pc[t] = "applied" => state = rev[t]

(* As long as syncs do not overlap, no sync is behind the pages that are   *)
(* served, and nothing but a failure, a crash or the statements between    *)
(* them sets the two files apart.                                          *)
NeverBehind ==
  ~overlapped =>
    /\ active <= published
    /\ \A t \in Thread : Idle(t) \/ active <= rev[t]
FilesAgree ==
  \/ overlapped \/ active = state \/ Troubled
  \/ \E t \in Thread : pc[t] \in {"trunc", "save"}

SyncInv == TypeOK /\ SyncFits /\ HistoryTrue /\ SoleSync /\ NeverBehind /\ FilesAgree
           /\ FilesTellTheTruth

-----------------------------------------------------------------------------
(* At the start nothing is on disk and no thread syncs. *)
LEMMA InitInv == Init => SyncInv
<1> SUFFICES ASSUME Init PROVE SyncInv
  OBVIOUS
<1>1. TypeOK
  <2>1. MaxRev \in Nat /\ 1 \in Rev /\ 0 \in 0..MaxRev /\ None \in 0..None
    BY SiteAssumption DEF Rev, None
  <2>2. stage \in [Rev -> {"none", "partial", "whole"}] /\ inbox \in [Rev -> BOOLEAN]
    BY DEF Init
  <2>3. pc \in [Thread -> Statement]
    BY DEF Init, Statement
  <2> QED
    BY <2>1, <2>2, <2>3 DEF Init, TypeOK
<1>2. SyncFits /\ HistoryTrue /\ SoleSync
  BY DEF Init, SyncFits, HistoryTrue, SoleSync, Idle
<1>3. NeverBehind /\ FilesAgree /\ FilesTellTheTruth
  BY DEF Init, NeverBehind, FilesAgree, FilesTellTheTruth, RecordedIsServed,
     ServedIsWhole, Idle
<1> QED
  BY <1>1, <1>2, <1>3 DEF SyncInv

(* One thread's step: a new sync, a statement, or a failure.               *)
Moves(t) == Fetch(t) \/ Proceeds(t) \/ Fails(t)

(* The failures of SiteOpen are not steps of SiteSync; they share its      *)
(* bound.                                                                  *)
OtherFault == Fault /\ NoSync

(* Every step keeps the types.                                             *)
LEMMA TypeStep ==
  ASSUME TypeOK, SyncFits, [Next]_vars \/ OtherFault
  PROVE  TypeOK'
<1> USE SiteAssumption
<1>1. ASSUME NEW t \in Thread, Fetch(t) PROVE TypeOK'
  <2>1. alone' \in [Thread -> BOOLEAN] /\ overlapped' \in BOOLEAN
    <3>1. (\A u \in Thread : Idle(u)) \in BOOLEAN /\ \A u \in Thread : Idle(u) \in BOOLEAN
      BY DEF Idle
    <3> QED
      BY <1>1, <3>1 DEF Fetch, TypeOK
  <2>2. rev' \in [Thread -> 0..MaxRev]
    BY <1>1 DEF Fetch, TypeOK, Rev
  <2>3. requests' \in Nat /\ pc' \in [Thread -> Statement]
    BY <1>1 DEF Fetch, TypeOK, Goes, Statement
  <2> QED
    BY <1>1, <2>1, <2>2, <2>3 DEF Fetch, TypeOK, disk
<1>2. ASSUME NEW t \in Thread, UpToDate(t) PROVE TypeOK'
  <2>1. inbox' \in [Rev -> BOOLEAN] /\ pc' \in [Thread -> Statement]
    BY <1>2 DEF UpToDate, Ends, Goes, TypeOK, Statement
  <2>2. /\ rev' \in [Thread -> 0..MaxRev] /\ src' \in [Thread -> {"none", "own", "inbox"}]
        /\ fd' \in [Thread -> {"none", "new", "active", "gone"}]
    BY <1>2 DEF UpToDate, Ends, TypeOK
  <2>3. cut' \in [Thread -> BOOLEAN] /\ alone' \in [Thread -> BOOLEAN]
    BY <1>2 DEF UpToDate, Ends, TypeOK
  <2> QED
    BY <1>2, <2>1, <2>2, <2>3 DEF UpToDate, Ends, TypeOK, limits
<1>3. ASSUME NEW t \in Thread, Check(t) PROVE TypeOK'
  BY <1>3 DEF Check, Goes, Newer, TypeOK, Statement, Rev, None, disk, locals,
     limits, SyncFits, Idle
<1>4. ASSUME NEW t \in Thread, Prepare(t) PROVE TypeOK'
  BY <1>4 DEF Prepare, Goes, TypeOK, Statement, Rev, None, disk, locals,
     limits, SyncFits, Idle
<1>5. ASSUME NEW t \in Thread, TorrentArrives(t) PROVE TypeOK'
  BY <1>5 DEF TorrentArrives, Goes, TypeOK, Statement, Rev, None, disk,
     locals, limits, SyncFits, Idle
<1>6. ASSUME NEW t \in Thread, TorrentFails(t) PROVE TypeOK'
  BY <1>6 DEF TorrentFails, Goes, TypeOK, Statement, Rev, None, disk, locals,
     limits, SyncFits, Idle
<1>7. ASSUME NEW t \in Thread, Download(t) PROVE TypeOK'
  BY <1>7 DEF Download, Goes, TypeOK, Statement, Rev, None, disk, locals,
     limits, SyncFits, Idle
<1>8. ASSUME NEW t \in Thread, BundleGone(t) PROVE TypeOK'
  BY <1>8 DEF BundleGone, Ends, Goes, TypeOK, Statement, Rev, None, disk,
     locals, limits, SyncFits, Idle
<1>9. ASSUME NEW t \in Thread, ArchiveGone(t) PROVE TypeOK'
  BY <1>9 DEF ArchiveGone, Ends, Goes, Removed, TypeOK, Statement, Rev, None,
     disk, locals, limits, SyncFits, Idle
<1>9a. ASSUME NEW t \in Thread, SumDiffers(t) PROVE TypeOK'
  BY <1>9a DEF SumDiffers, Ends, Goes, Removed, TypeOK, Statement, Rev, None,
     disk, locals, limits, SyncFits, Idle
<1>10. ASSUME NEW t \in Thread, Verify(t) PROVE TypeOK'
  BY <1>10 DEF Verify, Goes, TypeOK, Statement, Rev, None, disk, locals,
     limits, SyncFits, Idle
<1>11. ASSUME NEW t \in Thread, Clear(t) PROVE TypeOK'
  BY <1>11 DEF Clear, Goes, TypeOK, Statement, Rev, None, disk, locals,
     limits, SyncFits, Idle
<1>12. ASSUME NEW t \in Thread, Extract(t) PROVE TypeOK'
  BY <1>12 DEF Extract, Goes, TypeOK, Statement, Rev, None, disk, locals,
     limits, SyncFits, Idle
<1>13. ASSUME NEW t \in Thread, ExtractFails(t) PROVE TypeOK'
  BY <1>13 DEF ExtractFails, Ends, Goes, TypeOK, Statement, Rev, None, disk,
     locals, limits, SyncFits, Idle
<1>14. ASSUME NEW t \in Thread, OpenNew(t) PROVE TypeOK'
  BY <1>14 DEF OpenNew, Goes, TypeOK, Statement, Rev, None, disk, locals,
     limits, SyncFits, Idle
<1>15. ASSUME NEW t \in Thread, WriteNew(t) PROVE TypeOK'
  BY <1>15 DEF WriteNew, Goes, TypeOK, Statement, Rev, None, disk, locals,
     limits, SyncFits, Idle
<1>16. ASSUME NEW t \in Thread, Activate(t) PROVE TypeOK'
  <2>1. fd' \in [Thread -> {"none", "new", "active", "gone"}]
    BY <1>16 DEF Activate, TypeOK
  <2>2. active' \in 0..MaxRev /\ new' \in 0..None /\ pc' \in [Thread -> Statement]
    BY <1>16 DEF Activate, TypeOK, Goes, Statement, None
  <2> QED
    BY <1>16, <2>1, <2>2 DEF Activate, TypeOK, limits
<1>17. ASSUME NEW t \in Thread, ActivateFails(t) PROVE TypeOK'
  BY <1>17 DEF ActivateFails, Ends, Goes, TypeOK, Statement, Rev, None, disk,
     locals, limits, SyncFits, Idle
<1>18. ASSUME NEW t \in Thread, TruncateState(t) PROVE TypeOK'
  BY <1>18 DEF TruncateState, Goes, TypeOK, Statement, Rev, None, disk,
     locals, limits, SyncFits, Idle
<1>19. ASSUME NEW t \in Thread, SaveState(t) PROVE TypeOK'
  BY <1>19 DEF SaveState, Goes, TypeOK, Statement, Rev, None, disk, locals,
     limits, SyncFits, Idle
<1>20. ASSUME NEW t \in Thread, Applied(t) PROVE TypeOK'
  BY <1>20 DEF Applied, Ends, Goes, TypeOK, Statement, Rev, None, disk,
     locals, limits, SyncFits, Idle
<1>21. ASSUME NEW t \in Thread, Fails(t) PROVE TypeOK'
  BY <1>21 DEF Fails, Ends, Goes, TypeOK, Statement, Rev, None, disk, locals,
     limits, SyncFits, Idle
<1>22. ASSUME Publish PROVE TypeOK'
  BY <1>22 DEF Publish, TypeOK, Rev, disk, locals, limits
<1>23. ASSUME Restart PROVE TypeOK'
  BY <1>23 DEF Restart, TypeOK, Statement, Rev, disk
<1>24. ASSUME OtherFault PROVE TypeOK'
  BY <1>24 DEF OtherFault, Fault, NoSync, TypeOK, disk, locals
<1>25. CASE UNCHANGED vars
  BY <1>25 DEF vars, TypeOK, disk, locals, limits
<1> QED
  BY <1>1, <1>2, <1>3, <1>4, <1>5, <1>6, <1>7, <1>8, <1>9, <1>9a, <1>10, <1>11,
     <1>12, <1>13, <1>14, <1>15, <1>16, <1>17, <1>18, <1>19, <1>20, <1>21, <1>22,
     <1>23, <1>24, <1>25 DEF Next, Proceeds, SyncStep

-----------------------------------------------------------------------------
(* What a thread's step does to the threads and their histories: it starts *)
(* a sync, goes on with it, or ends it; the others only learn that they    *)
(* are not alone.                                                          *)
LEMMA ThreadStep ==
  ASSUME TypeOK, NEW t \in Thread, Moves(t)
  PROVE  /\ published' = published
         /\ \A u \in Thread \ {t} : pc'[u] = pc[u] /\ rev'[u] = rev[u]
         /\ \/ /\ Fetch(t) /\ Idle(t)
               /\ alone' = [u \in Thread |-> IF u = t THEN \A v \in Thread : Idle(v)
                                                      ELSE Idle(u)]
               /\ overlapped' = (overlapped \/ ~\A v \in Thread : Idle(v))
               /\ pc'[t] = "check" /\ rev'[t] = published
               /\ UNCHANGED <<fd, cut>>
            \/ /\ ~Idle(t) /\ alone' = alone /\ overlapped' = overlapped
               /\ pc'[t] # "idle" /\ rev'[t] = rev[t]
            \/ /\ ~Idle(t) /\ alone' = [alone EXCEPT ![t] = TRUE]
               /\ overlapped' = overlapped
               /\ pc'[t] = "idle" /\ fd'[t] = "none" /\ ~cut'[t]
<1> DEFINE Goal ==
      /\ published' = published
      /\ \A u \in Thread \ {t} : pc'[u] = pc[u] /\ rev'[u] = rev[u]
      /\ \/ /\ Fetch(t) /\ Idle(t)
            /\ alone' = [u \in Thread |-> IF u = t THEN \A v \in Thread : Idle(v)
                                                   ELSE Idle(u)]
            /\ overlapped' = (overlapped \/ ~\A v \in Thread : Idle(v))
            /\ pc'[t] = "check" /\ rev'[t] = published
            /\ UNCHANGED <<fd, cut>>
         \/ /\ ~Idle(t) /\ alone' = alone /\ overlapped' = overlapped
            /\ pc'[t] # "idle" /\ rev'[t] = rev[t]
         \/ /\ ~Idle(t) /\ alone' = [alone EXCEPT ![t] = TRUE]
            /\ overlapped' = overlapped
            /\ pc'[t] = "idle" /\ fd'[t] = "none" /\ ~cut'[t]
<1>1. ASSUME Fetch(t) PROVE Goal
  BY <1>1 DEF Fetch, Goes, Idle, TypeOK
<1>2. ASSUME Ends(t), ~Idle(t), UNCHANGED published PROVE Goal
  BY <1>2 DEF Ends, Goes, Idle, TypeOK
<1>3. ASSUME UNCHANGED <<published, rev, alone, overlapped>>, ~Idle(t),
             NEW s \in Statement, s # "idle", Goes(t, s)
      PROVE  Goal
  BY <1>3 DEF Goes, Idle, TypeOK
<1> HIDE DEF Goal
<1>4. ASSUME \/ UpToDate(t) \/ BundleGone(t) \/ ArchiveGone(t) \/ SumDiffers(t)
             \/ ExtractFails(t)
             \/ ActivateFails(t) \/ Applied(t) \/ Fails(t)
      PROVE  Goal
  BY <1>2, <1>4 DEF UpToDate, BundleGone, ArchiveGone, SumDiffers, ExtractFails,
     ActivateFails, Applied, Fails, Idle
<1>5. ASSUME \/ Check(t) \/ Prepare(t) \/ TorrentArrives(t) \/ TorrentFails(t)
             \/ Download(t) \/ Verify(t) \/ Clear(t) \/ Extract(t) \/ OpenNew(t)
             \/ WriteNew(t) \/ Activate(t) \/ TruncateState(t) \/ SaveState(t)
      PROVE  Goal
  <2>1. {"prepare", "torrent", "https", "verify", "clear", "extract", "open", "write",
         "replace", "trunc", "save", "applied"} \subseteq Statement
    BY DEF Statement
  <2>2. ~Idle(t) /\ UNCHANGED <<published, rev, alone, overlapped>>
    BY <1>5 DEF Check, Prepare, TorrentArrives, TorrentFails, Download, Verify, Clear,
       Extract, OpenNew, WriteNew, Activate, TruncateState, SaveState, locals, Idle
  <2>3. \E s \in Statement : s # "idle" /\ Goes(t, s)
    BY <1>5, <2>1 DEF Check, Prepare, TorrentArrives, TorrentFails, Download, Verify,
       Clear, Extract, OpenNew, WriteNew, Activate, TruncateState, SaveState
  <2> QED
    BY <1>3, <2>2, <2>3
<1>6. Goal
  BY <1>1, <1>4, <1>5 DEF Moves, Proceeds, SyncStep
<1> QED
  BY <1>6 DEF Goal

(* A step is a thread's, a publication, a restart, or leaves the syncs     *)
(* alone.                                                                  *)
LEMMA SiteStep ==
  ASSUME [Next]_vars \/ OtherFault
  PROVE  \/ \E t \in Thread : Moves(t)
         \/ Publish \/ Restart
         \/ /\ UNCHANGED <<published, disk, pc, locals, crashes>>
            /\ faults' = faults \/ faults' = faults + 1
BY DEF Next, Moves, vars, limits, OtherFault, Fault, NoSync

(* The histories stay true.                                                *)
LEMMA HistoryStep ==
  ASSUME TypeOK, HistoryTrue, [Next]_vars \/ OtherFault
  PROVE  HistoryTrue'
<1>1. ASSUME NEW t \in Thread, Moves(t) PROVE HistoryTrue'
  <2>1. CASE Idle(t)
    <3>1. /\ alone' = [u \in Thread |-> IF u = t THEN \A v \in Thread : Idle(v)
                                                 ELSE Idle(u)]
          /\ overlapped' = (overlapped \/ ~\A v \in Thread : Idle(v))
          /\ \A u \in Thread \ {t} : pc'[u] = pc[u]
      BY <1>1, <2>1, ThreadStep
    <3>2. \A u \in Thread \ {t} : Idle(u)' <=> Idle(u)
      BY <3>1 DEF Idle
    <3> QED
      BY <3>1, <3>2 DEF HistoryTrue
  <2>2. CASE ~Idle(t)
    <3>1. /\ overlapped' = overlapped
          /\ \A u \in Thread \ {t} : (Idle(u)' <=> Idle(u)) /\ alone'[u] = alone[u]
          /\ alone'[t] \in {alone[t], TRUE} /\ (~Idle(t)' => alone'[t] = alone[t])
      BY <1>1, <2>2, ThreadStep DEF Idle, TypeOK
    <3> QED
      BY <2>2, <3>1 DEF HistoryTrue
  <2> QED
    BY <2>1, <2>2
<1>2. CASE Publish
  BY <1>2 DEF Publish, HistoryTrue, Idle, locals
<1>3. CASE Restart
  BY <1>3 DEF Restart, HistoryTrue, Idle
<1>4. CASE UNCHANGED <<published, disk, pc, locals, crashes>>
  BY <1>4 DEF HistoryTrue, Idle, locals
<1> QED
  BY <1>1, <1>2, <1>3, <1>4, SiteStep

(* Threads keep to their revisions.                                        *)
LEMMA FitsStep ==
  ASSUME TypeOK, SyncFits, [Next]_vars \/ OtherFault
  PROVE  SyncFits'
<1>0. published \in Rev /\ Rev \subseteq Nat
  BY SiteAssumption DEF TypeOK, Rev
<1>1. ASSUME NEW t \in Thread, Moves(t), NEW u \in Thread
      PROVE  IF Idle(u)' THEN fd'[u] = "none" /\ ~cut'[u]
                         ELSE rev'[u] \in Rev /\ rev'[u] <= published'
  <2>1. CASE u # t
    <3>1. pc'[u] = pc[u] /\ rev'[u] = rev[u] /\ published' = published
      BY <1>1, <2>1, ThreadStep
    <3>2. Idle(u) => fd'[u] = "none" /\ ~cut'[u]
      <4> SUFFICES ASSUME Idle(u) PROVE fd'[u] = "none" /\ ~cut'[u]
        OBVIOUS
      <4>0. fd[u] = "none" /\ ~cut[u] /\ pc[u] = "idle"
        BY DEF SyncFits, Idle
      <4>1. ASSUME fd'[u] = fd[u], cut'[u] = cut[u] PROVE fd'[u] = "none" /\ ~cut'[u]
        BY <4>0, <4>1
      <4>2. CASE Clear(t)
        BY <4>0, <4>2 DEF Clear, TypeOK
      <4>3. CASE Activate(t)
        BY <4>0, <4>3 DEF Activate, TypeOK
      <4>4. CASE OpenNew(t) \/ WriteNew(t)
        BY <2>1, <4>0, <4>4 DEF OpenNew, WriteNew, TypeOK
      <4>5. CASE Ends(t)
        BY <2>1, <4>0, <4>5 DEF Ends, TypeOK
      <4>6. CASE UNCHANGED <<fd, cut>>
        BY <4>1, <4>6
      <4>7. \/ UNCHANGED <<fd, cut>> \/ Ends(t)
            \/ Clear(t) \/ Activate(t) \/ OpenNew(t) \/ WriteNew(t)
        BY <1>1 DEF Moves, Proceeds, SyncStep, Fetch, UpToDate, Check, Prepare,
           TorrentArrives, TorrentFails, Download,
           BundleGone, ArchiveGone, SumDiffers, Verify,
           Extract, ExtractFails, ActivateFails, TruncateState, SaveState, Applied,
           Fails, locals
      <4> QED
        BY <4>2, <4>3, <4>4, <4>5, <4>6, <4>7
    <3> QED
      BY <3>1, <3>2 DEF SyncFits, Idle
  <2>2. CASE u = t /\ Idle(t)
    <3>1. pc'[t] = "check" /\ rev'[t] = published /\ published' = published
      BY <1>1, <2>2, ThreadStep
    <3> QED
      BY <1>0, <2>2, <3>1 DEF Idle
  <2>3. CASE u = t /\ ~Idle(t)
    <3>1. /\ published' = published
          /\ \/ pc'[t] # "idle" /\ rev'[t] = rev[t]
             \/ pc'[t] = "idle" /\ fd'[t] = "none" /\ ~cut'[t]
      BY <1>1, <2>3, ThreadStep
    <3> QED
      BY <2>3, <3>1 DEF SyncFits, Idle
  <2> QED
    BY <2>1, <2>2, <2>3
<1>2. ASSUME Publish PROVE SyncFits'
  <2>1. published' = published + 1 /\ UNCHANGED <<pc, rev, fd, cut>>
    BY <1>2 DEF Publish, locals
  <2>2. \A r \in Rev : r <= published => r <= published'
    BY <1>0, <2>1
  <2> QED
    BY <2>1, <2>2 DEF SyncFits, Idle
<1>3. CASE Restart
  BY <1>3 DEF Restart, SyncFits, Idle
<1>4. CASE UNCHANGED <<published, disk, pc, locals, crashes>>
  BY <1>4 DEF SyncFits, Idle, locals
<1> QED
  BY <1>1, <1>2, <1>3, <1>4, SiteStep DEF SyncFits

-----------------------------------------------------------------------------
(* What a sync that met no other knows, it knows after each of its own     *)
(* statements.                                                             *)
Knows(t) ==
  /\ ~cut[t]
  /\ fd[t] = IF pc[t] = "write" THEN "new" ELSE "none"
  /\ pc[t] \in Ahead => rev[t] > state
  /\ pc[t] \in Staged => stage[rev[t]] = "whole"
  /\ pc[t] = "replace" => new = rev[t]
  /\ pc[t] \in {"trunc", "save", "applied"} => active = rev[t]
  /\ pc[t] = "save" => state = 0
  /\ pc[t] = "applied" => state = rev[t]

LEMMA OwnStep ==
  ASSUME TypeOK, SyncFits, NEW t \in Thread, ~Idle(t), Knows(t), SyncStep(t), ~Idle(t)'
  PROVE  Knows(t)'
<1>0. /\ pc[t] # "idle" /\ pc'[t] # "idle" /\ rev[t] \in Rev /\ Rev \subseteq Nat
      /\ None \notin Rev
  BY SiteAssumption DEF Idle, SyncFits, Rev, None
<1> USE <1>0 DEF Knows, Ahead, Staged, TypeOK
<1>1. ~UpToDate(t)
  BY <1>0 DEF UpToDate, Ends, Goes
<1>2. ASSUME Check(t) PROVE Knows(t)'
  BY <1>2 DEF Check, Goes, Newer, disk, locals
<1>3. ASSUME Prepare(t) PROVE Knows(t)'
  BY <1>3 DEF Prepare, Goes, disk, locals
<1>4. ASSUME TorrentArrives(t) PROVE Knows(t)'
  BY <1>4 DEF TorrentArrives, Goes, disk, locals
<1>5. ASSUME TorrentFails(t) PROVE Knows(t)'
  BY <1>5 DEF TorrentFails, Goes, disk, locals
<1>6. ASSUME Download(t) PROVE Knows(t)'
  BY <1>6 DEF Download, Goes, disk, locals
<1>7. ~BundleGone(t)
  BY <1>0 DEF BundleGone, Ends, Goes
<1>8. ~ArchiveGone(t)
  BY <1>0 DEF ArchiveGone, Ends, Goes
<1>8a. ~SumDiffers(t)
  BY <1>0 DEF SumDiffers, Ends, Goes
<1>9. ASSUME Verify(t) PROVE Knows(t)'
  BY <1>9 DEF Verify, Goes, disk, locals
<1>10. ASSUME Clear(t) PROVE Knows(t)'
  BY <1>10 DEF Clear, Goes, disk, locals
<1>11. ASSUME Extract(t) PROVE Knows(t)'
  BY <1>11 DEF Extract, Goes, disk, locals
<1>12. ~ExtractFails(t)
  BY <1>0 DEF ExtractFails, Ends, Goes
<1>13. ASSUME OpenNew(t) PROVE Knows(t)'
  BY <1>13 DEF OpenNew, Goes, disk, locals
<1>14. ASSUME WriteNew(t) PROVE Knows(t)'
  BY <1>14 DEF WriteNew, Goes, disk, locals
<1>15. ASSUME Activate(t) PROVE Knows(t)'
  BY <1>15 DEF Activate, Goes, disk, locals
<1>16. ~ActivateFails(t)
  BY <1>0 DEF ActivateFails, Ends, Goes
<1>17. ASSUME TruncateState(t) PROVE Knows(t)'
  BY <1>17 DEF TruncateState, Goes, disk, locals
<1>18. ASSUME SaveState(t) PROVE Knows(t)'
  BY <1>18 DEF SaveState, Goes, disk, locals
<1> QED
  BY <1>1, <1>2, <1>3, <1>4, <1>5, <1>6, <1>7, <1>8, <1>8a, <1>9, <1>10, <1>11,
     <1>12, <1>13, <1>14, <1>15, <1>16, <1>17, <1>18 DEF SyncStep

LEMMA SoleStep ==
  ASSUME TypeOK, SyncFits, HistoryTrue, SoleSync, [Next]_vars \/ OtherFault
  PROVE  SoleSync'
<1>1. ASSUME NEW t \in Thread, Moves(t), NEW u \in Thread, ~Idle(u)', alone'[u]
      PROVE  Knows(u)'
  <2>1. u = t
    <3> SUFFICES ASSUME u # t PROVE FALSE
      OBVIOUS
    <3>1. pc'[u] = pc[u]
      BY <1>1, ThreadStep
    <3>2. ~Idle(u)
      BY <1>1, <3>1 DEF Idle
    <3>3. ~Idle(t) /\ alone[u]
      <4>1. CASE Idle(t)
        <5>1. alone' = [v \in Thread |-> IF v = t THEN \A x \in Thread : Idle(x)
                                                   ELSE Idle(v)]
          BY <1>1, <4>1, ThreadStep
        <5>2. alone'[u] => Idle(u)
          BY <5>1
        <5> QED
          BY <1>1, <3>2, <5>2
      <4>2. CASE ~Idle(t)
        <5>1. alone' = alone \/ alone' = [alone EXCEPT ![t] = TRUE]
          BY <1>1, <4>2, ThreadStep
        <5>2. alone'[u] => alone[u]
          BY <5>1 DEF TypeOK
        <5> QED
          BY <1>1, <4>2, <5>2
      <4> QED
        BY <4>1, <4>2
    <3> QED
      BY <3>2, <3>3 DEF HistoryTrue
  <2>2. CASE Fetch(t)
    <3>1. pc'[t] = "check" /\ UNCHANGED <<fd, cut>> /\ Idle(t)
      BY <2>2 DEF Fetch, Goes, TypeOK
    <3>2. fd[t] = "none" /\ ~cut[t]
      BY <3>1 DEF SyncFits
    <3> QED
      BY <2>1, <3>1, <3>2 DEF Knows, Ahead, Staged
  <2>3. CASE SyncStep(t)
    <3>1. ~Idle(t) /\ alone[t]
      BY <1>1, <2>1, <2>3, ThreadStep DEF SyncStep, UpToDate, Check, Prepare,
         TorrentArrives, TorrentFails, Download,
         BundleGone, ArchiveGone, SumDiffers, Verify, Clear,
         Extract, ExtractFails, OpenNew, WriteNew, Activate, ActivateFails,
         TruncateState, SaveState, Idle
    <3>2. Knows(t)
      BY <3>1 DEF SoleSync, Knows
    <3> QED
      BY <1>1, <2>1, <2>3, <3>1, <3>2, OwnStep
  <2>4. CASE Applied(t) \/ Fails(t)
    BY <1>1, <2>1, <2>4 DEF Applied, Fails, Ends, Goes, Idle, TypeOK
  <2> QED
    BY <1>1, <2>2, <2>3, <2>4 DEF Moves, Proceeds
<1>2. CASE Publish
  BY <1>2 DEF Publish, SoleSync, Idle, locals, disk
<1>3. CASE Restart
  BY <1>3 DEF Restart, SoleSync, Idle
<1>4. CASE UNCHANGED <<published, disk, pc, locals, crashes>>
  BY <1>4 DEF SoleSync, Idle, locals, disk
<1>5. (\A u \in Thread : ~Idle(u)' /\ alone'[u] => Knows(u)') => SoleSync'
  BY DEF SoleSync, Knows
<1> QED
  BY <1>1, <1>2, <1>3, <1>4, <1>5, SiteStep

-----------------------------------------------------------------------------
(* The steps that write the directories and the two files.                 *)
WritesPages(t) ==
  Clear(t) \/ Extract(t) \/ WriteNew(t) \/ Activate(t) \/ TruncateState(t) \/ SaveState(t)

LEMMA DiskStep ==
  ASSUME [Next]_vars \/ OtherFault
  PROVE  \/ UNCHANGED <<stage, active, state>>
         \/ \E t \in Thread : WritesPages(t)
<1>1. ASSUME NEW t \in Thread, Moves(t)
      PROVE  UNCHANGED <<stage, active, state>> \/ WritesPages(t)
  BY <1>1 DEF Moves, Proceeds, SyncStep, WritesPages, Fetch, UpToDate, Check, Prepare,
     TorrentArrives, TorrentFails, Download, BundleGone, ArchiveGone, SumDiffers, Verify,
     ExtractFails, OpenNew, ActivateFails, Applied, Fails, Ends, disk
<1>2. CASE Publish \/ Restart
  BY <1>2 DEF Publish, Restart, disk
<1>3. CASE UNCHANGED disk
  BY <1>3 DEF disk
<1> QED
  BY <1>1, <1>2, <1>3, SiteStep DEF disk

(* What a sync writes while no syncs have overlapped.                      *)
LEMMA SoleWrites ==
  ASSUME SyncInv, NEW t \in Thread, WritesPages(t), ~overlapped
  PROVE  /\ Knows(t) /\ rev[t] \in Rev /\ active <= rev[t] /\ rev[t] <= published
         /\ \A u \in Thread \ {t} : Idle(u)
         /\ UNCHANGED <<published, overlapped, faults, crashes>>
         /\ \/ Clear(t) /\ stage' = [stage EXCEPT ![rev[t]] = "partial"]
                        /\ UNCHANGED <<active, state>> /\ rev[t] > state
            \/ Extract(t) /\ stage' = [stage EXCEPT ![rev[t]] = "whole"]
                          /\ UNCHANGED <<active, state>> /\ rev[t] > state
            \/ WriteNew(t) /\ UNCHANGED <<stage, active, state>>
            \/ Activate(t) /\ active' = rev[t] /\ stage[rev[t]] = "whole"
                           /\ rev[t] > state /\ UNCHANGED <<stage, state>>
                           /\ pc'[t] = "trunc"
            \/ TruncateState(t) /\ state' = 0 /\ active = rev[t]
                                /\ stage[rev[t]] = "whole"
                                /\ UNCHANGED <<stage, active>> /\ pc'[t] = "save"
            \/ SaveState(t) /\ state' = rev[t] /\ active = rev[t]
                            /\ stage[rev[t]] = "whole" /\ UNCHANGED <<stage, active>>
<1>0. TypeOK /\ SyncFits /\ HistoryTrue /\ SoleSync /\ NeverBehind
  BY DEF SyncInv
<1>1. ~Idle(t)
  BY DEF WritesPages, Clear, Extract, WriteNew, Activate, TruncateState, SaveState, Idle
<1>2. alone[t] /\ \A u \in Thread \ {t} : Idle(u)
  BY <1>0, <1>1 DEF HistoryTrue
<1>3. Knows(t)
  BY <1>0, <1>1, <1>2 DEF SoleSync, Knows
<1>4. rev[t] \in Rev /\ active <= rev[t] /\ rev[t] <= published
  BY <1>0, <1>1 DEF SyncFits, NeverBehind
<1>5. UNCHANGED <<published, overlapped, faults, crashes>>
  BY DEF WritesPages, Clear, Extract, WriteNew, Activate, TruncateState, SaveState, locals,
     limits
<1> USE DEF Knows, Ahead, Staged
<1>6. CASE Clear(t)
  BY <1>2, <1>3, <1>4, <1>5, <1>6 DEF Clear
<1>7. CASE Extract(t)
  BY <1>2, <1>3, <1>4, <1>5, <1>7 DEF Extract
<1>8. CASE WriteNew(t)
  BY <1>2, <1>3, <1>4, <1>5, <1>8 DEF WriteNew
<1>9. CASE Activate(t)
  BY <1>0, <1>2, <1>3, <1>4, <1>5, <1>9 DEF Activate, Goes, TypeOK
<1>10. CASE TruncateState(t)
  BY <1>0, <1>2, <1>3, <1>4, <1>5, <1>10 DEF TruncateState, Goes, TypeOK
<1>11. CASE SaveState(t)
  BY <1>2, <1>3, <1>4, <1>5, <1>11 DEF SaveState
<1> QED
  BY <1>6, <1>7, <1>8, <1>9, <1>10, <1>11 DEF WritesPages

(* The served revision never goes back while syncs do not overlap.         *)
LEMMA ForwardStep ==
  ASSUME SyncInv, [Next]_vars \/ OtherFault
  PROVE  overlapped \/ active' >= active
<1>0. active \in Nat /\ Rev \subseteq Nat
  BY SiteAssumption DEF SyncInv, TypeOK, Rev
<1>1. CASE UNCHANGED <<stage, active, state>>
  BY <1>0, <1>1
<1>2. ASSUME NEW t \in Thread, WritesPages(t), ~overlapped PROVE active' >= active
  BY <1>0, <1>2, SoleWrites
<1> QED
  BY <1>1, <1>2, DiskStep

(* A history of overlaps is kept.                                          *)
LEMMA OverlapKept ==
  ASSUME TypeOK, [Next]_vars \/ OtherFault, ~overlapped'
  PROVE  ~overlapped
<1>1. ASSUME NEW t \in Thread, Moves(t) PROVE ~overlapped
  BY <1>1, ThreadStep
<1>2. CASE Publish \/ Restart
  BY <1>2 DEF Publish, Restart, locals
<1>3. CASE UNCHANGED locals
  BY <1>3 DEF locals
<1> QED
  BY <1>1, <1>2, <1>3, SiteStep

LEMMA BehindStep ==
  ASSUME SyncInv, [Next]_vars \/ OtherFault
  PROVE  NeverBehind'
<1> SUFFICES ASSUME ~overlapped'
             PROVE  /\ active' <= published'
                    /\ \A u \in Thread : Idle(u)' \/ active' <= rev'[u]
  BY DEF NeverBehind
<1>0. /\ TypeOK /\ TypeOK' /\ SyncFits /\ HistoryTrue /\ NeverBehind /\ ~overlapped
      /\ active \in Nat /\ published \in Nat /\ Rev \subseteq Nat /\ SyncFits'
  BY SiteAssumption, TypeStep, FitsStep, OverlapKept DEF SyncInv, TypeOK, Rev
<1>1. ASSUME NEW t \in Thread, WritesPages(t)
      PROVE  /\ active' <= published'
             /\ \A u \in Thread : Idle(u)' \/ active' <= rev'[u]
  <2>1. /\ rev[t] \in Nat /\ active <= rev[t] /\ rev[t] <= published
        /\ published' = published /\ active' \in {active, rev[t]}
        /\ \A u \in Thread \ {t} : Idle(u)
    BY <1>0, <1>1, SoleWrites
  <2>2. Moves(t)
    BY <1>1 DEF WritesPages, Moves, Proceeds, SyncStep
  <2>3. rev'[t] = rev[t]
    BY <1>0, <1>1 DEF WritesPages, Clear, Extract, WriteNew, Activate, TruncateState,
       SaveState, locals
  <2>4. \A u \in Thread \ {t} : Idle(u)'
    BY <1>0, <2>1, <2>2, ThreadStep DEF Idle
  <2> QED
    BY <1>0, <2>1, <2>3, <2>4
<1>2. ASSUME UNCHANGED active, NEW t \in Thread, Moves(t)
      PROVE  /\ active' <= published'
             /\ \A u \in Thread : Idle(u)' \/ active' <= rev'[u]
  <2>1. active <= published /\ published' = published
    BY <1>0, <1>2, ThreadStep DEF NeverBehind
  <2>2. \A u \in Thread \ {t} : Idle(u)' \/ active <= rev'[u]
    BY <1>0, <1>2, ThreadStep DEF NeverBehind, Idle
  <2>3. Idle(t)' \/ active <= rev'[t]
    BY <1>0, <1>2, <2>1, ThreadStep DEF NeverBehind, Idle
  <2> QED
    BY <1>2, <2>1, <2>2, <2>3
<1>3. CASE Publish
  BY <1>0, <1>3 DEF Publish, NeverBehind, Idle, disk, locals
<1>4. CASE Restart
  BY <1>0, <1>4 DEF Restart, NeverBehind, Idle, disk
<1>5. CASE UNCHANGED <<published, disk, pc, locals, crashes>>
  BY <1>0, <1>5 DEF NeverBehind, Idle, disk, locals
<1> QED
  BY <1>1, <1>2, <1>3, <1>4, <1>5, DiskStep, SiteStep

(* A failure or a crash is remembered.                                     *)
LEMMA TroubledStep ==
  ASSUME TypeOK, [Next]_vars \/ OtherFault
  PROVE  /\ Troubled => Troubled'
         /\ Restart \/ (\E t \in Thread : Fails(t)) => Troubled'
<1>0. faults \in Nat /\ crashes \in Nat
  BY DEF TypeOK
<1>1. CASE UNCHANGED <<faults, crashes>>
  BY <1>1, <1>0 DEF Troubled, Restart, Fails
<1>2. CASE faults' = faults + 1 /\ crashes' = crashes
  BY <1>2, <1>0 DEF Troubled
<1>3. CASE crashes' = crashes + 1 /\ faults' = faults
  BY <1>3, <1>0 DEF Troubled
<1>4. ASSUME NEW t \in Thread, Moves(t)
      PROVE  UNCHANGED <<faults, crashes>> \/ (faults' = faults + 1 /\ crashes' = crashes)
  BY <1>4 DEF Moves, Proceeds, SyncStep, Fetch, UpToDate, Check, Prepare,
     TorrentArrives, TorrentFails, Download,
     BundleGone, ArchiveGone, SumDiffers, Verify, Clear,
     Extract, ExtractFails, OpenNew, WriteNew, Activate, ActivateFails,
     TruncateState, SaveState, Applied, Fails, limits
<1>5. Publish => UNCHANGED <<faults, crashes>>
  BY DEF Publish, limits
<1>6. Restart => crashes' = crashes + 1 /\ faults' = faults
  BY DEF Restart
<1> QED
  BY <1>1, <1>2, <1>3, <1>4, <1>5, <1>6, SiteStep

(* Nothing but a failure or a crash leaves the two files apart.            *)
LEMMA AgreeStep ==
  ASSUME SyncInv, [Next]_vars \/ OtherFault
  PROVE  FilesAgree'
<1> SUFFICES ASSUME ~overlapped', ~Troubled'
             PROVE  active' = state' \/ \E t \in Thread : pc'[t] \in {"trunc", "save"}
  BY DEF FilesAgree
<1>0. TypeOK /\ FilesAgree /\ ~overlapped /\ ~Troubled
  BY OverlapKept, TroubledStep DEF SyncInv
<1>a. active = state \/ \E t \in Thread : pc[t] \in {"trunc", "save"}
  BY <1>0 DEF FilesAgree
<1>1. ASSUME NEW t \in Thread, WritesPages(t)
      PROVE  active' = state' \/ \E u \in Thread : pc'[u] \in {"trunc", "save"}
  <2>1. CASE Activate(t) \/ TruncateState(t)
    <3>1. pc'[t] \in {"trunc", "save"}
      BY <1>0, <2>1 DEF Activate, TruncateState, Goes, TypeOK
    <3> QED
      BY <3>1
  <2>2. CASE SaveState(t)
    <3>1. active' = state'
      BY <1>0, <1>1, <2>2, SoleWrites
         DEF Clear, Extract, WriteNew, Activate, TruncateState, SaveState
    <3> QED
      BY <3>1
  <2>3. CASE Clear(t) \/ Extract(t) \/ WriteNew(t)
    <3>1. /\ UNCHANGED <<active, state>> /\ pc[t] \notin {"trunc", "save"}
          /\ \A u \in Thread \ {t} : Idle(u)
      BY <1>0, <1>1, <2>3, SoleWrites DEF Clear, Extract, WriteNew, Activate,
         TruncateState, SaveState
    <3> QED
      BY <1>a, <3>1 DEF Idle
  <2> QED
    BY <1>1, <2>1, <2>2, <2>3 DEF WritesPages
<1>2. ASSUME UNCHANGED <<active, state>>, NEW t \in Thread, Moves(t), ~WritesPages(t)
      PROVE  active' = state' \/ \E u \in Thread : pc'[u] \in {"trunc", "save"}
  <2>1. ~Fails(t)
    BY <1>0, TroubledStep
  <2>2. pc[t] \notin {"trunc", "save"}
    BY <1>2, <2>1 DEF Moves, Proceeds, SyncStep, WritesPages, Fetch, UpToDate, Check,
       Prepare, TorrentArrives, TorrentFails, Download,
       BundleGone, ArchiveGone, SumDiffers, Verify,
       ExtractFails, OpenNew, ActivateFails, Applied, Idle
  <2>3. \A u \in Thread \ {t} : pc'[u] = pc[u]
    BY <1>0, <1>2, ThreadStep
  <2> QED
    BY <1>a, <1>2, <2>2, <2>3
<1>3. CASE Publish
  BY <1>a, <1>3 DEF Publish, disk
<1>4. ~Restart
  BY <1>0, TroubledStep
<1>5. CASE UNCHANGED <<published, disk, pc, locals, crashes>>
  BY <1>a, <1>5 DEF disk
<1> QED
  BY <1>1, <1>2, <1>3, <1>4, <1>5, DiskStep, SiteStep

(* The two files go on telling the truth.                                  *)
LEMMA TruthStep ==
  ASSUME SyncInv, [Next]_vars \/ OtherFault
  PROVE  FilesTellTheTruth'
<1> SUFFICES ASSUME ~overlapped'
             PROVE  /\ state' = 0 \/ (active' >= state' /\ stage'[state'] = "whole")
                    /\ \/ active' = 0 \/ stage'[active'] = "whole"
                       \/ (active' > state' /\ Troubled')
  BY DEF FilesTellTheTruth, RecordedIsServed, ServedIsWhole
<1>0. /\ TypeOK /\ FilesTellTheTruth /\ FilesAgree /\ ~overlapped
      /\ active \in Nat /\ state \in Nat /\ Rev = 1..MaxRev
      /\ active <= MaxRev /\ state <= MaxRev /\ MaxRev \in Nat
      /\ stage \in [Rev -> {"none", "partial", "whole"}]
  BY SiteAssumption, OverlapKept DEF SyncInv, TypeOK, Rev
<1>1. /\ state = 0 \/ (active >= state /\ stage[state] = "whole")
      /\ active = 0 \/ stage[active] = "whole" \/ (active > state /\ Troubled)
  BY <1>0 DEF FilesTellTheTruth, RecordedIsServed, ServedIsWhole
<1>2. Troubled => Troubled'
  BY <1>0, TroubledStep
<1>3. ASSUME UNCHANGED <<active, state>>,
             state = 0 \/ stage'[state] = "whole",
             active = 0 \/ stage'[active] = "whole" \/ (active > state /\ Troubled)
      PROVE  /\ state' = 0 \/ (active' >= state' /\ stage'[state'] = "whole")
             /\ active' = 0 \/ stage'[active'] = "whole" \/ (active' > state' /\ Troubled')
  BY <1>0, <1>1, <1>2, <1>3
<1>4. CASE UNCHANGED <<stage, active, state>>
  BY <1>1, <1>3, <1>4
<1>5. ASSUME NEW t \in Thread, WritesPages(t)
      PROVE  /\ state' = 0 \/ (active' >= state' /\ stage'[state'] = "whole")
             /\ active' = 0 \/ stage'[active'] = "whole" \/ (active' > state' /\ Troubled')
  <2>0. rev[t] \in Nat /\ rev[t] \in Rev /\ active <= rev[t]
    BY <1>0, <1>5, SoleWrites
  <2>1. CASE Clear(t)
    <3>1. /\ stage' = [stage EXCEPT ![rev[t]] = "partial"] /\ UNCHANGED <<active, state>>
          /\ rev[t] > state /\ \A u \in Thread \ {t} : Idle(u)
      BY <1>0, <1>5, <2>1, SoleWrites
         DEF Clear, Extract, WriteNew, Activate, TruncateState, SaveState
    <3>2. \A r \in Rev : r # rev[t] => stage'[r] = stage[r]
      BY <1>0, <3>1
    <3>3. state = 0 \/ stage'[state] = "whole"
      BY <1>0, <1>1, <3>1, <3>2
    <3>4. CASE rev[t] = active
      <4>1. Troubled
        <5>1. \A u \in Thread : pc[u] \notin {"trunc", "save"}
          BY <2>1, <3>1 DEF Clear, Idle
        <5>2. active # state
          BY <1>0, <2>0, <3>1, <3>4
        <5> QED
          BY <1>0, <5>1, <5>2 DEF FilesAgree
      <4>2. active > state
        BY <3>1, <3>4
      <4> QED
        BY <1>3, <3>1, <3>3, <4>1, <4>2
    <3>5. CASE rev[t] # active
      BY <1>0, <1>1, <1>3, <3>1, <3>2, <3>3, <3>5
    <3> QED
      BY <3>4, <3>5
  <2>2. CASE Extract(t)
    <3>1. /\ stage' = [stage EXCEPT ![rev[t]] = "whole"] /\ UNCHANGED <<active, state>>
      BY <1>0, <1>5, <2>2, SoleWrites
         DEF Clear, Extract, WriteNew, Activate, TruncateState, SaveState
    <3>2. \A r \in Rev : stage[r] = "whole" => stage'[r] = "whole"
      BY <1>0, <3>1
    <3>3. state = 0 \/ stage'[state] = "whole"
      BY <1>0, <1>1, <3>2
    <3>4. active = 0 \/ stage'[active] = "whole" \/ (active > state /\ Troubled)
      BY <1>0, <1>1, <3>2
    <3> QED
      BY <1>3, <3>1, <3>3, <3>4
  <2>3. CASE WriteNew(t)
    BY <1>0, <1>4, <1>5, <2>3, SoleWrites
       DEF Clear, Extract, WriteNew, Activate, TruncateState, SaveState
  <2>4. CASE Activate(t)
    <3>1. active' = rev[t] /\ stage[rev[t]] = "whole" /\ UNCHANGED <<stage, state>>
      BY <1>0, <1>5, <2>4, SoleWrites
         DEF Clear, Extract, WriteNew, Activate, TruncateState, SaveState
    <3>2. state = 0 \/ (rev[t] >= state /\ stage[state] = "whole")
      BY <1>0, <1>1, <2>0
    <3> QED
      BY <3>1, <3>2
  <2>5. CASE TruncateState(t) \/ SaveState(t)
    <3>1. /\ active = rev[t] /\ stage[rev[t]] = "whole" /\ state' \in {0, rev[t]}
          /\ UNCHANGED <<stage, active>>
      BY <1>0, <1>5, <2>5, SoleWrites
         DEF Clear, Extract, WriteNew, Activate, TruncateState, SaveState
    <3> QED
      BY <2>0, <3>1
  <2> QED
    BY <1>5, <2>1, <2>2, <2>3, <2>4, <2>5 DEF WritesPages
<1> QED
  BY <1>4, <1>5, DiskStep

(* The invariant is inductive, also beside the browser.                    *)
LEMMA NextInv ==
  ASSUME SyncInv, [Next]_vars \/ OtherFault
  PROVE  SyncInv'
<1>1. TypeOK' /\ SyncFits' /\ HistoryTrue' /\ SoleSync'
  BY TypeStep, FitsStep, HistoryStep, SoleStep DEF SyncInv
<1>2. NeverBehind' /\ FilesAgree' /\ FilesTellTheTruth'
  BY BehindStep, AgreeStep, TruthStep
<1> QED
  BY <1>1, <1>2 DEF SyncInv

(* Every state of a node that syncs its pages satisfies it.                *)
THEOREM SyncInvariance == Spec => []SyncInv
<1>1. SyncInv /\ [Next]_vars => SyncInv'
  BY NextInv
<1> QED
  BY InitInv, <1>1, PTL DEF Spec

(* The two files tell the truth about the directories, whatever fails or   *)
(* crashes, as long as syncs do not overlap.                               *)
THEOREM FilesTrue == Spec => []FilesTellTheTruth
<1>1. SyncInv => FilesTellTheTruth
  BY DEF SyncInv
<1> QED
  BY <1>1, SyncInvariance, PTL

(* A sync that met no other and says "applied" has done all it says,       *)
(* whatever overlapping, failed or crashed syncs left on disk before it.   *)
THEOREM QuietApplies == Spec => []QuietSyncApplies
<1>1. SyncInv => QuietSyncApplies
  BY DEF SyncInv, SoleSync, Staged, QuietSyncApplies, Idle
<1> QED
  BY <1>1, SyncInvariance, PTL

(* The served revision goes back only when syncs meet.                     *)
THEOREM ServedForward == Spec => NoDowngrade
<1>1. SyncInv /\ [Next]_vars => [active' >= active \/ overlapped]_active
  BY ForwardStep
<1> QED
  BY <1>1, SyncInvariance, PTL DEF Spec, NoDowngrade

-----------------------------------------------------------------------------
(* The browser. *)
Pending == <<sawRev, sawBuild>>

(* The pair is later than what browser_open_state.json says.               *)
Later(r, b) == b > openedFor \/ (b = openedFor /\ r > opened)

(* What was shown is noted or on screen; who holds the lock has a pair that*)
(* is not noted yet.                                                       *)
OpenSound ==
  /\ holder # Nobody => Later(sawRev, sawBuild)
  /\ onScreen => holder # Nobody
  /\ \A p \in shown : Later(p[1], p[2]) => onScreen /\ p = Pending

OpenInv == SyncInv /\ SiteTypeOK /\ OpenSound /\ ShownOnce

LEMMA OpenInitInv == SiteInit => OpenInv
<1> SUFFICES ASSUME SiteInit PROVE OpenInv
  OBVIOUS
<1>1. SyncInv /\ TypeOK
  BY InitInv DEF SiteInit, SyncInv
<1>2. SiteTypeOK
  <2>1. 0 \in 0..MaxBuild /\ 0 \in 0..MaxRev /\ 0 \in 0..0
    BY OpenAssumption, SiteAssumption
  <2> QED
    BY <1>1, <2>1 DEF SiteInit, SiteTypeOK
<1>3. OpenSound /\ ShownOnce
  BY DEF SiteInit, OpenSound, ShownOnce
<1> QED
  BY <1>1, <1>2, <1>3 DEF OpenInv

(* Beside the browser a node syncs as it does without it, but for the      *)
(* failures the two share a bound of.                                      *)
LEMMA SitesStep ==
  ASSUME [SiteNext]_siteVars
  PROVE  [Next]_vars \/ OtherFault
<1>1. ASSUME NEW t \in Thread, Fetch(t) \/ SyncStep(t) \/ Fails(t) \/ Concludes(t)
      PROVE  Next
  BY <1>1 DEF Concludes, Next, Proceeds
<1>2. ASSUME NEW x \in Caller, Asks(x) PROVE UNCHANGED vars
  BY <1>2 DEF Asks, Look, NothingToShow, Show, Note
<1>3. ASSUME NEW x \in Caller, ShowFails(x) \/ NoteFails(x) PROVE OtherFault
  BY <1>3 DEF ShowFails, NoteFails, OtherFault
<1>4. CASE Publish \/ Restarts
  BY <1>4 DEF Restarts, Next
<1>5. CASE Upgrade \/ UNCHANGED siteVars
  BY <1>5 DEF Upgrade, siteVars
<1> QED
  BY <1>1, <1>2, <1>3, <1>4, <1>5 DEF SiteNext

(* What is pending is a pair of known revisions and builds.                *)
LEMMA OpenTypeStep ==
  ASSUME OpenInv, [SiteNext]_siteVars
  PROVE  SiteTypeOK'
<1>0. /\ SiteTypeOK /\ TypeOK' /\ build \in Nat /\ 0 \in 0..build /\ 0 \in 0..MaxRev
      /\ Nobody \in Thread \cup {Starter, Nobody}
  <2>1. SyncInv'
    BY SitesStep, NextInv DEF OpenInv
  <2> QED
    BY <2>1, OpenAssumption, SiteAssumption DEF OpenInv, SyncInv, SiteTypeOK
<1>r. ASSUME Unlocks
      PROVE  /\ holder' \in Thread \cup {Starter, Nobody} /\ sawRev' \in 0..MaxRev
             /\ sawBuild' \in 0..build /\ onScreen' \in BOOLEAN
  BY <1>0, <1>r DEF Unlocks
<1>s. ASSUME NEW x \in Caller, Returns(x) PROVE asked' \subseteq Thread /\ starting' \in BOOLEAN
  BY <1>0, <1>s DEF Returns, Caller, SiteTypeOK
<1>u. ASSUME UNCHANGED openVars PROVE SiteTypeOK'
  BY <1>0, <1>u DEF openVars, call, SiteTypeOK
<1>1. ASSUME NEW t \in Thread, Concludes(t) PROVE SiteTypeOK'
  BY <1>0, <1>1 DEF Concludes, call, SiteTypeOK
<1>2. ASSUME NEW x \in Caller, Look(x) PROVE SiteTypeOK'
  BY <1>0, <1>2 DEF Look, Caller, SiteTypeOK, TypeOK, vars
<1>3. ASSUME NEW x \in Caller, NothingToShow(x) PROVE SiteTypeOK'
  BY <1>0, <1>3 DEF NothingToShow, Returns, Caller, call, SiteTypeOK
<1>4. ASSUME NEW x \in Caller, Show(x) PROVE SiteTypeOK'
  BY <1>0, <1>4 DEF Show, SiteTypeOK
<1>5. ASSUME NEW x \in Caller, Note(x) PROVE SiteTypeOK'
  BY <1>0, <1>5, <1>r, <1>s DEF Note, SiteTypeOK
<1>6. ASSUME NEW x \in Caller, ShowFails(x) PROVE SiteTypeOK'
  BY <1>0, <1>6, <1>r, <1>s DEF ShowFails, SiteTypeOK
<1>7. ASSUME NEW x \in Caller, NoteFails(x) PROVE SiteTypeOK'
  <2>1. asked' \subseteq Thread /\ starting' \in BOOLEAN
    BY <1>0, <1>7 DEF NoteFails, Caller, SiteTypeOK
  <2> QED
    BY <1>0, <1>7, <1>r, <2>1 DEF NoteFails, Unnoted, SiteTypeOK
<1>8. CASE Restarts
  BY <1>0, <1>8, <1>r DEF Restarts, Unnoted, SiteTypeOK
<1>9. CASE Upgrade
  <2>1. build' \in 0..MaxBuild /\ 0..build \subseteq 0..build'
    BY <1>0, <1>9, OpenAssumption DEF Upgrade, SiteTypeOK
  <2>2. shown' \subseteq (0..MaxRev) \X (0..build')
    BY <1>0, <1>9, <2>1 DEF Upgrade, SiteTypeOK
  <2>3. UNCHANGED <<opened, openedFor, call, asked, starting, twice>>
    BY <1>9 DEF Upgrade
  <2> QED
    BY <1>0, <2>1, <2>2, <2>3 DEF call, SiteTypeOK
<1>10. CASE UNCHANGED siteVars
  BY <1>u, <1>10 DEF siteVars
<1> QED
  BY <1>u, <1>1, <1>2, <1>3, <1>4, <1>5, <1>6, <1>7, <1>8, <1>9, <1>10 DEF SiteNext, Asks

(* A pair is shown only when it is later than all that was noted.          *)
LEMMA OpenStep ==
  ASSUME OpenInv, [SiteNext]_siteVars
  PROVE  OpenSound' /\ ShownOnce'
<1>0. /\ SiteTypeOK /\ OpenSound /\ ~twice
      /\ openedFor \in Nat /\ build \in Nat /\ openedFor <= build /\ opened \in Nat
      /\ state \in Nat /\ sawRev \in Nat /\ sawBuild \in Nat /\ Nobody \notin Caller
      /\ \A p \in shown : p = <<p[1], p[2]>> /\ p[1] \in Nat /\ p[2] \in Nat
  BY SiteAssumption, OpenAssumption
     DEF OpenInv, SyncInv, TypeOK, SiteTypeOK, ShownOnce, Caller
<1>u. ASSUME UNCHANGED <<opened, openedFor, call, shown, twice>>
      PROVE  OpenSound' /\ ShownOnce'
  BY <1>0, <1>u DEF call, OpenSound, ShownOnce, Later, Pending
<1>1. ASSUME NEW x \in Caller, Look(x) PROVE OpenSound' /\ ShownOnce'
  <2>1. ~onScreen /\ \A p \in shown : ~Later(p[1], p[2])
    BY <1>0, <1>1 DEF Look, OpenSound
  <2>2. Later(state, build)
    BY <1>0, <1>1 DEF Look, Due, Later
  <2> QED
    BY <1>0, <1>1, <2>1, <2>2 DEF Look, OpenSound, ShownOnce, Later
<1>2. ASSUME NEW x \in Caller, Show(x) PROVE OpenSound' /\ ShownOnce'
  <2>1. holder # Nobody /\ Later(sawRev, sawBuild) /\ ~onScreen
    BY <1>0, <1>2 DEF Show, OpenSound
  <2>2. Pending \notin shown
    BY <1>0, <2>1 DEF OpenSound, Pending
  <2>3. \A p \in shown : ~Later(p[1], p[2])
    BY <2>1 , <1>0 DEF OpenSound
  <2> QED
    BY <1>0, <1>2, <2>1, <2>2, <2>3 DEF Show, OpenSound, ShownOnce, Later, Pending
<1>3. ASSUME NEW x \in Caller, Note(x) PROVE OpenSound' /\ ShownOnce'
  <2>1. Later(sawRev, sawBuild)
    BY <1>0, <1>3 DEF Note, OpenSound
  <2>2. opened' = sawRev /\ openedFor' = sawBuild
    BY <1>0, <1>3, <2>1 DEF Note, Later
  <2>3. ASSUME NEW p \in shown PROVE ~Later(p[1], p[2])'
    <3>1. CASE p = Pending
      <4>1. p[1] = sawRev /\ p[2] = sawBuild
        BY <3>1 DEF Pending
      <4> QED
        BY <1>0, <2>2, <4>1 DEF Later
    <3>2. CASE ~Later(p[1], p[2])
      BY <1>0, <2>1, <2>2, <3>2 DEF Later
    <3> QED
      BY <1>0, <3>1, <3>2 DEF OpenSound
  <2> QED
    BY <1>0, <1>3, <2>3 DEF Note, Unlocks, OpenSound, ShownOnce, Later
<1>4. ASSUME NEW x \in Caller, ShowFails(x) PROVE OpenSound' /\ ShownOnce'
  BY <1>0, <1>4 DEF ShowFails, Unlocks, OpenSound, ShownOnce, Later
<1>5. ASSUME Unlocks, shown' = Unnoted, UNCHANGED <<opened, openedFor, twice>>
      PROVE  OpenSound' /\ ShownOnce'
  <2>1. \A p \in shown' : ~Later(p[1], p[2])
    BY <1>0, <1>5 DEF Unnoted, OpenSound, Pending
  <2> QED
    BY <1>0, <1>5, <2>1 DEF Unlocks, OpenSound, ShownOnce, Later
<1>6. ASSUME NEW x \in Caller, NoteFails(x) PROVE OpenSound' /\ ShownOnce'
  BY <1>5, <1>6 DEF NoteFails
<1>7. CASE Restarts
  BY <1>5, <1>7 DEF Restarts
<1>8. ASSUME NEW x \in Caller, NothingToShow(x) PROVE OpenSound' /\ ShownOnce'
  BY <1>u, <1>8 DEF NothingToShow
<1>9. CASE Upgrade
  BY <1>u, <1>9 DEF Upgrade
<1>10. ASSUME NEW t \in Thread, Concludes(t) PROVE OpenSound' /\ ShownOnce'
  BY <1>u, <1>10 DEF Concludes
<1>11. CASE UNCHANGED openVars
  BY <1>u, <1>11 DEF openVars
<1> QED
  BY <1>1, <1>2, <1>3, <1>4, <1>6, <1>7, <1>8, <1>9, <1>10, <1>11
     DEF SiteNext, Asks, siteVars

LEMMA OpenNextInv == OpenInv /\ [SiteNext]_siteVars => OpenInv'
BY SitesStep, NextInv, OpenTypeStep, OpenStep DEF OpenInv

(* What holds of the pages holds of them beside the browser, and its calls *)
(* keep their order.                                                       *)
THEOREM OpenInvariance == SiteSpec => []OpenInv
BY OpenInitInv, OpenNextInv, PTL DEF SiteSpec

(* Every variable of the pages and the browser keeps its type.             *)
THEOREM SiteTypeCorrect == SiteSpec => []SiteTypeOK
<1>1. OpenInv => SiteTypeOK
  BY DEF OpenInv
<1> QED
  BY <1>1, OpenInvariance, PTL

(* A revision is shown once for a build, however calls and syncs meet and  *)
(* whatever they find in channel_state.json, unless a failure or restart   *)
(* came between the browser and the note.                                  *)
THEOREM OnceShown == SiteSpec => []ShownOnce
<1>1. OpenInv => ShownOnce
  BY DEF OpenInv
<1> QED
  BY <1>1, OpenInvariance, PTL

(* The theorems on the pages hold of a node that shows them, too: the      *)
(* browser reads the files and leaves them as they are.                    *)
THEOREM PagesUnharmed == SiteSpec => [](FilesTellTheTruth /\ QuietSyncApplies)
<1>1. OpenInv => FilesTellTheTruth /\ QuietSyncApplies
  BY DEF OpenInv, SyncInv, SoleSync, Staged, QuietSyncApplies, Idle
<1> QED
  BY <1>1, OpenInvariance, PTL

-----------------------------------------------------------------------------
(* The tools and the previews. *)

(* What a sync replaces is behind what it wants, and what it is about to   *)
(* record is in place.                                                     *)
SyncInOrder ==
  /\ wanted <= offered
  /\ turn \notin {"idle", "compare", "save"} => recorded < wanted
  /\ turn = "save" => recorded = 0
  /\ turn \in {"trunc", "save"} => wanted > 0 /\ (held \/ \A t \in Tool : vendor[t] = wanted)
  /\ turn = "copy" => \A t \in Tool \ todo : vendor[t] = wanted

(* Only a replacement, one that was cut off or one that was held up leaves *)
(* other than two whole tools or none.                                     *)
InPlace == (\A t \in Tool : vendor[t] = 0) \/ (\A t \in Tool : vendor[t] \in Offer)

ToolsInPlace == torn \/ held \/ Replacing \/ InPlace

(* A preview that has met no replacement finds what it needs where it      *)
(* found it.                                                               *)
PreviewInOrder(j) ==
  /\ j \in Underway =>
       /\ ~Replacing /\ InPlace
       /\ found[j]["ffmpeg"] # "none"
       /\ found[j]["ffmpeg"] = "vendor" => vendor["ffmpeg"] # 0
       /\ found[j]["ffmpeg"] = "bundled" => bundled
  /\ doing[j] \in {"probe", "probing"} =>
       /\ found[j]["ffprobe"] # "none"
       /\ found[j]["ffprobe"] = "vendor" => vendor["ffprobe"] # 0
  /\ doing[j] \in {"frame", "framing", "film", "filming", "done"} => j \in measured
  /\ doing[j] = "failed" => found[j]["ffmpeg"] = "none"

PreviewsInOrder == \A j \in Job \ met : PreviewInOrder(j)

(* The inductive invariant of the tools.                                   *)
ToolsInv ==
  /\ FfTypeOK
  /\ SyncInOrder /\ DamageIsBehind
  /\ ToolsInPlace /\ PreviewsInOrder

-----------------------------------------------------------------------------
(* At the start there are no tools, or bundled ones, and no previews.      *)
LEMMA ToolsInitInv == FfInit => ToolsInv
<1> SUFFICES ASSUME FfInit PROVE ToolsInv
  OBVIOUS
<1>0. OfferLimit \in Nat \ {0} /\ MishapLimit \in Nat
  BY FfmpegAssumption
<1>1. FfTypeOK
  <2>1. offered \in Offer /\ recorded \in 0..OfferLimit /\ wanted \in 0..OfferLimit
        /\ mishaps \in 0..MishapLimit
    BY <1>0 DEF FfInit, Offer
  <2>2. vendor \in [Tool -> 0..Partial]
    BY <1>0 DEF FfInit, Partial
  <2>3. doing \in [Job -> Doing] /\ turn \in Turn
    BY DEF FfInit, Doing, Turn
  <2>4. found \in [Job -> [Tool -> {"none", "vendor", "bundled"}]]
    BY DEF FfInit
  <2> QED
    BY <2>1, <2>2, <2>3, <2>4 DEF FfInit, FfTypeOK
<1>2. SyncInOrder /\ DamageIsBehind /\ ToolsInPlace
  BY <1>0 DEF FfInit, SyncInOrder, DamageIsBehind, ToolsInPlace, InPlace, Replacing
<1>3. PreviewsInOrder
  BY DEF FfInit, PreviewsInOrder, PreviewInOrder, Underway
<1> QED
  BY <1>1, <1>2, <1>3 DEF ToolsInv

(* Every step keeps the types.                                             *)
LEMMA ToolsTypeStep ==
  ASSUME FfTypeOK, [FfNext]_ffVars
  PROVE  FfTypeOK'
<1>1. ASSUME ReadChannel PROVE FfTypeOK'
  BY <1>1, FfmpegAssumption DEF ReadChannel, FfTypeOK, Turn, Doing, Offer,
     Partial, platform, sync, previews, Turns, Does
<1>2. ASSUME ToolsUpToDate PROVE FfTypeOK'
  BY <1>2, FfmpegAssumption DEF ToolsUpToDate, SyncEnds, FfTypeOK, Turn,
     Doing, Offer, Partial, platform, sync, previews, Turns, Does
<1>3. ASSUME Compare PROVE FfTypeOK'
  BY <1>3, FfmpegAssumption DEF Compare, Outdated, FfTypeOK, Turn, Doing,
     Offer, Partial, platform, sync, previews, Turns, Does
<1>4. ASSUME ByTorrent PROVE FfTypeOK'
  BY <1>4, FfmpegAssumption DEF ByTorrent, FfTypeOK, Turn, Doing, Offer,
     Partial, platform, sync, previews, Turns, Does
<1>5. ASSUME ByTorrentInPart PROVE FfTypeOK'
  <2>1. sound' \in BOOLEAN
    BY <1>5 DEF ByTorrentInPart
  <2>2. turn' \in Turn
    BY <1>5 DEF ByTorrentInPart, Turns, Turn, FfTypeOK
  <2>3. UNCHANGED <<offered, platform, vendor, recorded, wanted, todo, previews, met, torn,
                    held, mishaps>>
    BY <1>5 DEF ByTorrentInPart
  <2> QED
    BY <2>1, <2>2, <2>3 DEF FfTypeOK, platform, previews
<1>6. ASSUME NoTorrent PROVE FfTypeOK'
  BY <1>6, FfmpegAssumption DEF NoTorrent, FfTypeOK, Turn, Doing, Offer,
     Partial, platform, sync, previews, Turns, Does
<1>7. ASSUME ByHttps PROVE FfTypeOK'
  BY <1>7, FfmpegAssumption DEF ByHttps, FfTypeOK, Turn, Doing, Offer,
     Partial, platform, sync, previews, Turns, Does
<1>8. ASSUME OfferWithdrawn PROVE FfTypeOK'
  BY <1>8, FfmpegAssumption DEF OfferWithdrawn, SyncEnds, FfTypeOK, Turn,
     Doing, Offer, Partial, platform, sync, previews, Turns, Does
<1>9. ASSUME SumMatches PROVE FfTypeOK'
  <2>1. sound' \in BOOLEAN /\ turn' \in Turn
    BY <1>9 DEF SumMatches, SyncEnds, Turns, Turn, FfTypeOK
  <2>2. wanted' \in 0..OfferLimit /\ todo' \subseteq Tool
    <3>1. CASE UNCHANGED <<wanted, todo>>
      BY <3>1 DEF FfTypeOK
    <3>2. CASE wanted' = 0 /\ todo' = {}
      BY <3>2, FfmpegAssumption
    <3> QED
      BY <1>9, <3>1, <3>2 DEF SumMatches, SyncEnds
  <2>3. UNCHANGED <<offered, platform, vendor, recorded, previews, met, torn, held, mishaps>>
    BY <1>9 DEF SumMatches
  <2> QED
    BY <2>1, <2>2, <2>3 DEF FfTypeOK, platform, previews
<1>10. ASSUME Unpack PROVE FfTypeOK'
  BY <1>10, FfmpegAssumption DEF Unpack, Underway, FfTypeOK, Turn, Doing,
     Offer, Partial, platform, sync, previews, Turns, Does
<1>11. ASSUME NEW t \in Tool, RemoveTool(t) PROVE FfTypeOK'
  BY <1>11, FfmpegAssumption DEF RemoveTool, FfTypeOK, Turn, Doing, Offer,
     Partial, platform, sync, previews, Turns, Does
<1>12. ASSUME MoveTools PROVE FfTypeOK'
  <2>1. torn' \in BOOLEAN /\ held' \in BOOLEAN
    BY <1>12 DEF MoveTools, FfTypeOK
  <2>2. turn' \in Turn /\ todo' \subseteq Tool
    BY <1>12 DEF MoveTools, Turns, Turn, FfTypeOK
  <2>3. vendor' \in [Tool -> 0..Partial]
    <3>1. vendor' = vendor \/ vendor' = [t \in Tool |-> wanted]
      BY <1>12 DEF MoveTools
    <3> QED
      BY <3>1, FfmpegAssumption DEF FfTypeOK, Partial
  <2>4. UNCHANGED <<offered, platform, recorded, wanted, sound, previews, met, mishaps>>
    BY <1>12 DEF MoveTools
  <2> QED
    BY <2>1, <2>2, <2>3, <2>4 DEF FfTypeOK, platform, previews
<1>13. ASSUME NEW t \in Tool, BeginCopy(t) PROVE FfTypeOK'
  BY <1>13, FfmpegAssumption DEF BeginCopy, FfTypeOK, Turn, Doing, Offer,
     Partial, platform, sync, previews, Turns, Does
<1>14. ASSUME NEW t \in Tool, EndCopy(t) PROVE FfTypeOK'
  <2>1. torn' \in BOOLEAN /\ held' \in BOOLEAN
    BY <1>14 DEF EndCopy, FfTypeOK
  <2>2. turn' \in Turn /\ todo' \subseteq Tool
    BY <1>14 DEF EndCopy, Turns, Turn, FfTypeOK
  <2>3. vendor' \in [Tool -> 0..Partial]
    <3>1. vendor' = [vendor EXCEPT ![t] = wanted]
      BY <1>14 DEF EndCopy
    <3> QED
      BY <3>1, FfmpegAssumption DEF FfTypeOK, Partial
  <2>4. UNCHANGED <<offered, platform, recorded, wanted, sound, previews, met, mishaps>>
    BY <1>14 DEF EndCopy
  <2> QED
    BY <2>1, <2>2, <2>3, <2>4 DEF FfTypeOK, platform, previews
<1>15. ASSUME TruncateRecord PROVE FfTypeOK'
  BY <1>15, FfmpegAssumption DEF TruncateRecord, FfTypeOK, Turn, Doing, Offer,
     Partial, platform, sync, previews, Turns, Does
<1>16. ASSUME SaveRecord PROVE FfTypeOK'
  BY <1>16, FfmpegAssumption DEF SaveRecord, SyncEnds, FfTypeOK, Turn, Doing,
     Offer, Partial, platform, sync, previews, Turns, Does
<1>17. ASSUME NEW j \in Job, FindFfmpeg(j) PROVE FfTypeOK'
  BY <1>17, FfmpegAssumption DEF FindFfmpeg, Finds, Lookup, Replacing,
     FfTypeOK, Turn, Doing, Offer, Partial, platform, sync, previews, Turns,
     Does
<1>18. ASSUME NEW j \in Job, FindFfprobe(j) PROVE FfTypeOK'
  BY <1>18, FfmpegAssumption DEF FindFfprobe, Finds, Lookup, FfTypeOK, Turn,
     Doing, Offer, Partial, platform, sync, previews, Turns, Does
<1>19. ASSUME NEW j \in Job, Probe(j) PROVE FfTypeOK'
  BY <1>19, FfmpegAssumption DEF Probe, FfTypeOK, Turn, Doing, Offer, Partial,
     platform, sync, previews, Turns, Does
<1>20. ASSUME NEW j \in Job, Probed(j) PROVE FfTypeOK'
  BY <1>20, FfmpegAssumption DEF Probed, FfTypeOK, Turn, Doing, Offer,
     Partial, platform, sync, previews, Turns, Does
<1>21. ASSUME NEW j \in Job, StartFfmpeg(j) PROVE FfTypeOK'
  BY <1>21, FfmpegAssumption DEF StartFfmpeg, FfTypeOK, Turn, Doing, Offer,
     Partial, platform, sync, previews, Turns, Does
<1>22. ASSUME NEW j \in Job, FfmpegEnds(j) PROVE FfTypeOK'
  BY <1>22, FfmpegAssumption DEF FfmpegEnds, FfTypeOK, Turn, Doing, Offer,
     Partial, platform, sync, previews, Turns, Does
<1>23. ASSUME OfferNext PROVE FfTypeOK'
  BY <1>23, FfmpegAssumption DEF OfferNext, FfTypeOK, Turn, Doing, Offer,
     Partial, platform, sync, previews, Turns, Does
<1>24. ASSUME SyncFails PROVE FfTypeOK'
  BY <1>24, FfmpegAssumption DEF SyncFails, SyncEnds, Mishap, Replacing,
     FfTypeOK, Turn, Doing, Offer, Partial, platform, sync, previews, Turns,
     Does
<1>25. ASSUME NodeKilled PROVE FfTypeOK'
  BY <1>25, FfmpegAssumption DEF NodeKilled, SyncEnds, Mishap, Underway,
     Replacing, FfTypeOK, Turn, Doing, Offer, Partial, platform, sync,
     previews, Turns, Does
<1>26. CASE UNCHANGED ffVars
  BY <1>26, FfmpegAssumption DEF ffVars, FfTypeOK, Turn, Doing, Offer,
     Partial, platform, sync, previews, Turns, Does
<1> QED
  BY <1>1, <1>2, <1>3, <1>4, <1>5, <1>6, <1>7, <1>8, <1>9, <1>10, <1>11,
     <1>12, <1>13, <1>14, <1>15, <1>16, <1>17, <1>18, <1>19, <1>20, <1>21,
     <1>22, <1>23, <1>24, <1>25, <1>26 DEF FfNext, ToolsStep, PreviewStep

(* Revisions on offer only grow; what is copied stays until it is recorded. *)
LEMMA OrderStep ==
  ASSUME FfTypeOK, SyncInOrder, [FfNext]_ffVars
  PROVE  SyncInOrder'
<1>1. ASSUME ReadChannel PROVE SyncInOrder'
  BY <1>1, FfmpegAssumption DEF ReadChannel, FfTypeOK, SyncInOrder, Offer,
     Partial, platform, sync, previews, Turns, Does
<1>2. ASSUME ToolsUpToDate PROVE SyncInOrder'
  BY <1>2, FfmpegAssumption DEF ToolsUpToDate, SyncEnds, FfTypeOK,
     SyncInOrder, Offer, Partial, platform, sync, previews, Turns, Does
<1>3. ASSUME Compare PROVE SyncInOrder'
  BY <1>3, FfmpegAssumption DEF Compare, Outdated, FfTypeOK, SyncInOrder,
     Offer, Partial, platform, sync, previews, Turns, Does
<1>4. ASSUME ByTorrent PROVE SyncInOrder'
  BY <1>4, FfmpegAssumption DEF ByTorrent, FfTypeOK, SyncInOrder, Offer,
     Partial, platform, sync, previews, Turns, Does
<1>5. ASSUME ByTorrentInPart PROVE SyncInOrder'
  BY <1>5, FfmpegAssumption DEF ByTorrentInPart, FfTypeOK,
     SyncInOrder, Offer, Partial, platform, sync, previews, Turns, Does
<1>6. ASSUME NoTorrent PROVE SyncInOrder'
  BY <1>6, FfmpegAssumption DEF NoTorrent, FfTypeOK, SyncInOrder, Offer,
     Partial, platform, sync, previews, Turns, Does
<1>7. ASSUME ByHttps PROVE SyncInOrder'
  BY <1>7, FfmpegAssumption DEF ByHttps, FfTypeOK, SyncInOrder, Offer,
     Partial, platform, sync, previews, Turns, Does
<1>8. ASSUME OfferWithdrawn PROVE SyncInOrder'
  BY <1>8, FfmpegAssumption DEF OfferWithdrawn, SyncEnds, FfTypeOK,
     SyncInOrder, Offer, Partial, platform, sync, previews, Turns, Does
<1>9. ASSUME SumMatches PROVE SyncInOrder'
  BY <1>9, FfmpegAssumption DEF SumMatches, SyncEnds, FfTypeOK, SyncInOrder,
     Offer, Partial, platform, sync, previews, Turns, Does
<1>10. ASSUME Unpack PROVE SyncInOrder'
  BY <1>10, FfmpegAssumption DEF Unpack, Underway, FfTypeOK, SyncInOrder,
     Offer, Partial, platform, sync, previews, Turns, Does
<1>11. ASSUME NEW t \in Tool, RemoveTool(t) PROVE SyncInOrder'
  BY <1>11, FfmpegAssumption DEF RemoveTool, FfTypeOK, SyncInOrder, Offer,
     Partial, platform, sync, previews, Turns, Does
<1>12. ASSUME MoveTools PROVE SyncInOrder'
  BY <1>12, FfmpegAssumption DEF MoveTools, FfTypeOK, SyncInOrder, Offer,
     Partial, platform, sync, previews, Turns, Does
<1>13. ASSUME NEW t \in Tool, BeginCopy(t) PROVE SyncInOrder'
  BY <1>13, FfmpegAssumption DEF BeginCopy, FfTypeOK, SyncInOrder, Offer,
     Partial, platform, sync, previews, Turns, Does
<1>14. ASSUME NEW t \in Tool, EndCopy(t) PROVE SyncInOrder'
  BY <1>14, FfmpegAssumption DEF EndCopy, FfTypeOK, SyncInOrder, Offer,
     Partial, platform, sync, previews, Turns, Does
<1>15. ASSUME TruncateRecord PROVE SyncInOrder'
  BY <1>15, FfmpegAssumption DEF TruncateRecord, FfTypeOK, SyncInOrder, Offer,
     Partial, platform, sync, previews, Turns, Does
<1>16. ASSUME SaveRecord PROVE SyncInOrder'
  BY <1>16, FfmpegAssumption DEF SaveRecord, SyncEnds, FfTypeOK, SyncInOrder,
     Offer, Partial, platform, sync, previews, Turns, Does
<1>17. ASSUME NEW j \in Job, FindFfmpeg(j) PROVE SyncInOrder'
  BY <1>17, FfmpegAssumption DEF FindFfmpeg, Finds, Lookup, Replacing,
     FfTypeOK, SyncInOrder, Offer, Partial, platform, sync, previews, Turns,
     Does
<1>18. ASSUME NEW j \in Job, FindFfprobe(j) PROVE SyncInOrder'
  BY <1>18, FfmpegAssumption DEF FindFfprobe, Finds, Lookup, FfTypeOK,
     SyncInOrder, Offer, Partial, platform, sync, previews, Turns, Does
<1>19. ASSUME NEW j \in Job, Probe(j) PROVE SyncInOrder'
  BY <1>19, FfmpegAssumption DEF Probe, FfTypeOK, SyncInOrder, Offer, Partial,
     platform, sync, previews, Turns, Does
<1>20. ASSUME NEW j \in Job, Probed(j) PROVE SyncInOrder'
  BY <1>20, FfmpegAssumption DEF Probed, FfTypeOK, SyncInOrder, Offer,
     Partial, platform, sync, previews, Turns, Does
<1>21. ASSUME NEW j \in Job, StartFfmpeg(j) PROVE SyncInOrder'
  BY <1>21, FfmpegAssumption DEF StartFfmpeg, FfTypeOK, SyncInOrder, Offer,
     Partial, platform, sync, previews, Turns, Does
<1>22. ASSUME NEW j \in Job, FfmpegEnds(j) PROVE SyncInOrder'
  BY <1>22, FfmpegAssumption DEF FfmpegEnds, FfTypeOK, SyncInOrder, Offer,
     Partial, platform, sync, previews, Turns, Does
<1>23. ASSUME OfferNext PROVE SyncInOrder'
  BY <1>23, FfmpegAssumption DEF OfferNext, FfTypeOK, SyncInOrder, Offer,
     Partial, platform, sync, previews, Turns, Does
<1>24. ASSUME SyncFails PROVE SyncInOrder'
  BY <1>24, FfmpegAssumption DEF SyncFails, SyncEnds, Mishap, Replacing,
     FfTypeOK, SyncInOrder, Offer, Partial, platform, sync, previews, Turns,
     Does
<1>25. ASSUME NodeKilled PROVE SyncInOrder'
  BY <1>25, FfmpegAssumption DEF NodeKilled, SyncEnds, Mishap, Underway,
     Replacing, FfTypeOK, SyncInOrder, Offer, Partial, platform, sync,
     previews, Turns, Does
<1>26. CASE UNCHANGED ffVars
  BY <1>26, FfmpegAssumption DEF ffVars, FfTypeOK, SyncInOrder, Offer,
     Partial, platform, sync, previews, Turns, Does
<1> QED
  BY <1>1, <1>2, <1>3, <1>4, <1>5, <1>6, <1>7, <1>8, <1>9, <1>10, <1>11,
     <1>12, <1>13, <1>14, <1>15, <1>16, <1>17, <1>18, <1>19, <1>20, <1>21,
     <1>22, <1>23, <1>24, <1>25, <1>26 DEF FfNext, ToolsStep, PreviewStep

(* While tools are removed or copied the record is behind what is wanted.  *)
LEMMA DamageStep ==
  ASSUME FfTypeOK, SyncInOrder, DamageIsBehind, [FfNext]_ffVars
  PROVE  DamageIsBehind'
<1>1. ASSUME ReadChannel PROVE DamageIsBehind'
  BY <1>1, FfmpegAssumption DEF ReadChannel, FfTypeOK, SyncInOrder,
     DamageIsBehind, Offer, Partial, platform, sync, previews, Turns, Does
<1>2. ASSUME ToolsUpToDate PROVE DamageIsBehind'
  BY <1>2, FfmpegAssumption DEF ToolsUpToDate, SyncEnds, FfTypeOK,
     SyncInOrder, DamageIsBehind, Offer, Partial, platform, sync, previews,
     Turns, Does
<1>3. ASSUME Compare PROVE DamageIsBehind'
  BY <1>3, FfmpegAssumption DEF Compare, Outdated, FfTypeOK, SyncInOrder,
     DamageIsBehind, Offer, Partial, platform, sync, previews, Turns, Does
<1>4. ASSUME ByTorrent PROVE DamageIsBehind'
  BY <1>4, FfmpegAssumption DEF ByTorrent, FfTypeOK, SyncInOrder,
     DamageIsBehind, Offer, Partial, platform, sync, previews, Turns, Does
<1>5. ASSUME ByTorrentInPart PROVE DamageIsBehind'
  BY <1>5, FfmpegAssumption DEF ByTorrentInPart, FfTypeOK,
     SyncInOrder, DamageIsBehind, Offer, Partial, platform, sync, previews,
     Turns, Does
<1>6. ASSUME NoTorrent PROVE DamageIsBehind'
  BY <1>6, FfmpegAssumption DEF NoTorrent, FfTypeOK, SyncInOrder,
     DamageIsBehind, Offer, Partial, platform, sync, previews, Turns, Does
<1>7. ASSUME ByHttps PROVE DamageIsBehind'
  BY <1>7, FfmpegAssumption DEF ByHttps, FfTypeOK, SyncInOrder,
     DamageIsBehind, Offer, Partial, platform, sync, previews, Turns, Does
<1>8. ASSUME OfferWithdrawn PROVE DamageIsBehind'
  BY <1>8, FfmpegAssumption DEF OfferWithdrawn, SyncEnds, FfTypeOK,
     SyncInOrder, DamageIsBehind, Offer, Partial, platform, sync, previews,
     Turns, Does
<1>9. ASSUME SumMatches PROVE DamageIsBehind'
  BY <1>9, FfmpegAssumption DEF SumMatches, SyncEnds, FfTypeOK, SyncInOrder,
     DamageIsBehind, Offer, Partial, platform, sync, previews, Turns, Does
<1>10. ASSUME Unpack PROVE DamageIsBehind'
  BY <1>10, FfmpegAssumption DEF Unpack, Underway, FfTypeOK, SyncInOrder,
     DamageIsBehind, Offer, Partial, platform, sync, previews, Turns, Does
<1>11. ASSUME NEW t \in Tool, RemoveTool(t) PROVE DamageIsBehind'
  BY <1>11, FfmpegAssumption DEF RemoveTool, FfTypeOK, SyncInOrder,
     DamageIsBehind, Offer, Partial, platform, sync, previews, Turns, Does
<1>12. ASSUME MoveTools PROVE DamageIsBehind'
  BY <1>12, FfmpegAssumption DEF MoveTools, FfTypeOK, SyncInOrder,
     DamageIsBehind, Offer, Partial, platform, sync, previews, Turns, Does
<1>13. ASSUME NEW t \in Tool, BeginCopy(t) PROVE DamageIsBehind'
  BY <1>13, FfmpegAssumption DEF BeginCopy, FfTypeOK, SyncInOrder,
     DamageIsBehind, Offer, Partial, platform, sync, previews, Turns, Does
<1>14. ASSUME NEW t \in Tool, EndCopy(t) PROVE DamageIsBehind'
  BY <1>14, FfmpegAssumption DEF EndCopy, FfTypeOK, SyncInOrder,
     DamageIsBehind, Offer, Partial, platform, sync, previews, Turns, Does
<1>15. ASSUME TruncateRecord PROVE DamageIsBehind'
  BY <1>15, FfmpegAssumption DEF TruncateRecord, FfTypeOK, SyncInOrder,
     DamageIsBehind, Offer, Partial, platform, sync, previews, Turns, Does
<1>16. ASSUME SaveRecord PROVE DamageIsBehind'
  BY <1>16, FfmpegAssumption DEF SaveRecord, SyncEnds, FfTypeOK, SyncInOrder,
     DamageIsBehind, Offer, Partial, platform, sync, previews, Turns, Does
<1>17. ASSUME NEW j \in Job, FindFfmpeg(j) PROVE DamageIsBehind'
  BY <1>17, FfmpegAssumption DEF FindFfmpeg, Finds, Lookup, Replacing,
     FfTypeOK, SyncInOrder, DamageIsBehind, Offer, Partial, platform, sync,
     previews, Turns, Does
<1>18. ASSUME NEW j \in Job, FindFfprobe(j) PROVE DamageIsBehind'
  BY <1>18, FfmpegAssumption DEF FindFfprobe, Finds, Lookup, FfTypeOK,
     SyncInOrder, DamageIsBehind, Offer, Partial, platform, sync, previews,
     Turns, Does
<1>19. ASSUME NEW j \in Job, Probe(j) PROVE DamageIsBehind'
  BY <1>19, FfmpegAssumption DEF Probe, FfTypeOK, SyncInOrder, DamageIsBehind,
     Offer, Partial, platform, sync, previews, Turns, Does
<1>20. ASSUME NEW j \in Job, Probed(j) PROVE DamageIsBehind'
  BY <1>20, FfmpegAssumption DEF Probed, FfTypeOK, SyncInOrder,
     DamageIsBehind, Offer, Partial, platform, sync, previews, Turns, Does
<1>21. ASSUME NEW j \in Job, StartFfmpeg(j) PROVE DamageIsBehind'
  BY <1>21, FfmpegAssumption DEF StartFfmpeg, FfTypeOK, SyncInOrder,
     DamageIsBehind, Offer, Partial, platform, sync, previews, Turns, Does
<1>22. ASSUME NEW j \in Job, FfmpegEnds(j) PROVE DamageIsBehind'
  BY <1>22, FfmpegAssumption DEF FfmpegEnds, FfTypeOK, SyncInOrder,
     DamageIsBehind, Offer, Partial, platform, sync, previews, Turns, Does
<1>23. ASSUME OfferNext PROVE DamageIsBehind'
  BY <1>23, FfmpegAssumption DEF OfferNext, FfTypeOK, SyncInOrder,
     DamageIsBehind, Offer, Partial, platform, sync, previews, Turns, Does
<1>24. ASSUME SyncFails PROVE DamageIsBehind'
  BY <1>24, FfmpegAssumption DEF SyncFails, SyncEnds, Mishap, Replacing,
     FfTypeOK, SyncInOrder, DamageIsBehind, Offer, Partial, platform, sync,
     previews, Turns, Does
<1>25. ASSUME NodeKilled PROVE DamageIsBehind'
  BY <1>25, FfmpegAssumption DEF NodeKilled, SyncEnds, Mishap, Underway,
     Replacing, FfTypeOK, SyncInOrder, DamageIsBehind, Offer, Partial,
     platform, sync, previews, Turns, Does
<1>26. CASE UNCHANGED ffVars
  BY <1>26, FfmpegAssumption DEF ffVars, FfTypeOK, SyncInOrder,
     DamageIsBehind, Offer, Partial, platform, sync, previews, Turns, Does
<1> QED
  BY <1>1, <1>2, <1>3, <1>4, <1>5, <1>6, <1>7, <1>8, <1>9, <1>10, <1>11,
     <1>12, <1>13, <1>14, <1>15, <1>16, <1>17, <1>18, <1>19, <1>20, <1>21,
     <1>22, <1>23, <1>24, <1>25, <1>26 DEF FfNext, ToolsStep, PreviewStep

(* A replacement ends whole, cut off or held up.                           *)
LEMMA PlaceStep ==
  ASSUME FfTypeOK, SyncInOrder, ToolsInPlace, [FfNext]_ffVars
  PROVE  ToolsInPlace'
<1>1. ASSUME ReadChannel PROVE ToolsInPlace'
  BY <1>1, FfmpegAssumption DEF ReadChannel, FfTypeOK, SyncInOrder,
     ToolsInPlace, InPlace, Replacing, Offer, Partial, platform, sync,
     previews, Turns, Does
<1>2. ASSUME ToolsUpToDate PROVE ToolsInPlace'
  BY <1>2, FfmpegAssumption DEF ToolsUpToDate, SyncEnds, FfTypeOK,
     SyncInOrder, ToolsInPlace, InPlace, Replacing, Offer, Partial, platform,
     sync, previews, Turns, Does
<1>3. ASSUME Compare PROVE ToolsInPlace'
  BY <1>3, FfmpegAssumption DEF Compare, Outdated, FfTypeOK, SyncInOrder,
     ToolsInPlace, InPlace, Replacing, Offer, Partial, platform, sync,
     previews, Turns, Does
<1>4. ASSUME ByTorrent PROVE ToolsInPlace'
  BY <1>4, FfmpegAssumption DEF ByTorrent, FfTypeOK, SyncInOrder,
     ToolsInPlace, InPlace, Replacing, Offer, Partial, platform, sync,
     previews, Turns, Does
<1>5. ASSUME ByTorrentInPart PROVE ToolsInPlace'
  BY <1>5, FfmpegAssumption DEF ByTorrentInPart, FfTypeOK,
     SyncInOrder, ToolsInPlace, InPlace, Replacing, Offer, Partial, platform,
     sync, previews, Turns, Does
<1>6. ASSUME NoTorrent PROVE ToolsInPlace'
  BY <1>6, FfmpegAssumption DEF NoTorrent, FfTypeOK, SyncInOrder,
     ToolsInPlace, InPlace, Replacing, Offer, Partial, platform, sync,
     previews, Turns, Does
<1>7. ASSUME ByHttps PROVE ToolsInPlace'
  BY <1>7, FfmpegAssumption DEF ByHttps, FfTypeOK, SyncInOrder, ToolsInPlace,
     InPlace, Replacing, Offer, Partial, platform, sync, previews, Turns, Does
<1>8. ASSUME OfferWithdrawn PROVE ToolsInPlace'
  BY <1>8, FfmpegAssumption DEF OfferWithdrawn, SyncEnds, FfTypeOK,
     SyncInOrder, ToolsInPlace, InPlace, Replacing, Offer, Partial, platform,
     sync, previews, Turns, Does
<1>9. ASSUME SumMatches PROVE ToolsInPlace'
  BY <1>9, FfmpegAssumption DEF SumMatches, SyncEnds, FfTypeOK, SyncInOrder,
     ToolsInPlace, InPlace, Replacing, Offer, Partial, platform, sync,
     previews, Turns, Does
<1>10. ASSUME Unpack PROVE ToolsInPlace'
  BY <1>10, FfmpegAssumption DEF Unpack, FfTypeOK, SyncInOrder, ToolsInPlace,
     InPlace, Replacing, Offer, Partial, platform, sync, previews, Turns, Does
<1>11. ASSUME NEW t \in Tool, RemoveTool(t) PROVE ToolsInPlace'
  BY <1>11, FfmpegAssumption DEF RemoveTool, FfTypeOK, SyncInOrder,
     ToolsInPlace, InPlace, Replacing, Offer, Partial, platform, sync,
     previews, Turns, Does
<1>12. ASSUME MoveTools PROVE ToolsInPlace'
  BY <1>12, FfmpegAssumption DEF MoveTools, FfTypeOK, SyncInOrder,
     ToolsInPlace, InPlace, Replacing, Offer, Partial, platform, sync,
     previews, Turns, Does
<1>13. ASSUME NEW t \in Tool, BeginCopy(t) PROVE ToolsInPlace'
  BY <1>13, FfmpegAssumption DEF BeginCopy, FfTypeOK, SyncInOrder,
     ToolsInPlace, InPlace, Replacing, Offer, Partial, platform, sync,
     previews, Turns, Does
<1>14. ASSUME NEW t \in Tool, EndCopy(t) PROVE ToolsInPlace'
  BY <1>14, FfmpegAssumption DEF EndCopy, FfTypeOK, SyncInOrder, ToolsInPlace,
     InPlace, Replacing, Offer, Partial, platform, sync, previews, Turns, Does
<1>15. ASSUME TruncateRecord PROVE ToolsInPlace'
  BY <1>15, FfmpegAssumption DEF TruncateRecord, FfTypeOK, SyncInOrder,
     ToolsInPlace, InPlace, Replacing, Offer, Partial, platform, sync,
     previews, Turns, Does
<1>16. ASSUME SaveRecord PROVE ToolsInPlace'
  BY <1>16, FfmpegAssumption DEF SaveRecord, SyncEnds, FfTypeOK, SyncInOrder,
     ToolsInPlace, InPlace, Replacing, Offer, Partial, platform, sync,
     previews, Turns, Does
<1>17. ASSUME NEW j \in Job, FindFfmpeg(j) PROVE ToolsInPlace'
  BY <1>17, FfmpegAssumption DEF FindFfmpeg, Finds, Lookup, FfTypeOK,
     SyncInOrder, ToolsInPlace, InPlace, Replacing, Offer, Partial, platform,
     sync, previews, Turns, Does
<1>18. ASSUME NEW j \in Job, FindFfprobe(j) PROVE ToolsInPlace'
  BY <1>18, FfmpegAssumption DEF FindFfprobe, Finds, Lookup, FfTypeOK,
     SyncInOrder, ToolsInPlace, InPlace, Replacing, Offer, Partial, platform,
     sync, previews, Turns, Does
<1>19. ASSUME NEW j \in Job, Probe(j) PROVE ToolsInPlace'
  BY <1>19, FfmpegAssumption DEF Probe, FfTypeOK, SyncInOrder, ToolsInPlace,
     InPlace, Replacing, Offer, Partial, platform, sync, previews, Turns, Does
<1>20. ASSUME NEW j \in Job, Probed(j) PROVE ToolsInPlace'
  BY <1>20, FfmpegAssumption DEF Probed, FfTypeOK, SyncInOrder, ToolsInPlace,
     InPlace, Replacing, Offer, Partial, platform, sync, previews, Turns, Does
<1>21. ASSUME NEW j \in Job, StartFfmpeg(j) PROVE ToolsInPlace'
  BY <1>21, FfmpegAssumption DEF StartFfmpeg, FfTypeOK, SyncInOrder,
     ToolsInPlace, InPlace, Replacing, Offer, Partial, platform, sync,
     previews, Turns, Does
<1>22. ASSUME NEW j \in Job, FfmpegEnds(j) PROVE ToolsInPlace'
  BY <1>22, FfmpegAssumption DEF FfmpegEnds, FfTypeOK, SyncInOrder,
     ToolsInPlace, InPlace, Replacing, Offer, Partial, platform, sync,
     previews, Turns, Does
<1>23. ASSUME OfferNext PROVE ToolsInPlace'
  BY <1>23, FfmpegAssumption DEF OfferNext, FfTypeOK, SyncInOrder,
     ToolsInPlace, InPlace, Replacing, Offer, Partial, platform, sync,
     previews, Turns, Does
<1>24. ASSUME SyncFails PROVE ToolsInPlace'
  BY <1>24, FfmpegAssumption DEF SyncFails, SyncEnds, Mishap, FfTypeOK,
     SyncInOrder, ToolsInPlace, InPlace, Replacing, Offer, Partial, platform,
     sync, previews, Turns, Does
<1>25. ASSUME NodeKilled PROVE ToolsInPlace'
  BY <1>25, FfmpegAssumption DEF NodeKilled, SyncEnds, Mishap, FfTypeOK,
     SyncInOrder, ToolsInPlace, InPlace, Replacing, Offer, Partial, platform,
     sync, previews, Turns, Does
<1>26. CASE UNCHANGED ffVars
  BY <1>26, FfmpegAssumption DEF ffVars, FfTypeOK, SyncInOrder, ToolsInPlace,
     InPlace, Replacing, Offer, Partial, platform, sync, previews, Turns, Does
<1> QED
  BY <1>1, <1>2, <1>3, <1>4, <1>5, <1>6, <1>7, <1>8, <1>9, <1>10, <1>11,
     <1>12, <1>13, <1>14, <1>15, <1>16, <1>17, <1>18, <1>19, <1>20, <1>21,
     <1>22, <1>23, <1>24, <1>25, <1>26 DEF FfNext, ToolsStep, PreviewStep

(* Replacements begin by meeting the previews underway.                    *)
LEMMA PreviewStepKeeps ==
  ASSUME FfTypeOK, SyncInOrder, ToolsInPlace, PreviewsInOrder, [FfNext]_ffVars
  PROVE  PreviewsInOrder'
<1>1. ASSUME ReadChannel PROVE PreviewsInOrder'
  BY <1>1 DEF ReadChannel, FfTypeOK, Tool, ToolsInPlace, PreviewsInOrder,
     PreviewInOrder, InPlace, Replacing, Underway, Doing, Offer, Partial,
     platform, sync, previews, Turns, Does
<1>2. ASSUME ToolsUpToDate PROVE PreviewsInOrder'
  BY <1>2 DEF ToolsUpToDate, SyncEnds, FfTypeOK, Tool, ToolsInPlace,
     PreviewsInOrder, PreviewInOrder, InPlace, Replacing, Underway, Doing,
     Offer, Partial, platform, sync, previews, Turns, Does
<1>3. ASSUME Compare PROVE PreviewsInOrder'
  BY <1>3 DEF Compare, Outdated, FfTypeOK, Tool, ToolsInPlace,
     PreviewsInOrder, PreviewInOrder, InPlace, Replacing, Underway, Doing,
     Offer, Partial, platform, sync, previews, Turns, Does
<1>4. ASSUME ByTorrent PROVE PreviewsInOrder'
  BY <1>4 DEF ByTorrent, FfTypeOK, Tool, ToolsInPlace, PreviewsInOrder,
     PreviewInOrder, InPlace, Replacing, Underway, Doing, Offer, Partial,
     platform, sync, previews, Turns, Does
<1>5. ASSUME ByTorrentInPart PROVE PreviewsInOrder'
  BY <1>5 DEF ByTorrentInPart, FfTypeOK, Tool, ToolsInPlace,
     PreviewsInOrder, PreviewInOrder, InPlace, Replacing, Underway, Doing,
     Offer, Partial, platform, sync, previews, Turns, Does
<1>6. ASSUME NoTorrent PROVE PreviewsInOrder'
  BY <1>6 DEF NoTorrent, FfTypeOK, Tool, ToolsInPlace, PreviewsInOrder,
     PreviewInOrder, InPlace, Replacing, Underway, Doing, Offer, Partial,
     platform, sync, previews, Turns, Does
<1>7. ASSUME ByHttps PROVE PreviewsInOrder'
  BY <1>7 DEF ByHttps, FfTypeOK, Tool, ToolsInPlace, PreviewsInOrder,
     PreviewInOrder, InPlace, Replacing, Underway, Doing, Offer, Partial,
     platform, sync, previews, Turns, Does
<1>8. ASSUME OfferWithdrawn PROVE PreviewsInOrder'
  BY <1>8 DEF OfferWithdrawn, SyncEnds, FfTypeOK, Tool, ToolsInPlace,
     PreviewsInOrder, PreviewInOrder, InPlace, Replacing, Underway, Doing,
     Offer, Partial, platform, sync, previews, Turns, Does
<1>9. ASSUME SumMatches PROVE PreviewsInOrder'
  BY <1>9 DEF SumMatches, SyncEnds, FfTypeOK, Tool, ToolsInPlace,
     PreviewsInOrder, PreviewInOrder, InPlace, Replacing, Underway, Doing,
     Offer, Partial, platform, sync, previews, Turns, Does
<1>10. ASSUME Unpack PROVE PreviewsInOrder'
  BY <1>10 DEF Unpack, FfTypeOK, Tool, ToolsInPlace, PreviewsInOrder,
     PreviewInOrder, InPlace, Replacing, Underway, Doing, Offer, Partial,
     platform, sync, previews, Turns, Does
<1>11. ASSUME NEW t \in Tool, RemoveTool(t) PROVE PreviewsInOrder'
  BY <1>11 DEF RemoveTool, FfTypeOK, Tool, ToolsInPlace, PreviewsInOrder,
     PreviewInOrder, InPlace, Replacing, Underway, Doing, Offer, Partial,
     platform, sync, previews, Turns, Does
<1>12. ASSUME MoveTools PROVE PreviewsInOrder'
  BY <1>12 DEF MoveTools, FfTypeOK, Tool, ToolsInPlace, PreviewsInOrder,
     PreviewInOrder, InPlace, Replacing, Underway, Doing, Offer, Partial,
     platform, sync, previews, Turns, Does
<1>13. ASSUME NEW t \in Tool, BeginCopy(t) PROVE PreviewsInOrder'
  BY <1>13 DEF BeginCopy, FfTypeOK, Tool, ToolsInPlace, PreviewsInOrder,
     PreviewInOrder, InPlace, Replacing, Underway, Doing, Offer, Partial,
     platform, sync, previews, Turns, Does
<1>14. ASSUME NEW t \in Tool, EndCopy(t) PROVE PreviewsInOrder'
  BY <1>14 DEF EndCopy, FfTypeOK, Tool, ToolsInPlace, PreviewsInOrder,
     PreviewInOrder, InPlace, Replacing, Underway, Doing, Offer, Partial,
     platform, sync, previews, Turns, Does
<1>15. ASSUME TruncateRecord PROVE PreviewsInOrder'
  BY <1>15 DEF TruncateRecord, FfTypeOK, Tool, ToolsInPlace, PreviewsInOrder,
     PreviewInOrder, InPlace, Replacing, Underway, Doing, Offer, Partial,
     platform, sync, previews, Turns, Does
<1>16. ASSUME SaveRecord PROVE PreviewsInOrder'
  BY <1>16 DEF SaveRecord, SyncEnds, FfTypeOK, Tool, ToolsInPlace,
     PreviewsInOrder, PreviewInOrder, InPlace, Replacing, Underway, Doing,
     Offer, Partial, platform, sync, previews, Turns, Does
<1>17. ASSUME NEW j \in Job, FindFfmpeg(j) PROVE PreviewsInOrder'
  BY <1>17 DEF FindFfmpeg, Finds, Lookup, FfTypeOK, Tool, ToolsInPlace,
     PreviewsInOrder, PreviewInOrder, InPlace, Replacing, Underway, Doing,
     Offer, Partial, platform, sync, previews, Turns, Does
<1>18. ASSUME NEW j \in Job, FindFfprobe(j) PROVE PreviewsInOrder'
  BY <1>18 DEF FindFfprobe, Finds, Lookup, FfTypeOK, Tool, ToolsInPlace,
     PreviewsInOrder, PreviewInOrder, InPlace, Replacing, Underway, Doing,
     Offer, Partial, platform, sync, previews, Turns, Does
<1>19. ASSUME NEW j \in Job, Probe(j) PROVE PreviewsInOrder'
  BY <1>19 DEF Probe, CanRun, FfTypeOK, Tool, ToolsInPlace, PreviewsInOrder,
     PreviewInOrder, InPlace, Replacing, Underway, Doing, Offer, Partial,
     platform, sync, previews, Turns, Does
<1>20. ASSUME NEW j \in Job, Probed(j) PROVE PreviewsInOrder'
  BY <1>20 DEF Probed, FfTypeOK, Tool, ToolsInPlace, PreviewsInOrder,
     PreviewInOrder, InPlace, Replacing, Underway, Doing, Offer, Partial,
     platform, sync, previews, Turns, Does
<1>21. ASSUME NEW j \in Job, StartFfmpeg(j) PROVE PreviewsInOrder'
  BY <1>21 DEF StartFfmpeg, CanRun, FfTypeOK, Tool, ToolsInPlace,
     PreviewsInOrder, PreviewInOrder, InPlace, Replacing, Underway, Doing,
     Offer, Partial, platform, sync, previews, Turns, Does
<1>22. ASSUME NEW j \in Job, FfmpegEnds(j) PROVE PreviewsInOrder'
  BY <1>22 DEF FfmpegEnds, FfTypeOK, Tool, ToolsInPlace, PreviewsInOrder,
     PreviewInOrder, InPlace, Replacing, Underway, Doing, Offer, Partial,
     platform, sync, previews, Turns, Does
<1>23. ASSUME OfferNext PROVE PreviewsInOrder'
  BY <1>23 DEF OfferNext, FfTypeOK, Tool, ToolsInPlace, PreviewsInOrder,
     PreviewInOrder, InPlace, Replacing, Underway, Doing, Offer, Partial,
     platform, sync, previews, Turns, Does
<1>24. ASSUME SyncFails PROVE PreviewsInOrder'
  BY <1>24 DEF SyncFails, SyncEnds, Mishap, FfTypeOK, Tool, ToolsInPlace,
     PreviewsInOrder, PreviewInOrder, InPlace, Replacing, Underway, Doing,
     Offer, Partial, platform, sync, previews, Turns, Does
<1>25. ASSUME NodeKilled PROVE PreviewsInOrder'
  BY <1>25 DEF NodeKilled, SyncEnds, Mishap, FfTypeOK, Tool, ToolsInPlace,
     PreviewsInOrder, PreviewInOrder, InPlace, Replacing, Underway, Doing,
     Offer, Partial, platform, sync, previews, Turns, Does
<1>26. CASE UNCHANGED ffVars
  BY <1>26 DEF ffVars, FfTypeOK, Tool, ToolsInPlace, PreviewsInOrder,
     PreviewInOrder, InPlace, Replacing, Underway, Doing, Offer, Partial,
     platform, sync, previews, Turns, Does
<1> QED
  BY <1>1, <1>2, <1>3, <1>4, <1>5, <1>6, <1>7, <1>8, <1>9, <1>10, <1>11,
     <1>12, <1>13, <1>14, <1>15, <1>16, <1>17, <1>18, <1>19, <1>20, <1>21,
     <1>22, <1>23, <1>24, <1>25, <1>26 DEF FfNext, ToolsStep, PreviewStep

-----------------------------------------------------------------------------
LEMMA ToolsNextInv == ToolsInv /\ [FfNext]_ffVars => ToolsInv'
BY ToolsTypeStep, OrderStep, DamageStep, PlaceStep, PreviewStepKeeps DEF ToolsInv

(* Every reachable state satisfies the invariant.                          *)
THEOREM ToolsInvariance == FfSpec => []ToolsInv
BY ToolsNextInv, ToolsInitInv, PTL DEF FfSpec

(* Every variable keeps its type.                                          *)
THEOREM ToolsTypeCorrect == FfSpec => []FfTypeOK
<1>1. ToolsInv => FfTypeOK
  BY DEF ToolsInv
<1> QED
  BY <1>1, ToolsInvariance, PTL

(* However often a replacement is cut off, _apply_bundle and _save_state   *)
(* leave a record that is behind the channel.                              *)
THEOREM DamageRepaired == FfSpec => []DamageIsBehind
<1>1. ToolsInv => DamageIsBehind
  BY DEF ToolsInv
<1> QED
  BY <1>1, ToolsInvariance, PTL

(* However many previews run beside, one that meets no replacement is made.*)
THEOREM QuietPreviewsMade == FfSpec => []QuietPreviewIsMade
<1>1. ToolsInv => QuietPreviewIsMade
  BY DEF ToolsInv, PreviewsInOrder, PreviewInOrder, QuietPreviewIsMade
<1> QED
  BY <1>1, ToolsInvariance, PTL

-----------------------------------------------------------------------------
(* The three channels, as they are model-checked. *)

(* A sync that calls no browser leaves the calls as they are.              *)
LEMMA BesideStep ==
  ASSUME OpenInv, Next, UNCHANGED openVars
  PROVE  OpenInv'
<1>1. SyncInv'
  BY NextInv DEF OpenInv
<1>2. SiteTypeOK'
  BY <1>1 DEF OpenInv, SyncInv, SiteTypeOK, openVars, call
<1>3. OpenSound' /\ ShownOnce'
  BY DEF OpenInv, OpenSound, ShownOnce, Later, Pending, openVars, call
<1> QED
  BY <1>1, <1>2, <1>3 DEF OpenInv

(* Every step of the three is one of the pages, of the pages beside the    *)
(* browser or of the tools; the others stand still.                        *)
LEMMA ChannelsStep ==
  ASSUME [SyncNext]_syncVars
  PROVE  /\ [SiteNext]_siteVars \/ (Next /\ UNCHANGED openVars)
         /\ [FfNext]_ffVars
         /\ UNCHANGED part
<1> DEFINE Goal == /\ [SiteNext]_siteVars \/ (Next /\ UNCHANGED openVars)
                   /\ [FfNext]_ffVars
                   /\ UNCHANGED part
<1>1. ASSUME NEW t \in Thread, Fetch(t) \/ SyncStep(t) \/ Fails(t), Sites PROVE Goal
  BY <1>1 DEF Sites, Next, Proceeds
<1>2. ASSUME NEW t \in Thread, Applied(t), Requests PROVE Goal
  BY <1>2 DEF Requests, Next, Proceeds
<1>3. ASSUME NEW t \in Thread, Concludes(t), Browser PROVE Goal
  BY <1>3 DEF Browser, SiteNext
<1>4. ASSUME (Publish /\ Sites) \/ (Restart /\ Requests) PROVE Goal
  BY <1>4 DEF Sites, Requests, Next
<1>5. ASSUME NEW x \in Caller, Asks(x) \/ ShowFails(x) \/ NoteFails(x), Browser PROVE Goal
  BY <1>5 DEF Browser, SiteNext
<1>6. ASSUME (Restarts \/ Upgrade) /\ Browser PROVE Goal
  BY <1>6 DEF Browser, SiteNext
<1>7. ASSUME ToolsStep \/ OfferNext \/ SyncFails \/ NodeKilled, Tools
      PROVE  Goal
  BY <1>7 DEF Tools, FfNext
<1>8. ASSUME NEW j \in Job, PreviewStep(j), Tools PROVE Goal
  BY <1>8 DEF Tools, FfNext
<1>9. ASSUME UNCHANGED syncVars PROVE Goal
  BY <1>9 DEF syncVars
<1> HIDE DEF Goal
<1>a. ASSUME NEW t \in Thread,
             \/ Fetches(t) /\ Sites
             \/ SyncStep(t) /\ Sites
             \/ Fails(t) /\ Sites
             \/ Applied(t) /\ Requests
             \/ Concludes(t) /\ Browser
      PROVE  Goal
  BY <1>1, <1>2, <1>3, <1>a DEF Fetches
<1>b. ASSUME SyncNext PROVE Goal
  <2>1. ASSUME NEW t \in Thread,
               \/ Fetches(t) /\ Sites
               \/ (\/ UpToDate(t) \/ Check(t) \/ Prepare(t) \/ TorrentArrives(t)
                   \/ TorrentFails(t) \/ Download(t) \/ BundleGone(t)
                   \/ ArchiveGone(t) \/ SumDiffers(t) \/ Verify(t)
                   \/ Clear(t) \/ Extract(t)
                   \/ ExtractFails(t) \/ OpenNew(t) \/ WriteNew(t) \/ Activate(t)
                   \/ ActivateFails(t) \/ TruncateState(t) \/ SaveState(t)) /\ Sites
               \/ Fails(t) /\ Sites
               \/ Applied(t) /\ Requests
               \/ Concludes(t) /\ Browser
        PROVE  Goal
    BY <1>a, <2>1 DEF SyncStep
  <2>2. ASSUME NEW x \in Caller,
               (\/ Look(x) \/ NothingToShow(x) \/ Show(x) \/ Note(x)
                \/ ShowFails(x) \/ NoteFails(x)) /\ Browser
        PROVE  Goal
    BY <1>5, <2>2 DEF Asks
  <2>3. ASSUME NEW t \in Tool, (RemoveTool(t) \/ BeginCopy(t) \/ EndCopy(t)) /\ Tools
        PROVE  Goal
    BY <1>7, <2>3 DEF ToolsStep
  <2>4. ASSUME NEW j \in Job,
               (\/ FindFfmpeg(j) \/ FindFfprobe(j) \/ Probe(j) \/ Probed(j)
                \/ StartFfmpeg(j) \/ FfmpegEnds(j)) /\ Tools
        PROVE  Goal
    BY <1>8, <2>4 DEF PreviewStep
  <2>5. ASSUME (\/ ReadChannel \/ ToolsUpToDate \/ Compare \/ ByTorrent
                \/ ByTorrentInPart \/ NoTorrent \/ ByHttps \/ OfferWithdrawn
                \/ SumMatches \/ Unpack \/ MoveTools \/ TruncateRecord
                \/ SaveRecord \/ OfferNext \/ SyncFails \/ NodeKilled) /\ Tools
        PROVE  Goal
    BY <1>7, <2>5 DEF ToolsStep
  <2> QED
    BY <1>4, <1>6, <1>b, <2>1, <2>2, <2>3, <2>4, <2>5 DEF SyncNext
<1> QED
  BY <1>9, <1>b DEF Goal

ChannelsInv == part \in {"requests", "browser", "tools"} /\ OpenInv /\ ToolsInv

(* The invariants of pages, browser and tools hold of the three together.  *)
THEOREM ChannelsInvariance == SyncSpec => []ChannelsInv
<1>1. SyncInit => ChannelsInv
  BY OpenInitInv, ToolsInitInv DEF SyncInit, ChannelsInv
<1>2. ASSUME ChannelsInv, [SyncNext]_syncVars PROVE ChannelsInv'
  <2>1. OpenInv'
    BY <1>2, ChannelsStep, OpenNextInv, BesideStep DEF ChannelsInv
  <2>2. ToolsInv'
    BY <1>2, ChannelsStep, ToolsNextInv DEF ChannelsInv
  <2> QED
    BY <1>2, <2>1, <2>2, ChannelsStep DEF ChannelsInv
<1> QED
  BY <1>1, <1>2, PTL DEF SyncSpec

(* Every variable of the three channels keeps its type.                    *)
THEOREM ChannelsTypeCorrect == SyncSpec => []SyncTypeOK
<1>1. ChannelsInv => SyncTypeOK
  BY DEF ChannelsInv, OpenInv, ToolsInv, SyncTypeOK
<1> QED
  BY <1>1, ChannelsInvariance, PTL

(* What the safety checks of the three channels check on a small instance: *)
(* what a sync calls applied, recorded or served is so, no revision is     *)
(* shown twice, a damaged tool is fetched again, and a preview that meets  *)
(* no replacement is made.                                                 *)
THEOREM ChannelsSafe ==
  SyncSpec => [](/\ QuietSyncApplies /\ FilesTellTheTruth /\ ShownOnce
                 /\ DamageIsBehind /\ QuietPreviewIsMade)
<1>1. ChannelsInv => /\ QuietSyncApplies /\ FilesTellTheTruth /\ ShownOnce
  BY DEF ChannelsInv, OpenInv, SyncInv, SoleSync, Staged, QuietSyncApplies, Idle
<1>2. ChannelsInv => DamageIsBehind /\ QuietPreviewIsMade
  BY DEF ChannelsInv, ToolsInv, PreviewsInOrder, PreviewInOrder, QuietPreviewIsMade
<1> QED
  BY <1>1, <1>2, ChannelsInvariance, PTL

(* No step of the three channels serves older pages, unless syncs meet.    *)
THEOREM ChannelsForward == SyncSpec => NoDowngrade
<1>1. ASSUME ChannelsInv, [SyncNext]_syncVars PROVE [active' >= active \/ overlapped]_active
  <2>1. SyncInv /\ ([Next]_vars \/ OtherFault)
    BY <1>1, ChannelsStep, SitesStep DEF ChannelsInv, OpenInv
  <2>2. CASE [Next]_vars
    BY <2>1, <2>2, ForwardStep
  <2>3. CASE OtherFault
    BY <2>3 DEF OtherFault, NoSync, disk
  <2> QED
    BY <2>1, <2>2, <2>3
<1> QED
  BY <1>1, ChannelsInvariance, PTL DEF SyncSpec, NoDowngrade
=============================================================================
