------------------------------- MODULE MCSync -------------------------------
(* The three channels of a node on small instances: the pages while a      *)
(* request syncs beside the loop, the pages while the loop and the starter *)
(* show them, and the tools.  Pages and tools share no variable, and no    *)
(* property speaks of both, so that a behaviour of one part, chosen at the *)
(* start, shows all that their interleavings would.                        *)
EXTENDS SiteOpen, FfmpegSync

VARIABLE part

syncVars == <<siteVars, ffVars, part>>

SyncTypeOK ==
  /\ part \in {"requests", "browser", "tools"}
  /\ SiteTypeOK /\ FfTypeOK

SyncInit ==
  /\ part \in {"requests", "browser", "tools"}
  /\ SiteInit /\ FfInit
  /\ part # "tools" => ~windows /\ ~across /\ ~bundled

Sites    == part # "tools"     /\ UNCHANGED <<openVars, ffVars, part>>
Requests == part = "requests"  /\ UNCHANGED <<openVars, ffVars, part>>
Browser  == part = "browser"   /\ UNCHANGED <<ffVars, part>>
Tools    == part = "tools"     /\ UNCHANGED <<siteVars, part>>

(* In part "browser" the requests sync no pages.                           *)
Fetches(t)  == (t = Loop \/ part = "requests") /\ Fetch(t)
Finishes(t) == (Applied(t) /\ Requests) \/ (Concludes(t) /\ Browser)

SyncNext ==
  \/ \E t \in Thread :
       \/ Fetches(t) /\ Sites
       \/ UpToDate(t) /\ Sites
       \/ Check(t) /\ Sites
       \/ Prepare(t) /\ Sites
       \/ TorrentArrives(t) /\ Sites
       \/ TorrentFails(t) /\ Sites
       \/ Download(t) /\ Sites
       \/ BundleGone(t) /\ Sites
       \/ ArchiveGone(t) /\ Sites
       \/ SumDiffers(t) /\ Sites
       \/ Verify(t) /\ Sites
       \/ Clear(t) /\ Sites
       \/ Extract(t) /\ Sites
       \/ ExtractFails(t) /\ Sites
       \/ OpenNew(t) /\ Sites
       \/ WriteNew(t) /\ Sites
       \/ Activate(t) /\ Sites
       \/ ActivateFails(t) /\ Sites
       \/ TruncateState(t) /\ Sites
       \/ SaveState(t) /\ Sites
       \/ Fails(t) /\ Sites
       \/ Applied(t) /\ Requests
       \/ Concludes(t) /\ Browser
  \/ Publish /\ Sites
  \/ Restart /\ Requests
  \/ \E x \in Caller :
       \/ Look(x) /\ Browser
       \/ NothingToShow(x) /\ Browser
       \/ Show(x) /\ Browser
       \/ Note(x) /\ Browser
       \/ ShowFails(x) /\ Browser
       \/ NoteFails(x) /\ Browser
  \/ Restarts /\ Browser
  \/ Upgrade /\ Browser
  \/ ReadChannel /\ Tools
  \/ ToolsUpToDate /\ Tools
  \/ Compare /\ Tools
  \/ ByTorrent /\ Tools
  \/ ByTorrentInPart /\ Tools
  \/ NoTorrent /\ Tools
  \/ ByHttps /\ Tools
  \/ OfferWithdrawn /\ Tools
  \/ SumMatches /\ Tools
  \/ Unpack /\ Tools
  \/ \E tool \in Tool :
       \/ RemoveTool(tool) /\ Tools
       \/ BeginCopy(tool) /\ Tools
       \/ EndCopy(tool) /\ Tools
  \/ MoveTools /\ Tools
  \/ TruncateRecord /\ Tools
  \/ SaveRecord /\ Tools
  \/ \E j \in Job :
       \/ FindFfmpeg(j) /\ Tools
       \/ FindFfprobe(j) /\ Tools
       \/ Probe(j) /\ Tools
       \/ Probed(j) /\ Tools
       \/ StartFfmpeg(j) /\ Tools
       \/ FfmpegEnds(j) /\ Tools
  \/ OfferNext /\ Tools
  \/ SyncFails /\ Tools
  \/ NodeKilled /\ Tools

(* The fairness of SiteSync, SiteOpen and FfmpegSync.                      *)
SyncFairness ==
  /\ WF_syncVars(Fetch(Loop) /\ Sites)
  /\ \A t \in Thread : WF_syncVars((SyncStep(t) /\ Sites) \/ Finishes(t))
  /\ \A x \in Caller : WF_syncVars(Asks(x) /\ Browser)
  /\ WF_syncVars(ToolsStep /\ Tools)

SyncSpec == SyncInit /\ [][SyncNext]_syncVars /\ SyncFairness

(* The liveness properties, each of its part: the revision published last  *)
(* arrives and is shown, the tools offered last arrive.                    *)
PagesArrive == part # "tools" => SiteArrives
PagesShown  == part = "browser" => LastIsShown
ToolsComing == part = "tools" => ToolsArrive

(* Whatever is published last is in the end installed, and pages are       *)
(* shown, unless torrents end in part for ever.                            *)
ChannelsArrive == PagesArrive /\ PagesShown /\ ToolsComing
=============================================================================
