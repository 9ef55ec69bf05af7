------------------------------- MODULE FfmpegSync -------------------------------
(***************************************************************************)
(* libs/site_sync/ffmpeg_sync.py: one thread of the node keeps ffmpeg and  *)
(* ffprobe in vendor/ffmpeg at the revision the master offers, while the   *)
(* task workers look the two up (libs/system/ffmpeg_paths.py) and run them *)
(* to make the preview of a video (pipeline._run_video_ffmpeg).  Nothing   *)
(* keeps the two apart: the tools are removed one by one and then moved or,*)
(* from a temporary directory on another file system, copied into place.   *)
(* On Windows a program that runs cannot be removed; the directory stays   *)
(* with it, and shutil.move puts the new tools into a directory inside,    *)
(* where nobody looks.                                                     *)
(*                                                                         *)
(* Of a tool its revision is kept, or that it is not there or only in      *)
(* part.  A revision 0 stands for a record that is missing or empty.       *)
(***************************************************************************)
EXTENDS Naturals

CONSTANTS
  Job,                   \* previews of videos
  OfferLimit,            \* bound on revisions
  MishapLimit            \* bound on failures and restarts

ASSUME FfmpegAssumption == OfferLimit \in Nat \ {0} /\ MishapLimit \in Nat

Tool    == {"ffmpeg", "ffprobe"}
Offer   == 1..OfferLimit
Partial == OfferLimit + 1

VARIABLES
  offered,               \* revision in ffmpeg_channel.json of the master
  windows, across,       \* is it Windows?  is the move a copy?
  bundled,               \* are there tools in the payload or on the PATH?
  vendor,                \* what vendor/ffmpeg holds of each tool
  recorded,              \* revision in channel_state.json
  turn, wanted,          \* the sync: its next statement and its revision,
  sound, todo,           \* is its archive what it should be?  tools to go
  doing,                 \* a preview: its next statement,
  found,                 \* where it found each tool,
  measured,              \* has ffprobe told it the size of the video?
  met,                   \* history: previews during which tools were replaced
  torn,                  \* history: has the last replacement been cut off,
  held,                  \* or been held up by a program that ran?
  mishaps

platform == <<windows, across, bundled>>
sync     == <<turn, wanted, sound, todo>>
previews == <<doing, found, measured>>
ffVars   == <<offered, platform, vendor, recorded, sync, previews, met, torn, held,
              mishaps>>

Turn  == {"idle", "compare", "torrent", "https", "verify", "unpack", "remove", "copy",
          "trunc", "save"}
Doing == {"new", "seek", "probe", "probing", "frame", "framing", "film", "filming",
          "done", "failed", "orphan"}

FfTypeOK ==
  /\ offered \in Offer
  /\ windows \in BOOLEAN /\ across \in BOOLEAN /\ bundled \in BOOLEAN
  /\ vendor \in [Tool -> 0..Partial] /\ recorded \in 0..OfferLimit
  /\ turn \in Turn /\ wanted \in 0..OfferLimit /\ sound \in BOOLEAN
  /\ todo \subseteq Tool
  /\ doing \in [Job -> Doing]
  /\ found \in [Job -> [Tool -> {"none", "vendor", "bundled"}]]
  /\ measured \subseteq Job /\ met \subseteq Job
  /\ torn \in BOOLEAN /\ held \in BOOLEAN /\ mishaps \in 0..MishapLimit

FfInit ==
  /\ offered = 1
  /\ windows \in BOOLEAN /\ across \in BOOLEAN /\ bundled \in BOOLEAN
  /\ vendor = [t \in Tool |-> 0] /\ recorded = 0
  /\ turn = "idle" /\ wanted = 0 /\ sound = TRUE /\ todo = {}
  /\ doing = [j \in Job |-> "new"]
  /\ found = [j \in Job |-> [t \in Tool |-> "none"]]
  /\ measured = {} /\ met = {} /\ torn = FALSE /\ held = FALSE
  /\ mishaps = 0

-----------------------------------------------------------------------------
Turns(s)   == turn' = s
Does(j, s) == doing' = [doing EXCEPT ![j] = s]

Replacing == turn \in {"remove", "copy"}
Underway  == {j \in Job : doing[j] \notin {"new", "done", "failed", "orphan"}}

(* The programs of vendor/ffmpeg that run.                                 *)
Runs(j) == CASE doing[j] = "probing"                          -> {"ffprobe"}
             [] doing[j] \in {"framing", "filming", "orphan"} -> {"ffmpeg"}
             [] OTHER                                         -> {}
Busy(t) == \E j \in Job : t \in Runs(j) /\ found[j][t] = "vendor"

(* sync_ffmpeg_once ends; the next is 42 s later.                          *)
SyncEnds ==
  /\ Turns("idle")
  /\ wanted' = 0 /\ sound' = TRUE /\ todo' = {}

-----------------------------------------------------------------------------
(* The channel and the archive. *)
ReadChannel ==
  /\ turn = "idle"
  /\ wanted' = offered
  /\ Turns("compare")
  /\ UNCHANGED <<offered, platform, vendor, recorded, sound, todo, previews, met, torn,
                 held, mishaps>>

(* Mutant: a node that is one revision behind counts as up to date.        *)
OutdatedByTwo == wanted > recorded + 1

Outdated == wanted > recorded

ToolsUpToDate ==
  /\ turn = "compare"
  /\ ~Outdated
  /\ SyncEnds
  /\ UNCHANGED <<offered, platform, vendor, recorded, previews, met, torn, held, mishaps>>

(* A channel offers a magnet or torrent, or HTTPS only.                    *)
Compare ==
  /\ turn = "compare"
  /\ Outdated
  /\ \E s \in {"torrent", "https"} : Turns(s)
  /\ UNCHANGED <<offered, platform, vendor, recorded, wanted, sound, todo, previews, met,
                 torn, held, mishaps>>

ByTorrent ==
  /\ turn = "torrent"
  /\ Turns("verify")
  /\ UNCHANGED <<offered, platform, vendor, recorded, wanted, sound, todo, previews, met,
                 torn, held, mishaps>>

(* At 99.9 % the download counts as finished, in this round and any other. *)
ByTorrentInPart ==
  /\ turn = "torrent"
  /\ sound' = FALSE
  /\ Turns("verify")
  /\ UNCHANGED <<offered, platform, vendor, recorded, wanted, todo, previews, met, torn,
                 held, mishaps>>

NoTorrent ==
  /\ turn = "torrent"
  /\ Turns("https")
  /\ UNCHANGED <<offered, platform, vendor, recorded, wanted, sound, todo, previews, met,
                 torn, held, mishaps>>

ByHttps ==
  /\ turn = "https"
  /\ Turns("verify")
  /\ UNCHANGED <<offered, platform, vendor, recorded, wanted, sound, todo, previews, met,
                 torn, held, mishaps>>

(* The master has removed the archive of an earlier revision.              *)
OfferWithdrawn ==
  /\ turn = "https"
  /\ wanted # offered
  /\ SyncEnds
  /\ UNCHANGED <<offered, platform, vendor, recorded, previews, met, torn, held, mishaps>>

(* HTTPS is not tried for an archive that came by torrent with another sum.*)
SumMatches ==
  /\ turn = "verify"
  /\ IF sound THEN Turns("unpack") /\ UNCHANGED <<wanted, sound, todo>> ELSE SyncEnds
  /\ UNCHANGED <<offered, platform, vendor, recorded, previews, met, torn, held, mishaps>>

-----------------------------------------------------------------------------
(* The replacement: _apply_bundle. *)
(* Mutant: the revision is recorded before the tools are in place.         *)
UnpackRecords ==
  /\ turn = "unpack"
  /\ Turns("remove")
  /\ recorded' = wanted
  /\ todo' = {t \in Tool : vendor[t] # 0}
  /\ met' = met \cup Underway
  /\ UNCHANGED <<offered, platform, vendor, wanted, sound, previews, torn, held, mishaps>>

(* Into a new temporary directory.                                         *)
Unpack ==
  /\ turn = "unpack"
  /\ Turns("remove")
  /\ todo' = {t \in Tool : vendor[t] # 0}
  /\ met' = met \cup Underway
  /\ UNCHANGED <<offered, platform, vendor, recorded, wanted, sound, previews, torn, held,
                 mishaps>>

(* rmtree ignores the errors.                                              *)
RemoveTool(t) ==
  /\ turn = "remove" /\ t \in todo
  /\ vendor' = IF windows /\ Busy(t) THEN vendor ELSE [vendor EXCEPT ![t] = 0]
  /\ todo' = todo \ {t}
  /\ UNCHANGED <<offered, platform, recorded, turn, wanted, sound, previews, met, torn,
                 held, mishaps>>

(* shutil.move: a rename, a copy, or a directory inside what is left.      *)
MoveTools ==
  /\ turn = "remove" /\ todo = {}
  /\ \/ /\ \A t \in Tool : vendor[t] = 0
        /\ ~across
        /\ vendor' = [t \in Tool |-> wanted]
        /\ torn' = FALSE /\ held' = FALSE
        /\ Turns("trunc")
        /\ UNCHANGED todo
     \/ /\ \A t \in Tool : vendor[t] = 0
        /\ across
        /\ todo' = Tool
        /\ Turns("copy")
        /\ UNCHANGED <<vendor, torn, held>>
     \/ /\ \E t \in Tool : vendor[t] # 0
        /\ held' = TRUE
        /\ Turns("trunc")
        /\ UNCHANGED <<vendor, todo, torn>>
  /\ UNCHANGED <<offered, platform, recorded, wanted, sound, previews, met, mishaps>>

BeginCopy(t) ==
  /\ turn = "copy" /\ t \in todo
  /\ \A u \in Tool : vendor[u] # Partial
  /\ vendor' = [vendor EXCEPT ![t] = Partial]
  /\ UNCHANGED <<offered, platform, recorded, sync, previews, met, torn, held, mishaps>>

(* Mutant: one tool is enough.                                             *)
EndCopyAtOne(t) ==
  /\ turn = "copy" /\ vendor[t] = Partial
  /\ vendor' = [vendor EXCEPT ![t] = wanted]
  /\ todo' = {} /\ torn' = FALSE /\ held' = FALSE
  /\ Turns("trunc")
  /\ UNCHANGED <<offered, platform, recorded, wanted, sound, previews, met, mishaps>>

EndCopy(t) ==
  /\ turn = "copy" /\ vendor[t] = Partial
  /\ vendor' = [vendor EXCEPT ![t] = wanted]
  /\ todo' = todo \ {t}
  /\ IF todo' = {} THEN Turns("trunc") /\ torn' = FALSE /\ held' = FALSE
                   ELSE UNCHANGED <<turn, torn, held>>
  /\ UNCHANGED <<offered, platform, recorded, wanted, sound, previews, met, mishaps>>

(* _save_state opens channel_state.json itself.                            *)
TruncateRecord ==
  /\ turn = "trunc"
  /\ recorded' = 0
  /\ Turns("save")
  /\ UNCHANGED <<offered, platform, vendor, wanted, sound, todo, previews, met, torn, held,
                 mishaps>>

SaveRecord ==
  /\ turn = "save"
  /\ recorded' = wanted
  /\ SyncEnds
  /\ UNCHANGED <<offered, platform, vendor, previews, met, torn, held, mishaps>>

-----------------------------------------------------------------------------
(* The preview of a video. *)
(* What is found need not be whole.                                        *)
Lookup(t) == IF vendor[t] # 0 THEN "vendor" ELSE IF bundled THEN "bundled" ELSE "none"

Finds(j, t) == found' = [found EXCEPT ![j][t] = Lookup(t)]

CanRun(j, t) == found[j][t] = "bundled" \/ (found[j][t] = "vendor" /\ vendor[t] \in Offer)

FindFfmpeg(j) ==
  /\ doing[j] = "new"
  /\ Finds(j, "ffmpeg")
  /\ Does(j, IF Lookup("ffmpeg") = "none" THEN "failed" ELSE "seek")
  /\ met' = IF Replacing \/ torn \/ held THEN met \cup {j} ELSE met \ {j}
  /\ UNCHANGED <<offered, platform, vendor, recorded, sync, measured, torn, held, mishaps>>

(* Without ffprobe, and when it fails, the video has no size, no duration. *)
FindFfprobe(j) ==
  /\ doing[j] = "seek"
  /\ Finds(j, "ffprobe")
  /\ Does(j, IF Lookup("ffprobe") = "none" THEN "frame" ELSE "probe")
  /\ UNCHANGED <<offered, platform, vendor, recorded, sync, measured, met, torn, held,
                 mishaps>>

Probe(j) ==
  /\ doing[j] = "probe"
  /\ Does(j, IF CanRun(j, "ffprobe") THEN "probing" ELSE "frame")
  /\ UNCHANGED <<offered, platform, vendor, recorded, sync, found, measured, met, torn,
                 held, mishaps>>

Probed(j) ==
  /\ doing[j] = "probing"
  /\ measured' = measured \cup {j}
  /\ Does(j, "frame")
  /\ UNCHANGED <<offered, platform, vendor, recorded, sync, found, met, torn, held,
                 mishaps>>

(* The poster and the film are made with what was found at first.          *)
StartFfmpeg(j) ==
  /\ doing[j] \in {"frame", "film"}
  /\ Does(j, CASE ~CanRun(j, "ffmpeg")  -> "failed"
               [] doing[j] = "frame"    -> "framing"
               [] doing[j] = "film"     -> "filming")
  /\ UNCHANGED <<offered, platform, vendor, recorded, sync, found, measured, met, torn,
                 held, mishaps>>

FfmpegEnds(j) ==
  /\ doing[j] \in {"framing", "filming", "orphan"}
  /\ Does(j, CASE doing[j] = "framing" -> "film"
               [] doing[j] = "filming" -> "done"
               [] doing[j] = "orphan"  -> "new")
  /\ UNCHANGED <<offered, platform, vendor, recorded, sync, found, measured, met, torn,
                 held, mishaps>>

-----------------------------------------------------------------------------
(* Publications, failures and restarts. *)
OfferNext ==
  /\ offered < OfferLimit
  /\ offered' = offered + 1
  /\ UNCHANGED <<platform, vendor, recorded, sync, previews, met, torn, held, mishaps>>

Mishap == mishaps < MishapLimit /\ mishaps' = mishaps + 1

(* The download, the archive or the disk fails.                            *)
SyncFails ==
  /\ turn \in {"https", "verify", "unpack", "remove", "copy", "trunc", "save"}
  /\ turn = "remove" => todo = {}
  /\ Mishap
  /\ torn' = (torn \/ Replacing)
  /\ SyncEnds
  /\ UNCHANGED <<offered, platform, vendor, recorded, previews, met, held>>

(* The node is killed.  A program it has started may go on.  Another index *)
(* of the share makes a preview of the video again.                        *)
NodeKilled ==
  /\ Mishap
  /\ torn' = (torn \/ Replacing)
  /\ SyncEnds
  /\ doing' = [j \in Job |-> CASE doing[j] \in {"framing", "filming", "orphan"} -> "orphan"
                               [] j \in Underway                                -> "new"
                               [] OTHER                                         -> doing[j]]
  /\ measured' = measured \ Underway
  /\ UNCHANGED <<offered, platform, vendor, recorded, found, met, held>>

ToolsStep ==
  \/ ReadChannel \/ ToolsUpToDate \/ Compare
  \/ ByTorrent \/ ByTorrentInPart \/ NoTorrent \/ ByHttps \/ OfferWithdrawn
  \/ SumMatches \/ Unpack \/ MoveTools
  \/ \E t \in Tool : RemoveTool(t) \/ BeginCopy(t) \/ EndCopy(t)
  \/ TruncateRecord \/ SaveRecord

PreviewStep(j) ==
  \/ FindFfmpeg(j) \/ FindFfprobe(j) \/ Probe(j) \/ Probed(j)
  \/ StartFfmpeg(j) \/ FfmpegEnds(j)

FfNext ==
  \/ ToolsStep
  \/ \E j \in Job : PreviewStep(j)
  \/ OfferNext \/ SyncFails \/ NodeKilled

(* The loop calls sync_ffmpeg_once again every 42 s, whatever it raised,   *)
(* and no statement hangs: every network call has a timeout.               *)
FfFairness == WF_ffVars(ToolsStep)

FfSpec     == FfInit /\ [][FfNext]_ffVars
FfFairSpec == FfSpec /\ FfFairness

-----------------------------------------------------------------------------
(* Properties. *)

(* While vendor/ffmpeg is not what channel_state.json says, whatever cut   *)
(* off the replacement, the record is behind the channel, so that the next *)
(* sync repeats it.  The exception is a replacement that a running program *)
(* has held up: its revision is recorded and not installed (line 216).     *)
DamageIsBehind ==
  held \/ recorded = 0 \/ recorded < offered \/ \A t \in Tool : vendor[t] = recorded

(* A preview that began with ffmpeg in place, none being replaced then or  *)
(* until it ends, is made, in the size of the video.                       *)
QuietPreviewIsMade ==
  \A j \in Job \ met :
    /\ doing[j] = "failed" => found[j]["ffmpeg"] = "none"
    /\ doing[j] = "done" => j \in measured

(* The tools offered last are in the end installed and recorded, in spite  *)
(* of failures and restarts, unless a running program holds them up, or    *)
(* every torrent is taken while its last piece is out (torrent_sync.py:96) *)
(* and HTTPS therefore never tried.                                        *)
ToolsArrive ==
  \/ []<><<ByTorrentInPart>>_ffVars
  \/ <>[](held \/ (recorded = offered /\ \A t \in Tool : vendor[t] = offered))
=============================================================================
