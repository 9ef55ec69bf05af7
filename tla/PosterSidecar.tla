------------------------------ MODULE PosterSidecar ------------------------------
(***************************************************************************)
(* The poster beside an image, {stem}_poster.jpg (libs/media/              *)
(* poster_sidecar.py): when an index task takes it for up to date, and the *)
(* statements by which image_poster tasks make it, in several threads.     *)
(* Images that differ in their extension only have one poster together.    *)
(*                                                                         *)
(* The poster is saved in place, and saved once more with the metadata     *)
(* (_merge_exif_into_poster): twice it is empty for a while, with a time   *)
(* of its own that is later than that of the image.  The first save goes   *)
(* out in one write (optimize gives the encoder a buffer for the whole     *)
(* poster); the second in blocks of 64 KiB, of which other tasks may see   *)
(* or overwrite some: here a first block and the rest.                     *)
(***************************************************************************)
EXTENDS Naturals, FiniteSets

CONSTANTS
  Image,                 \* images of one stem
  Maker,                 \* threads of the pool that make posters
  NoPoster, Empty,       \* no file; an empty one
  Mixed,                 \* a part of a poster, or blocks of several
  NoImage,
  DueLimit,              \* bound on tasks waiting for one image
  EditLimit,             \* bound on changes of the images
  TroubleLimit           \* bound on failures and restarts

Picture == Image \X {"now", "before"}   \* an image as it is, or as it was

ASSUME PosterAssumption ==
  /\ {NoPoster, Empty, Mixed} \cap Picture = {} /\ NoImage \notin Image
  /\ NoPoster # Empty /\ NoPoster # Mixed /\ Empty # Mixed
  /\ Image # {}
  /\ DueLimit \in Nat /\ EditLimit \in Nat /\ TroubleLimit \in Nat

VARIABLES
  poster,                \* the file
  newer,                 \* images with a later time than the poster
  queued,                \* image_poster tasks in the queue
  step, source,          \* a task that runs: its next statement, its image,
  picture, created,      \* what it holds of it, was there no file before?
  unlinked,              \* has the file it has open been removed?
  disturbed,             \* has another opened or written the file since it
                         \* began to read, or to write in blocks?
  excused, met,          \* history: since the poster was last opened, has
                         \* happened what mtimes cannot tell, or have several
                         \* tasks been at it?
  edits, troubles

making     == <<step, source, picture, created, unlinked, disturbed>>
history    == <<excused, met>>
posterVars == <<poster, newer, queued, making, history, edits, troubles>>

Step == {"idle", "read", "look", "open", "write", "load",
         "relook", "reopen", "rewrite", "rest"}

PosterTypeOK ==
  /\ poster \in Picture \cup {NoPoster, Empty, Mixed} /\ newer \subseteq Image
  /\ queued \in [Image -> 0..DueLimit]
  /\ step \in [Maker -> Step]
  /\ source \in [Maker -> Image \cup {NoImage}]
  /\ picture \in [Maker -> Picture \cup {Empty, Mixed}]
  /\ created \subseteq Maker /\ unlinked \subseteq Maker /\ disturbed \subseteq Maker
  /\ excused \in BOOLEAN /\ met \in BOOLEAN
  /\ edits \in 0..EditLimit /\ troubles \in 0..TroubleLimit

PosterInit ==
  /\ poster = NoPoster /\ newer = {}
  /\ queued = [i \in Image |-> 0]
  /\ step = [m \in Maker |-> "idle"] /\ source = [m \in Maker |-> NoImage]
  /\ picture = [m \in Maker |-> Empty]
  /\ created = {} /\ unlinked = {} /\ disturbed = {}
  /\ excused = FALSE /\ met = FALSE /\ edits = 0 /\ troubles = 0

-----------------------------------------------------------------------------
(* Mutant: a poster that is there is up to date.                           *)
UpToDateOnceThere(i) == poster # NoPoster

(* poster_up_to_date: an empty file counts like any other.                 *)
UpToDate(i) == poster # NoPoster /\ i \notin newer

(* An index task comes to the image; without a poster to make, it marks    *)
(* the preview ready.                                                      *)
EnqueuePoster(i) ==
  /\ ~UpToDate(i)
  /\ queued[i] < DueLimit
  /\ queued' = [queued EXCEPT ![i] = @ + 1]
  /\ UNCHANGED <<poster, newer, making, history, edits, troubles>>

StepsTo(m, s) == step' = [step EXCEPT ![m] = s]

TaskEnds(m) ==
  /\ StepsTo(m, "idle")
  /\ source' = [source EXCEPT ![m] = NoImage]
  /\ picture' = [picture EXCEPT ![m] = Empty]
  /\ created' = created \ {m}

TakeTask(m, i) ==
  /\ step[m] = "idle" /\ queued[i] > 0
  /\ queued' = [queued EXCEPT ![i] = @ - 1]
  /\ source' = [source EXCEPT ![m] = i]
  /\ StepsTo(m, "read")
  /\ UNCHANGED <<poster, newer, picture, created, unlinked, disturbed, history, edits,
                 troubles>>

(* The pixels are in memory from here on.                                  *)
ReadImage(m) ==
  /\ step[m] = "read"
  /\ picture' = [picture EXCEPT ![m] = <<source[m], "now">>]
  /\ StepsTo(m, "look")
  /\ UNCHANGED <<poster, newer, queued, source, created, unlinked, disturbed, history,
                 edits, troubles>>

(* Pillow's save, the first and the second: is there a file already?  Then *)
(* it is opened for writing.                                               *)
LookForPoster(m) ==
  /\ step[m] \in {"look", "relook"}
  /\ created' = IF poster = NoPoster THEN created \cup {m} ELSE created \ {m}
  /\ StepsTo(m, IF step[m] = "look" THEN "open" ELSE "reopen")
  /\ UNCHANGED <<poster, newer, queued, source, picture, unlinked, disturbed, history,
                 edits, troubles>>

Writing(m)  == step[m] \in {"write", "rewrite", "rest"}
OnPoster(m) == Writing(m) /\ m \notin unlinked     \* not on a file since removed

(* Who reads the poster, or writes it in blocks, meets what m does to it.  *)
Disturbs(m) == disturbed' = {n \in Maker \ {m} : step[n] \in {"load", "rest"}}

(* What was there is gone; what will be depends on who has it open now.    *)
OpenPoster(m) ==
  /\ step[m] \in {"open", "reopen"}
  /\ poster' = Empty /\ newer' = {}
  /\ unlinked' = unlinked \ {m}
  /\ Disturbs(m)
  /\ met' = (picture[m] = Mixed \/ \E n \in Maker \ {m} : OnPoster(n))
  /\ excused' = \E n \in Maker : /\ n = m \/ OnPoster(n)
                                /\ \E i \in Image : picture[n] = <<i, "before">>
  /\ StepsTo(m, IF step[m] = "open" THEN "write" ELSE "rewrite")
  /\ UNCHANGED <<queued, source, picture, created, edits, troubles>>

(* What m writes leaves one of these in the file.                          *)
Puts(m, outcomes) ==
  IF m \in unlinked THEN UNCHANGED <<poster, newer>> /\ disturbed' = disturbed \ {m}
                    ELSE poster' \in outcomes /\ newer' = {} /\ Disturbs(m)

WritePoster(m) ==
  /\ step[m] = "write"
  /\ Puts(m, {picture[m]})
  /\ StepsTo(m, "load")
  /\ UNCHANGED <<queued, source, picture, created, unlinked, history, edits, troubles>>

(* Is the poster, or what m reads of it, that of one task?                 *)
Outcomes(m, whole) == IF m \in disturbed THEN {whole, Mixed} ELSE {whole}

(* What is there is read, whoever made it; parts of it may decode.         *)
LoadPoster(m) ==
  /\ step[m] = "load" /\ poster \notin {NoPoster, Empty}
  /\ \E p \in Outcomes(m, poster) : picture' = [picture EXCEPT ![m] = p]
  /\ disturbed' = disturbed \ {m}
  /\ StepsTo(m, "relook")
  /\ UNCHANGED <<poster, newer, queued, source, created, unlinked, history, edits, troubles>>

(* What is empty or does not decode is left as it is.                      *)
NothingToLoad(m) ==
  /\ step[m] = "load" /\ (poster \notin Picture \/ m \in disturbed)
  /\ disturbed' = disturbed \ {m}
  /\ TaskEnds(m)
  /\ UNCHANGED <<poster, newer, queued, unlinked, history, edits, troubles>>

(* The second save: its first block, and the others.                       *)
RewritePoster(m) ==
  /\ step[m] = "rewrite"
  /\ Puts(m, {Mixed})
  /\ StepsTo(m, "rest")
  /\ UNCHANGED <<queued, source, picture, created, unlinked, history, edits, troubles>>

WriteRest(m) ==
  /\ step[m] = "rest"
  /\ Puts(m, Outcomes(m, picture[m]))
  /\ TaskEnds(m)
  /\ UNCHANGED <<queued, unlinked, history, edits, troubles>>

-----------------------------------------------------------------------------
(* Failures, restarts and changes. *)
Trouble == troubles < TroubleLimit /\ troubles' = troubles + 1

(* The image cannot be read, or the poster not be opened.                  *)
CannotStart(m) ==
  /\ step[m] \in {"read", "look", "open", "load", "relook", "reopen"}
  /\ Trouble
  /\ disturbed' = disturbed \ {m}
  /\ TaskEnds(m)
  /\ UNCHANGED <<poster, newer, queued, unlinked, history, edits>>

(* The disk is full, or the metadata are too long for a JPEG.  Pillow      *)
(* removes the file if there was none when it looked, whoever has made the *)
(* one that is there, and leaves it cut off otherwise.  Of the second save *)
(* the error is only logged: the preview counts as ready.                  *)
SaveFails(m) ==
  /\ Writing(m)
  /\ Trouble
  /\ IF m \in created
     THEN /\ poster' = NoPoster
          /\ unlinked' = unlinked \cup {n \in Maker : Writing(n)}
          /\ UNCHANGED excused
     ELSE /\ excused' = (excused \/ m \notin unlinked)
          /\ UNCHANGED <<poster, unlinked>>
  /\ disturbed' = disturbed \ {m}
  /\ TaskEnds(m)
  /\ UNCHANGED <<newer, queued, met, edits>>

MakersStop ==
  /\ Trouble
  /\ excused' = (excused \/ \E m \in Maker : OnPoster(m))
  /\ step' = [m \in Maker |-> "idle"] /\ source' = [m \in Maker |-> NoImage]
  /\ picture' = [m \in Maker |-> Empty]
  /\ created' = {} /\ unlinked' = {} /\ disturbed' = {}
  /\ UNCHANGED <<poster, newer, queued, met, edits>>

(* The image is replaced, by one of today or one that keeps its old time.  *)
(* What has been read of it is then of the image before.                   *)
Edit(i, keepsTime) ==
  LET aged(p) == IF p = <<i, "now">> THEN <<i, "before">> ELSE p IN
  /\ edits < EditLimit
  /\ edits' = edits + 1
  /\ newer' = IF keepsTime THEN newer ELSE newer \cup {i}
  /\ poster' = aged(poster)
  /\ picture' = [m \in Maker |-> aged(picture[m])]
  /\ excused' = \/ excused
                \/ keepsTime /\ poster = <<i, "now">>
                \/ \E m \in Maker : OnPoster(m) /\ picture[m] = <<i, "now">>
  /\ UNCHANGED <<queued, step, source, created, unlinked, disturbed, met, troubles>>

Makes(m) ==
  \/ \E i \in Image : TakeTask(m, i)
  \/ ReadImage(m) \/ LookForPoster(m) \/ OpenPoster(m) \/ WritePoster(m)
  \/ LoadPoster(m) \/ NothingToLoad(m) \/ RewritePoster(m) \/ WriteRest(m)

PosterNext ==
  \/ \E i \in Image : EnqueuePoster(i)
  \/ \E m \in Maker : Makes(m) \/ CannotStart(m) \/ SaveFails(m)
  \/ MakersStop
  \/ \E i \in Image, keepsTime \in BOOLEAN : Edit(i, keepsTime)

PosterSpec == PosterInit /\ [][PosterNext]_posterVars

-----------------------------------------------------------------------------
(* Properties. *)

(* When no task is at it and no image would get a new one, the poster      *)
(* shows an image of its stem as it is now; only when, since it was last   *)
(* opened, several tasks were at it at once may it be damaged.  Excused,   *)
(* until it is opened next, is what its time cannot tell: an image         *)
(* replaced while it was written or by one that keeps its time, a save cut *)
(* off (poster_sidecar.py:133, 62, 168).  Nothing worse outlives the next  *)
(* task that makes the poster alone.                                       *)
PosterIsCurrent ==
  \/ excused
  \/ \E m \in Maker : step[m] # "idle"
  \/ \E i \in Image : ~UpToDate(i)
  \/ \E i \in Image : poster = <<i, "now">>
  \/ met /\ poster = Mixed
=============================================================================
