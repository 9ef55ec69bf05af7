------------------------------ MODULE ShareIndex ------------------------------
(***************************************************************************)
(* Indexing of shared folders on a node: the registry (libs/shares), the   *)
(* task handlers (libs/tasks/handlers.py) run by a pool of workers, and    *)
(* the HTTP handlers that add, remove and reindex shares.                  *)
(*                                                                         *)
(* The queue underneath is TaskLifecycle, the specification TaskQueue      *)
(* implements; this module adds what the tasks do.  Each statement on      *)
(* shares.db is a step of its own (registry._lock covers one statement, no *)
(* more).  Two reads or a read and a write are one step only where the     *)
(* steps of other threads between them cannot make a difference; the       *)
(* comments say why.                                                       *)
(***************************************************************************)
EXTENDS Naturals, FiniteSets

CONSTANTS
  Task,          \* task ids
  Worker,        \* threads of the worker pool
  Share,         \* share ids, drawn once (uuid4) and never used again
  Path,          \* relative paths in a shared folder, "*_poster.jpg" excluded
  Kind,          \* Kind[p]: the media type of a path
  NoTask,        \* not a task
  NoJob,         \* the payload of a task that does not exist yet
  NoRow,         \* a file id without a row
  FileLimit,     \* bound on the file ids handed out
  RequestLimit,  \* bound on the requests to index a share
  RestartLimit,  \* bound on the restarts of the process
  FaultLimit     \* bound on the database calls that raise

Media == {"image", "video"}

ASSUME IndexAssumption ==
  /\ Kind \in [Path -> Media \cup {"other"}]
  /\ NoTask \notin Task
  /\ FileLimit \in Nat
  /\ RequestLimit \in Nat
  /\ RestartLimit \in Nat
  /\ FaultLimit \in Nat

FileId == 1 .. FileLimit

VARIABLES
  waiting, running, settled, lost,   \* the queue: see TaskLifecycle
  failed,        \* the settled tasks with status error
  job,           \* job[t]: kind and payload of a task
  share,         \* share[s]: scan_status of the row; "none" before, "removed" after
  file,          \* file[f]: the row of table files with this id, or NoRow
  nextId,        \* AUTOINCREMENT of files.file_id
  due,           \* due[s]: requests about to enqueue an index task for s
  pc, task,      \* each worker: where it is, and the task it has claimed
  walk,          \* index task: the paths os.walk has yet to deliver
  todo,          \* index task: the payloads of the listed files not yet dealt with
  seen,          \* the result of the last COUNT(*): were there any?
  raising,       \* image task: an exception waits for the end of touch
  requests, restarts, faults   \* counted against the bounds

tasks  == <<waiting, running, settled, lost, failed, job>>
tables == <<share, file, nextId>>
local  == <<task, walk, todo, seen, raising>>
limits == <<requests, restarts, faults>>
vars   == <<tasks, tables, due, pc, local, limits>>

Queue == INSTANCE TaskLifecycle

ScanStatus == {"pending", "scanning", "posters_pending", "ready", "error"}

Rows == [share : Share, path : Path, ready : BOOLEAN]

ASSUME RowAssumption == NoRow \notin Rows

Previews == [kind : Media, share : Share, file : FileId, path : Path]
Jobs == [kind : {"index"}, share : Share] \cup Previews

IndexState  == {"index", "clear", "walk", "count", "setscan", "relook",
                "videos", "enqvideos", "images", "enqimages"}
TouchState  == {"final", "pending", "status"}
WorkerState == IndexState \cup {"build", "owner"} \cup TouchState
                 \cup {"done", "fail", "idle", "dead"}

TypeOK ==
  /\ waiting \in SUBSET Task /\ running \in SUBSET Task
  /\ settled \in SUBSET Task /\ lost \in SUBSET Task
  /\ failed \in SUBSET settled
  /\ job \in [Task -> Jobs \cup {NoJob}]
  /\ share \in [Share -> ScanStatus \cup {"none", "removed"}]
  /\ file \in [FileId -> Rows \cup {NoRow}]
  /\ nextId \in 1 .. FileLimit + 1
  /\ due \in [Share -> Nat]
  /\ pc \in [Worker -> WorkerState]
  /\ task \in [Worker -> Task \cup {NoTask}]
  /\ walk \in [Worker -> SUBSET Path]
  /\ todo \in [Worker -> SUBSET Previews]
  /\ seen \in [Worker -> BOOLEAN]
  /\ raising \in [Worker -> BOOLEAN]
  /\ requests \in Nat
  /\ restarts \in Nat
  /\ faults \in Nat

Init ==
  /\ Queue!Init
  /\ failed = {}
  /\ job = [t \in Task |-> NoJob]
  /\ share = [s \in Share |-> "none"]
  /\ file = [f \in FileId |-> NoRow]
  /\ nextId = 1
  /\ due = [s \in Share |-> 0]
  /\ pc = [w \in Worker |-> "idle"]
  /\ task = [w \in Worker |-> NoTask]
  /\ walk = [w \in Worker |-> {}]
  /\ todo = [w \in Worker |-> {}]
  /\ seen = [w \in Worker |-> FALSE]
  /\ raising = [w \in Worker |-> FALSE]
  /\ requests = 0
  /\ restarts = 0
  /\ faults = 0

-----------------------------------------------------------------------------
(* Registry: what the statements of registry.py return or write. *)
Exists(s)     == share[s] \in ScanStatus
RowsOf(s)     == {f \in FileId : file[f] # NoRow /\ file[f].share = s}
Listed(s, k)  == {f \in RowsOf(s) : Kind[file[f].path] = k}
MediaOf(s)    == Listed(s, "image") \cup Listed(s, "video")
Unready(s)    == {f \in MediaOf(s) : ~file[f].ready}

(* UPDATE shares: nothing happens to a row that is gone. *)
SetScanStatus(s, st) ==
  share' = IF Exists(s) THEN [share EXCEPT ![s] = st] ELSE share

(* UPDATE files SET preview_ready=1 WHERE file_id: nothing when it is gone. *)
SetPreviewReady(f) ==
  file' = IF file[f] # NoRow THEN [file EXCEPT ![f].ready = TRUE] ELSE file

DeleteRowsOf(s) ==
  file' = [f \in FileId |-> IF f \in RowsOf(s) THEN NoRow ELSE file[f]]

(* Mutant: no AUTOINCREMENT, the next id is one more than the largest. *)
ReplaceRowReusingIds(s, p) ==
  \E id \in FileId :
    /\ \A f \in FileId : file[f] # NoRow => f < id
    /\ \A g \in 1 .. id - 1 : \E f \in g .. id - 1 : file[f] # NoRow
    /\ file' = [f \in FileId |->
         IF f = id THEN [share |-> s, path |-> p, ready |-> FALSE]
         ELSE IF file[f] # NoRow /\ file[f].share = s /\ file[f].path = p
              THEN NoRow ELSE file[f]]
    /\ nextId' = nextId

(* INSERT OR REPLACE under UNIQUE(share_id, relative_path): the old row    *)
(* goes, the new one has a fresh id and no preview.                        *)
ReplaceRow(s, p) ==
  /\ nextId \in FileId
  /\ file' = [f \in FileId |->
       IF f = nextId THEN [share |-> s, path |-> p, ready |-> FALSE]
       ELSE IF file[f] # NoRow /\ file[f].share = s /\ file[f].path = p
            THEN NoRow ELSE file[f]]
  /\ nextId' = nextId + 1

(* taskq.enqueue *)
Enqueue(t, j) ==
  /\ Queue!Submit(t)
  /\ job' = [job EXCEPT ![t] = j]

NewTask == CHOOSE t \in Task : t \notin Queue!known

CanEnqueue == Task \ Queue!known # {}

IndexJob(s)   == [kind |-> "index", share |-> s]
PreviewJob(f) == [kind |-> Kind[file[f].path], share |-> file[f].share,
                  file |-> f, path |-> file[f].path]

-----------------------------------------------------------------------------
(* HTTP handlers.  A request to index s has been accepted. *)
Accept(s) ==
  /\ requests < RequestLimit
  /\ requests' = requests + 1
  /\ due' = [due EXCEPT ![s] = @ + 1]

(* Mutant: the new share waits for somebody to ask for its index. *)
AddShareUnindexed(s) ==
  /\ share[s] = "none"
  /\ share' = [share EXCEPT ![s] = "pending"]
  /\ UNCHANGED <<tasks, local, file, nextId, due, pc, limits>>

(* POST /api/shares inserts the row and then enqueues; the two are not one *)
(* transaction.                                                            *)
AddShare(s) ==
  /\ share[s] = "none"
  /\ share' = [share EXCEPT ![s] = "pending"]
  /\ Accept(s)
  /\ UNCHANGED <<tasks, local, file, nextId, pc, restarts, faults>>

(* POST /api/tasks/reindex-all has listed share s. *)
ReindexListed(s) ==
  /\ Exists(s)
  /\ Accept(s)
  /\ UNCHANGED <<tasks, tables, local, pc, restarts, faults>>

(* Either of them enqueues the index task; the share may be gone by then. *)
RequestIndex(s) ==
  /\ due[s] > 0
  /\ CanEnqueue
  /\ due' = [due EXCEPT ![s] = @ - 1]
  /\ Enqueue(NewTask, IndexJob(s))
  /\ UNCHANGED <<tables, local, limits, failed, pc>>

(* DELETE /api/shares/<id>: ON DELETE CASCADE takes the files along. *)
RemoveShare(s) ==
  /\ Exists(s)
  /\ share' = [share EXCEPT ![s] = "removed"]
  /\ DeleteRowsOf(s)
  /\ UNCHANGED <<tasks, local, limits, nextId, due, pc>>

-----------------------------------------------------------------------------
(* The worker loop around a handler. *)
Go(w, l) == pc' = [pc EXCEPT ![w] = l]

Job(w) == job[task[w]]

FirstState(j) == IF j.kind = "index" THEN "index" ELSE "build"

Claim(w, t) ==
  /\ pc[w] = "idle"
  /\ Queue!Start(t)
  /\ task' = [task EXCEPT ![w] = t]
  /\ Go(w, FirstState(job[t]))
  /\ UNCHANGED <<tables, limits, failed, job, due, walk, todo, seen, raising>>

(* The worker lets go of its task; its handler's locals are gone. *)
Release(w, l) ==
  /\ Go(w, l)
  /\ task' = [task EXCEPT ![w] = NoTask]
  /\ walk' = [walk EXCEPT ![w] = {}]
  /\ todo' = [todo EXCEPT ![w] = {}]
  /\ seen' = [seen EXCEPT ![w] = FALSE]
  /\ raising' = [raising EXCEPT ![w] = FALSE]

MarkDone(w) ==
  /\ pc[w] = "done"
  /\ Queue!Settle(task[w])
  /\ Release(w, "idle")
  /\ UNCHANGED <<tables, limits, failed, job, due>>

(* Mutant: the error is noted, the row stays in processing. *)
MarkErrorUnsettled(w) ==
  /\ pc[w] = "fail"
  /\ Queue!Lose({task[w]})
  /\ failed' = failed \cup {task[w]}
  /\ Release(w, "idle")
  /\ UNCHANGED <<tables, limits, job, due>>

MarkError(w) ==
  /\ pc[w] = "fail"
  /\ Queue!Settle(task[w])
  /\ failed' = failed \cup {task[w]}
  /\ Release(w, "idle")
  /\ UNCHANGED <<tables, limits, job, due>>

-----------------------------------------------------------------------------
(* _run_index_share.  get_share (40), isdir and the first status of        *)
(* scan_share are one step: if the share is removed between them the       *)
(* UPDATE does nothing, as if it was removed after.                        *)
IndexStart(w) ==
  LET s == Job(w).share IN
  /\ pc[w] = "index"
  /\ \/ Exists(s) /\ SetScanStatus(s, "scanning") /\ Go(w, "clear")
     \/ Exists(s) /\ SetScanStatus(s, "error") /\ Go(w, "relook")
     \/ ~Exists(s) /\ Go(w, "fail") /\ UNCHANGED share
  /\ UNCHANGED <<tasks, local, limits, file, nextId, due>>

(* clear_files; then os.walk starts: any of the paths may be there. *)
ClearFiles(w) ==
  /\ pc[w] = "clear"
  /\ DeleteRowsOf(Job(w).share)
  /\ \E S \in SUBSET Path : walk' = [walk EXCEPT ![w] = S]
  /\ Go(w, "walk")
  /\ UNCHANGED <<tasks, limits, share, nextId, due, task, todo, seen, raising>>

(* add_file for the next path; the foreign key refuses a removed share. *)
AddFile(w, p) ==
  LET s == Job(w).share IN
  /\ pc[w] = "walk"
  /\ p \in walk[w]
  /\ walk' = [walk EXCEPT ![w] = @ \ {p}]
  /\ IF Exists(s)
     THEN ReplaceRow(s, p) /\ UNCHANGED pc
     ELSE Go(w, "fail") /\ UNCHANGED <<file, nextId>>
  /\ UNCHANGED <<tasks, limits, share, due, task, todo, seen, raising>>

WalkEnds(w) ==
  /\ pc[w] = "walk"
  /\ walk[w] = {}
  /\ Go(w, "count")
  /\ UNCHANGED <<tasks, tables, local, limits, due>>

(* Mutant: an empty folder needs no status. *)
CountMediaOrReturn(w) ==
  /\ pc[w] = "count"
  /\ seen' = [seen EXCEPT ![w] = MediaOf(Job(w).share) # {}]
  /\ Go(w, IF seen'[w] THEN "setscan" ELSE "relook")
  /\ UNCHANGED <<tasks, tables, limits, due, task, walk, todo, raising>>

(* set_scan_status_after_filesystem_scan: a COUNT, then an UPDATE. *)
CountMedia(w) ==
  /\ pc[w] = "count"
  /\ seen' = [seen EXCEPT ![w] = MediaOf(Job(w).share) # {}]
  /\ Go(w, "setscan")
  /\ UNCHANGED <<tasks, tables, limits, due, task, walk, todo, raising>>

SetAfterScan(w) ==
  /\ pc[w] = "setscan"
  /\ SetScanStatus(Job(w).share, IF seen[w] THEN "posters_pending" ELSE "ready")
  /\ Go(w, "relook")
  /\ UNCHANGED <<tasks, local, limits, file, nextId, due>>

(* get_share again (46). *)
Relook(w) ==
  /\ pc[w] = "relook"
  /\ Go(w, IF Exists(Job(w).share) THEN "videos" ELSE "fail")
  /\ UNCHANGED <<tasks, tables, local, limits, due>>

ListVideos(w) ==
  /\ pc[w] = "videos"
  /\ todo' = [todo EXCEPT ![w] = {PreviewJob(f) : f \in Listed(Job(w).share, "video")}]
  /\ Go(w, "enqvideos")
  /\ UNCHANGED <<tasks, tables, limits, due, task, walk, seen, raising>>

(* Mutant: no second task for a path that has one, whatever file id the    *)
(* first was made for.                                                     *)
EnqueueOncePerPath(w, j) ==
  /\ pc[w] \in {"enqvideos", "enqimages"}
  /\ j \in todo[w]
  /\ CanEnqueue
  /\ IF \E t \in waiting \cup running : job[t].kind = j.kind /\ job[t].path = j.path
     THEN UNCHANGED <<waiting, running, settled, lost, job>>
     ELSE Enqueue(NewTask, j)
  /\ todo' = [todo EXCEPT ![w] = @ \ {j}]
  /\ UNCHANGED <<tables, limits, failed, due, pc, task, walk, seen, raising>>

(* One file of the listing: a task for its preview. *)
EnqueuePreview(w, j) ==
  /\ pc[w] \in {"enqvideos", "enqimages"}
  /\ j \in todo[w]
  /\ CanEnqueue
  /\ Enqueue(NewTask, j)
  /\ todo' = [todo EXCEPT ![w] = @ \ {j}]
  /\ UNCHANGED <<tables, limits, failed, due, pc, task, walk, seen, raising>>

ListImages(w) ==
  /\ pc[w] = "enqvideos"
  /\ todo[w] = {}
  /\ todo' = [todo EXCEPT ![w] = {PreviewJob(f) : f \in Listed(Job(w).share, "image")}]
  /\ Go(w, "enqimages")
  /\ UNCHANGED <<tasks, tables, limits, due, task, walk, seen, raising>>

(* An image whose poster on disk is newer than it: ready without a task. *)
PosterUpToDate(w, j) ==
  /\ pc[w] = "enqimages"
  /\ j \in todo[w]
  /\ SetPreviewReady(j.file)
  /\ todo' = [todo EXCEPT ![w] = @ \ {j}]
  /\ UNCHANGED <<tasks, limits, share, nextId, due, pc, task, walk, seen,
                 raising>>

IndexEnds(w) ==
  /\ pc[w] = "enqimages"
  /\ todo[w] = {}
  /\ Go(w, "final")
  /\ UNCHANGED <<tasks, tables, local, limits, due>>

-----------------------------------------------------------------------------
(* _run_image_poster and _run_video_preview.  get_share (100) and the      *)
(* rendering are one step with set_preview_ready: the rendering changes    *)
(* nothing here, and a share removed since get_share leaves no row to set. *)
BuildPreview(w) ==
  /\ pc[w] = "build"
  /\ \/ Job(w).kind = "video"
     \/ Exists(Job(w).share)
  /\ SetPreviewReady(Job(w).file)
  /\ Go(w, IF Job(w).kind = "video" THEN "owner" ELSE "final")
  /\ UNCHANGED <<tasks, local, limits, share, nextId, due>>

(* The share is gone, or a video cannot be read or rendered: the handler   *)
(* raises at once.                                                         *)
PreviewFails(w) ==
  /\ pc[w] = "build"
  /\ \/ Job(w).kind = "video"
     \/ ~Exists(Job(w).share)
  /\ Go(w, "fail")
  /\ UNCHANGED <<tasks, tables, local, limits, due>>

(* An image cannot be rendered: touch in the except branch, then raise. *)
PosterFails(w) ==
  /\ pc[w] = "build"
  /\ Job(w).kind = "image"
  /\ Exists(Job(w).share)
  /\ raising' = [raising EXCEPT ![w] = TRUE]
  /\ Go(w, "final")
  /\ UNCHANGED <<tasks, tables, limits, due, task, walk, todo, seen>>

(* _preview_done: get_share_id_for_file finds no share when the row is     *)
(* gone, and nothing is touched.                                           *)
FindOwner(w) ==
  /\ pc[w] = "owner"
  /\ Go(w, IF file[Job(w).file] # NoRow THEN "final" ELSE "done")
  /\ UNCHANGED <<tasks, tables, local, limits, due>>

-----------------------------------------------------------------------------
(* index_manifest.touch: try_finalize_scan_status reads the share, counts  *)
(* the media without a preview, and writes a status.  The manifest it then *)
(* writes is read by nobody.                                               *)
AfterTouch(w) == IF raising[w] THEN "fail" ELSE "done"

ReadShare(w) ==
  /\ pc[w] = "final"
  /\ Go(w, IF Exists(Job(w).share) /\ share[Job(w).share] # "error"
           THEN "pending" ELSE AfterTouch(w))
  /\ UNCHANGED <<tasks, tables, local, limits, due>>

(* Mutant: only images are counted. *)
CountPendingImages(w) ==
  /\ pc[w] = "pending"
  /\ seen' = [seen EXCEPT ![w] =
       \E f \in Listed(Job(w).share, "image") : ~file[f].ready]
  /\ Go(w, "status")
  /\ UNCHANGED <<tasks, tables, limits, due, task, walk, todo, raising>>

CountPending(w) ==
  /\ pc[w] = "pending"
  /\ seen' = [seen EXCEPT ![w] = Unready(Job(w).share) # {}]
  /\ Go(w, "status")
  /\ UNCHANGED <<tasks, tables, limits, due, task, walk, todo, raising>>

FinalizeStatus(w) ==
  /\ pc[w] = "status"
  /\ SetScanStatus(Job(w).share, IF seen[w] THEN "posters_pending" ELSE "ready")
  /\ Go(w, AfterTouch(w))
  /\ UNCHANGED <<tasks, local, limits, file, nextId, due>>

-----------------------------------------------------------------------------
(* Faults: a statement raises, a worker thread dies, the process restarts. *)
Fault ==
  /\ faults < FaultLimit
  /\ faults' = faults + 1

(* A statement of a handler raises.  Inside the try of _run_image_poster   *)
(* touch is called once more before the exception goes on; its get_share   *)
(* is outside.                                                             *)
InPosterTry(w) == Job(w).kind = "image" /\ ~raising[w]

StatementRaises(w) ==
  /\ pc[w] \in WorkerState \ {"idle", "dead", "done", "fail"}
  /\ Fault
  /\ \/ InPosterTry(w) /\ Go(w, "final") /\ raising' = [raising EXCEPT ![w] = TRUE]
     \/ /\ pc[w] = "build" \/ ~InPosterTry(w)
        /\ Go(w, "fail")
        /\ UNCHANGED raising
  /\ UNCHANGED <<tasks, tables, due, task, walk, todo, seen, requests,
                 restarts>>

(* The enqueue of a request raises: the request ends with an error. *)
RequestFails(s) ==
  /\ due[s] > 0
  /\ Fault
  /\ due' = [due EXCEPT ![s] = @ - 1]
  /\ UNCHANGED <<tasks, tables, local, pc, requests, restarts>>

(* The queue's own faults: a claimed task is dropped with its thread; the  *)
(* thread dies when mark_error raises.                                     *)
ClaimDies(w, t) ==
  /\ pc[w] = "idle"
  /\ Fault
  /\ Queue!Drop(t)
  /\ Go(w, "dead")
  /\ UNCHANGED <<tables, local, failed, job, due, requests, restarts>>

MarkDies(w) ==
  /\ pc[w] = "fail"
  /\ Fault
  /\ Queue!Lose({task[w]})
  /\ Release(w, "dead")
  /\ UNCHANGED <<tables, failed, job, due, requests, restarts>>

(* Both databases survive, threads and requests do not. *)
Restart ==
  /\ restarts < RestartLimit
  /\ restarts' = restarts + 1
  /\ waiting' = waiting /\ settled' = settled
  /\ running' = {} /\ lost' = lost \cup running
  /\ due' = [s \in Share |-> 0]
  /\ pc' = [w \in Worker |-> "idle"]
  /\ task' = [w \in Worker |-> NoTask]
  /\ walk' = [w \in Worker |-> {}]
  /\ todo' = [w \in Worker |-> {}]
  /\ seen' = [w \in Worker |-> FALSE]
  /\ raising' = [w \in Worker |-> FALSE]
  /\ UNCHANGED <<tables, failed, job, requests, faults>>

-----------------------------------------------------------------------------
Request(s) ==
  \/ AddShare(s)
  \/ ReindexListed(s)
  \/ RequestIndex(s)
  \/ RemoveShare(s)

IndexStep(w) ==
  \/ IndexStart(w)
  \/ ClearFiles(w)
  \/ \E p \in Path : AddFile(w, p)
  \/ WalkEnds(w)
  \/ CountMedia(w)
  \/ SetAfterScan(w)
  \/ Relook(w)
  \/ ListVideos(w)
  \/ \E j \in todo[w] : EnqueuePreview(w, j)
  \/ ListImages(w)
  \/ \E j \in todo[w] : PosterUpToDate(w, j)
  \/ IndexEnds(w)

PreviewStep(w) ==
  \/ BuildPreview(w)
  \/ PreviewFails(w)
  \/ PosterFails(w)
  \/ FindOwner(w)

TouchStep(w) ==
  \/ ReadShare(w)
  \/ CountPending(w)
  \/ FinalizeStatus(w)

WorkerStep(w) ==
  \/ \E t \in Task : Claim(w, t)
  \/ IndexStep(w)
  \/ PreviewStep(w)
  \/ TouchStep(w)
  \/ MarkDone(w)
  \/ MarkError(w)

FaultStep ==
  \/ \E w \in Worker : StatementRaises(w) \/ MarkDies(w)
  \/ \E w \in Worker, t \in Task : ClaimDies(w, t)
  \/ \E s \in Share : RequestFails(s)
  \/ Restart

Next ==
  \/ \E s \in Share : Request(s)
  \/ \E w \in Worker : WorkerStep(w)
  \/ FaultStep

(* Worker threads run, and an accepted request goes on to its enqueue. *)
Fairness ==
  /\ \A w \in Worker : WF_vars(WorkerStep(w))
  /\ \A s \in Share : WF_vars(RequestIndex(s))

Spec == Init /\ [][Next]_vars

-----------------------------------------------------------------------------
(* Control points at which an index task will still list the files of a    *)
(* media type, or end the scanning status, or else report its failure.     *)
WillList(k) ==
  {"index", "clear", "walk", "count", "setscan", "relook", "videos", "fail"}
    \cup (IF k = "image" THEN {"enqvideos"} ELSE {})
Scanning == {"clear", "walk", "count", "setscan", "fail"}

Indexes(w, s) == task[w] # NoTask /\ Job(w) = IndexJob(s)

(* A task that has been given up: its user sees an error, or nothing. *)
Abandoned == failed \cup lost

(* Whatever workers, requests and faults do, a media file without a        *)
(* preview is never forgotten: some index task will still list it, has it  *)
(* in its listing, a preview task for it is queued or running, or a task   *)
(* responsible for it was abandoned (handlers.py:51-88 against clear_files *)
(* and INSERT OR REPLACE of a second index task for the same share).       *)
Remembered(f) ==
  \/ \E w \in Worker : /\ Indexes(w, file[f].share)
                      /\ pc[w] \in WillList(Kind[file[f].path])
  \/ \E w \in Worker : \E j \in todo[w] : j.file = f
  \/ \E t \in waiting \cup running \cup Abandoned :
       job[t].kind \in Media /\ job[t].file = f
  \/ \E t \in Abandoned : job[t] = IndexJob(file[f].share)

NoMediaForgotten == \A s \in Share : \A f \in Unready(s) : Remembered(f)

(* A file row never outlives its share: the walk of an index task races    *)
(* DELETE /api/shares/<id> (registry.py:99-102, 122, 258-285).             *)
NoRowsWithoutShare == \A f \in FileId : file[f] # NoRow => Exists(file[f].share)

(* A preview task that outlived a rescan marks no other file than the one  *)
(* it was made for: file ids are not reused (registry.py:121).             *)
PreviewsHitTheirFile ==
  \A t \in waiting \cup running :
    job[t].kind \in Media /\ file[job[t].file] # NoRow =>
      /\ file[job[t].file].share = job[t].share
      /\ file[job[t].file].path = job[t].path

(* Rows belong to shares, and preview tasks to the rows they find.         *)
RowsFit == NoRowsWithoutShare /\ PreviewsHitTheirFile

(* A share shown as being scanned is being scanned, or the task that was   *)
(* scanning it was abandoned.                                              *)
ScanningHasScanner ==
  \A s \in Share : share[s] = "scanning" =>
    \/ \E w \in Worker : Indexes(w, s) /\ pc[w] \in Scanning
    \/ \E t \in Abandoned : job[t] = IndexJob(s)

(* A share nobody has looked at is about to be: unless the process was     *)
(* restarted or a call raised between POST's two statements                *)
(* (main.py:1015-1025).                                                    *)
NewShareIsIndexed ==
  \A s \in Share : share[s] = "pending" /\ restarts = 0 /\ faults = 0 =>
    \/ due[s] > 0
    \/ \E t \in waiting \cup running : job[t] = IndexJob(s)

(* No share is left in a status nobody will end.                           *)
SharesAttended == ScanningHasScanner /\ NewShareIsIndexed

(* No handler runs, none is queued. *)
Quiet == waiting = {} /\ running = {}

(* index_manifest.py:22: ready once no media lacks a preview, otherwise    *)
(* posters_pending; a share whose folder could not be read keeps error.    *)
StatusSettles ==
  Quiet /\ restarts = 0 /\ faults = 0 =>
    \A s \in Share :
      share[s] \in {"ready", "posters_pending"} =>
        (share[s] = "ready" <=> Unready(s) = {})

(* Every media file gets its preview, goes away, or is left to a task that *)
(* was abandoned.                                                          *)
LeftBehind(f) ==
  \E t \in Abandoned :
    \/ job[t].kind \in Media /\ job[t].file = f
    \/ file[f] # NoRow /\ job[t] = IndexJob(file[f].share)
PreviewsArrive ==
  \A f \in FileId :
    (\E s \in Share : f \in Unready(s)) ~>
      (file[f] = NoRow \/ file[f].ready \/ LeftBehind(f))
=============================================================================
