--------------------------- MODULE ShareIndexProofs ---------------------------
(***************************************************************************)
(* What holds of the indexing of shares for any number of shares, files,   *)
(* workers, requests, restarts and failing statements.                     *)
(***************************************************************************)
EXTENDS ShareIndex, TLAPS

(* The inductive invariant.  Queue: a task is not both waiting and running *)
(* and each known task has a payload.                                      *)
QueueSound ==
  /\ waiting \cap running = {}
  /\ \A t \in Queue!known : job[t] \in Jobs

(* Workers: a handler runs a running task, and no other worker has it. *)
Holding ==
  \A w \in Worker :
    /\ task[w] # NoTask => task[w] \in running
    /\ pc[w] \notin {"idle", "dead"} <=> task[w] # NoTask
    /\ \A v \in Worker : task[v] = task[w] /\ task[v] # NoTask => v = w

(* A handler runs on a payload of its kind. *)
HandlerFits ==
  \A w \in Worker :
    /\ pc[w] \in IndexState => Job(w).kind = "index"
    /\ pc[w] \in {"build", "owner"} => Job(w).kind \in Media
    /\ raising[w] => pc[w] \in TouchState \cup {"fail"} /\ Job(w).kind = "image"

(* Ids that have not been handed out have no row. *)
IdsFresh == \A f \in FileId : f >= nextId => file[f] = NoRow

(* A payload names a file id handed out before, and the row, while there   *)
(* is one, is the one the payload was made for.                            *)
Hits(j) ==
  /\ j.file < nextId
  /\ file[j.file] # NoRow => file[j.file].share = j.share /\ file[j.file].path = j.path

JobsHit == \A t \in Queue!known : job[t].kind \in Media => Hits(job[t])

(* Listed files are those of the share that is indexed. *)
ListingHits ==
  \A w \in Worker : \A j \in todo[w] :
    /\ pc[w] \in {"enqvideos", "enqimages", "fail"}
    /\ Job(w).kind = "index" /\ Job(w).share = j.share
    /\ Hits(j)

(* A preview task about to end well has set its row ready. *)
PreviewDone ==
  \A w \in Worker :
    /\ pc[w] \in {"owner", "done"} \cup TouchState
    /\ Job(w).kind \in Media
    /\ ~raising[w]
    => file[Job(w).file] = NoRow \/ file[Job(w).file].ready

(* Only a share that has been added is asked for.                          *)
IndexAsked ==
  \A s \in Share :
    due[s] > 0 \/ (\E t \in Queue!known : job[t] = IndexJob(s)) => share[s] # "none"

(* Where nothing fails, an index task that has started has looked at its   *)
(* share and given it a status.                                            *)
LookedAt ==
  restarts = 0 /\ faults = 0 =>
    \A w \in Worker : \A s \in Share :
      Indexes(w, s) /\ pc[w] # "index" => share[s] # "pending"

IInv ==
  /\ TypeOK /\ QueueSound /\ Holding /\ HandlerFits
  /\ IdsFresh /\ NoRowsWithoutShare /\ JobsHit /\ ListingHits
  /\ PreviewDone /\ NoMediaForgotten
  /\ IndexAsked /\ LookedAt /\ ScanningHasScanner /\ NewShareIsIndexed

-----------------------------------------------------------------------------
(* Initially nothing is shared and nothing runs. *)
LEMMA InitInv == Init => IInv
<1> SUFFICES ASSUME Init PROVE IInv
  OBVIOUS
<1>1. TypeOK
  BY IndexAssumption
     DEF Init, TypeOK, Queue!Init, FileId, ScanStatus, WorkerState
<1>2. QueueSound /\ JobsHit
  BY DEF Init, Queue!Init, QueueSound, JobsHit, Queue!known
<1>3. Holding /\ HandlerFits /\ ListingHits /\ PreviewDone
  BY DEF Init, Holding, HandlerFits, ListingHits, PreviewDone, IndexState,
         TouchState
<1>4. IdsFresh /\ NoRowsWithoutShare /\ NoMediaForgotten
  BY DEF Init, IdsFresh, NoRowsWithoutShare, NoMediaForgotten, Unready,
         MediaOf, Listed, RowsOf
<1>5. IndexAsked /\ LookedAt /\ ScanningHasScanner /\ NewShareIsIndexed
  BY DEF Init, Queue!Init, Queue!known, IndexAsked, LookedAt, Indexes,
         ScanningHasScanner, NewShareIsIndexed
<1> QED
  BY <1>1, <1>2, <1>3, <1>4, <1>5 DEF IInv

(* A worker with a handler has a known task and its payload. *)
LEMMA HeldJob ==
  ASSUME IInv, NEW w \in Worker, pc[w] \notin {"idle", "dead"}
  PROVE  task[w] \in running /\ Job(w) \in Jobs
BY DEF IInv, TypeOK, QueueSound, Holding, Job, Queue!known

(* The payload of an index task. *)
LEMMA IndexPayload ==
  ASSUME NEW j \in Jobs, j.kind = "index"
  PROVE  j.share \in Share /\ j = IndexJob(j.share)
BY DEF Jobs, Previews, Media, IndexJob

(* The payload of a preview task. *)
LEMMA PreviewPayload ==
  ASSUME NEW j \in Jobs, j.kind \in Media
  PROVE  j \in Previews
BY DEF Jobs, Previews, Media

(* The payload a request enqueues is one, and not of a preview. *)
LEMMA IndexJobKind == \A s \in Share : IndexJob(s) \in Jobs /\ IndexJob(s).kind \notin Media
BY DEF Jobs, IndexJob, Media

(* What is enqueued for a listed file. *)
LEMMA ListedPayload ==
  ASSUME TypeOK, NEW s, NEW k \in Media, NEW f \in Listed(s, k)
  PROVE  /\ PreviewJob(f) \in Previews
         /\ PreviewJob(f).file = f /\ PreviewJob(f).share = s
         /\ PreviewJob(f).path = file[f].path
BY DEF TypeOK, Listed, RowsOf, PreviewJob, Previews, Rows

-----------------------------------------------------------------------------
(* Every variable keeps its type. *)
LEMMA TypeInv == IInv /\ [Next]_vars => TypeOK'
<1> SUFFICES ASSUME IInv, [Next]_vars PROVE TypeOK'
  OBVIOUS
<1> USE IndexAssumption DEF TypeOK
<1>0. TypeOK
  BY DEF IInv
<1>1. CASE UNCHANGED vars
  BY <1>0, <1>1 DEF vars, tasks, tables, local, limits
<1>2. ASSUME NEW s \in Share, Request(s) PROVE TypeOK'
  <2>1. CASE AddShare(s) \/ ReindexListed(s)
    BY <1>0, <2>1 DEF AddShare, ReindexListed, Accept, tasks, tables, local, ScanStatus
  <2>2. CASE RequestIndex(s)
    BY <1>0, <2>2, IndexJobKind
       DEF RequestIndex, Enqueue, Queue!Submit, tables, local, limits
  <2>3. CASE RemoveShare(s)
    BY <1>0, <2>3 DEF RemoveShare, DeleteRowsOf, tasks, local, limits
  <2> QED
    BY <1>2, <2>1, <2>2, <2>3 DEF Request
<1>3. ASSUME NEW w \in Worker, WorkerStep(w) PROVE TypeOK'
  <2>1. CASE \E t \in Task : Claim(w, t)
    BY <1>0, <2>1
       DEF Claim, Go, Queue!Start, FirstState, tables, limits, WorkerState, IndexState
  <2>2. CASE IndexStep(w)
    <3>1. CASE IndexStart(w) \/ SetAfterScan(w)
      BY <1>0, <3>1 DEF IndexStart, SetAfterScan, SetScanStatus, Go, Exists,
         ScanStatus, WorkerState, IndexState, tasks, local, limits
    <3>2. CASE ClearFiles(w)
      BY <1>0, <3>2 DEF ClearFiles, DeleteRowsOf, Go, WorkerState, IndexState, tasks, limits
    <3>3. ASSUME NEW p \in Path, AddFile(w, p) PROVE TypeOK'
      <4>1. pc[w] = "walk"
        BY <3>3 DEF AddFile
      <4>2. Job(w).share \in Share
        BY <4>1, HeldJob, IndexPayload DEF IInv, HandlerFits, IndexState
      <4> HIDE DEF TypeOK
      <4>3. CASE Exists(Job(w).share)
        <5>1. ReplaceRow(Job(w).share, p)
          BY <3>3, <4>3 DEF AddFile
        <5>2. file' \in [FileId -> Rows \cup {NoRow}]
          BY <1>0, <4>2, <5>1 DEF TypeOK, ReplaceRow, Rows
        <5>3. nextId' \in 1 .. FileLimit + 1
          BY <1>0, <5>1 DEF TypeOK, ReplaceRow, FileId
        <5> QED
          BY <1>0, <3>3, <4>3, <5>2, <5>3 DEF TypeOK, AddFile, tasks, limits
      <4>4. CASE ~Exists(Job(w).share)
        BY <1>0, <3>3, <4>4 DEF TypeOK, AddFile, Go, WorkerState, tasks, limits
      <4> QED
        BY <4>3, <4>4
    <3>4. CASE \/ WalkEnds(w) \/ CountMedia(w) \/ Relook(w) \/ IndexEnds(w)
      BY <1>0, <3>4 DEF WalkEnds, CountMedia, Relook, IndexEnds, Go, WorkerState,
         IndexState, TouchState, tasks, tables, local, limits
    <3>5. CASE ListVideos(w) \/ ListImages(w)
      <4>1. {PreviewJob(f) : f \in Listed(Job(w).share, "video")} \subseteq Previews
        BY <1>0, ListedPayload DEF Media
      <4>2. {PreviewJob(f) : f \in Listed(Job(w).share, "image")} \subseteq Previews
        BY <1>0, ListedPayload DEF Media
      <4> QED
        BY <1>0, <3>5, <4>1, <4>2 DEF ListVideos, ListImages, Go, WorkerState,
           IndexState, tasks, tables, limits
    <3>6. ASSUME NEW j \in todo[w], EnqueuePreview(w, j) PROVE TypeOK'
      BY <1>0, <3>6 DEF EnqueuePreview, Enqueue, Queue!Submit, Jobs, tables, limits
    <3>7. ASSUME NEW j \in todo[w], PosterUpToDate(w, j) PROVE TypeOK'
      BY <1>0, <3>7 DEF PosterUpToDate, SetPreviewReady, Rows, tasks, limits
    <3> QED
      BY <2>2, <3>1, <3>2, <3>3, <3>4, <3>5, <3>6, <3>7 DEF IndexStep
  <2>3. CASE PreviewStep(w)
    <3>1. CASE BuildPreview(w)
      <4>1. file' \in [FileId -> Rows \cup {NoRow}]
        BY <1>0, <3>1 DEF BuildPreview, SetPreviewReady, Rows
      <4> QED
        BY <1>0, <3>1, <4>1
           DEF BuildPreview, Go, WorkerState, TouchState, tasks, local, limits
    <3>2. CASE PreviewFails(w) \/ PosterFails(w) \/ FindOwner(w)
      BY <1>0, <3>2 DEF PreviewFails, PosterFails, FindOwner, Go, WorkerState, TouchState,
         tasks, tables, local, limits
    <3> QED
      BY <2>3, <3>1, <3>2 DEF PreviewStep
  <2>4. CASE TouchStep(w)
    BY <1>0, <2>4 DEF TouchStep, ReadShare, CountPending, FinalizeStatus,
       AfterTouch, SetScanStatus, Exists, ScanStatus, Go, WorkerState, TouchState,
       tasks, tables, local, limits
  <2>5. CASE MarkDone(w) \/ MarkError(w)
    BY <1>0, <2>5 DEF MarkDone, MarkError, Release, Go, Queue!Settle, WorkerState,
       tables, limits
  <2> QED
    BY <1>3, <2>1, <2>2, <2>3, <2>4, <2>5 DEF WorkerStep
<1>4. CASE FaultStep
  <2>1. ASSUME NEW w \in Worker, StatementRaises(w) PROVE TypeOK'
    <3>1. pc' \in [Worker -> WorkerState] /\ raising' \in [Worker -> BOOLEAN]
      BY <1>0, <2>1 DEF StatementRaises, Go, WorkerState, TouchState
    <3> QED
      BY <1>0, <2>1, <3>1 DEF StatementRaises, Fault, tasks, tables
  <2>5. ASSUME NEW w \in Worker, MarkDies(w) PROVE TypeOK'
    BY <1>0, <2>5 DEF MarkDies, Fault, Release, Go, Queue!Lose, WorkerState, tables
  <2>2. ASSUME NEW w \in Worker, NEW t \in Task, ClaimDies(w, t) PROVE TypeOK'
    BY <1>0, <2>2 DEF ClaimDies, Fault, Go, Queue!Drop, WorkerState, tables, local
  <2>3. ASSUME NEW s \in Share, RequestFails(s) PROVE TypeOK'
    BY <1>0, <2>3 DEF RequestFails, Fault, tasks, tables, local
  <2>4. CASE Restart
    BY <1>0, <2>4 DEF Restart, WorkerState, tables
  <2> QED
    BY <1>4, <2>1, <2>2, <2>3, <2>4, <2>5 DEF FaultStep
<1> QED
  BY <1>1, <1>2, <1>3, <1>4 DEF Next

-----------------------------------------------------------------------------
(* The steps that touch the queue. *)
LEMMA QueueStep ==
  ASSUME [Next]_vars
  PROVE  \/ UNCHANGED tasks
         \/ \E s \in Share : RequestIndex(s)
         \/ \E w \in Worker : \E j \in todo[w] : EnqueuePreview(w, j)
         \/ \E w \in Worker, t \in Task : Claim(w, t) \/ ClaimDies(w, t)
         \/ \E w \in Worker : MarkDone(w) \/ MarkError(w) \/ MarkDies(w)
         \/ Restart
<1> DEFINE Goal == \/ UNCHANGED tasks
                   \/ \E s \in Share : RequestIndex(s)
                   \/ \E w \in Worker : \E j \in todo[w] : EnqueuePreview(w, j)
                   \/ \E w \in Worker, t \in Task : Claim(w, t) \/ ClaimDies(w, t)
                   \/ \E w \in Worker : MarkDone(w) \/ MarkError(w) \/ MarkDies(w)
                   \/ Restart
<1>1. ASSUME UNCHANGED vars PROVE Goal
  BY <1>1 DEF vars, tasks
<1>2. ASSUME NEW s \in Share, Request(s) PROVE Goal
  BY <1>2 DEF Request, AddShare, ReindexListed, RemoveShare
<1>3. ASSUME NEW w \in Worker, WorkerStep(w) PROVE Goal
  <2>1. CASE IndexStep(w)
    BY <2>1 DEF IndexStep, IndexStart, ClearFiles, AddFile, WalkEnds, CountMedia,
       SetAfterScan, Relook, ListVideos, ListImages, PosterUpToDate, IndexEnds
  <2>2. CASE PreviewStep(w) \/ TouchStep(w)
    BY <2>2 DEF PreviewStep, BuildPreview, PreviewFails, PosterFails, FindOwner,
       TouchStep, ReadShare, CountPending, FinalizeStatus
  <2> QED
    BY <1>3, <2>1, <2>2 DEF WorkerStep
<1>4. ASSUME FaultStep PROVE Goal
  BY <1>4 DEF FaultStep, StatementRaises, RequestFails
<1> HIDE DEF Goal
<1>5. Goal
  BY <1>1, <1>2, <1>3, <1>4 DEF Next
<1> QED
  BY <1>5 DEF Goal

(* Tasks stay known with their payload, abandoned ones abandoned. *)
TasksKept ==
  /\ \A t \in Queue!known : t \in Queue!known' /\ job'[t] = job[t]
  /\ \A t \in Abandoned : t \in Abandoned'

(* The queue stays sound. *)
LEMMA QueueInv == IInv /\ [Next]_vars => QueueSound' /\ TasksKept
<1> SUFFICES ASSUME IInv, [Next]_vars PROVE QueueSound' /\ TasksKept
  OBVIOUS
<1>0. TypeOK /\ QueueSound
  BY DEF IInv
<1>1. CASE UNCHANGED tasks
  BY <1>0, <1>1 DEF tasks, QueueSound, TasksKept, Queue!known, Abandoned
<1>2. ASSUME NEW t, NEW j \in Jobs, Enqueue(t, j), failed' = failed
      PROVE  QueueSound' /\ TasksKept
  BY <1>0, <1>2 DEF TypeOK, QueueSound, TasksKept, Enqueue, Queue!Submit,
     Queue!known, Abandoned
<1>3. ASSUME NEW s \in Share, RequestIndex(s) PROVE QueueSound' /\ TasksKept
  BY <1>2, <1>3, IndexJobKind DEF RequestIndex
<1>4. ASSUME NEW w \in Worker, NEW j \in todo[w], EnqueuePreview(w, j)
      PROVE  QueueSound' /\ TasksKept
  BY <1>0, <1>2, <1>4 DEF EnqueuePreview, TypeOK, Jobs
<1>5. ASSUME NEW w \in Worker, NEW t \in Task, Claim(w, t) \/ ClaimDies(w, t)
      PROVE  QueueSound' /\ TasksKept
  BY <1>0, <1>5 DEF TypeOK, QueueSound, TasksKept, Claim, ClaimDies, Queue!Start,
     Queue!Drop, Queue!known, Abandoned
<1>6. ASSUME NEW w \in Worker, MarkDone(w) \/ MarkError(w) \/ MarkDies(w)
      PROVE  QueueSound' /\ TasksKept
  BY <1>0, <1>6 DEF TypeOK, QueueSound, TasksKept, MarkDone, MarkError, MarkDies,
     Queue!Settle, Queue!Lose, Queue!known, Abandoned
<1>7. CASE Restart
  BY <1>0, <1>7 DEF TypeOK, QueueSound, TasksKept, Restart, Queue!known, Abandoned
<1> QED
  BY <1>1, <1>3, <1>4, <1>5, <1>6, <1>7, QueueStep

-----------------------------------------------------------------------------
(* The steps that touch the files, and those that touch the shares. *)
SomeReady == \E f : SetPreviewReady(f) /\ UNCHANGED <<nextId, share>>

ShareMoves ==
  /\ UNCHANGED <<file, nextId>>
  /\ \A s \in Share : Exists(s) => Exists(s)'

(* Writing a scan status neither adds nor removes a share. *)
LEMMA StatusKeepsShares ==
  ASSUME TypeOK, NEW s, NEW st \in ScanStatus, SetScanStatus(s, st),
         UNCHANGED <<file, nextId>>
  PROVE  ShareMoves
BY DEF TypeOK, SetScanStatus, ShareMoves, Exists

(* A step leaves the rows alone, sets one ready, or is one of the three
   that delete or add rows. *)
LEMMA FileStep ==
  ASSUME IInv, [Next]_vars
  PROVE  \/ ShareMoves
         \/ SomeReady
         \/ \E s \in Share : RemoveShare(s)
         \/ \E w \in Worker : ClearFiles(w)
         \/ \E w \in Worker, p \in Path : AddFile(w, p)
<1> DEFINE Goal == \/ ShareMoves
                   \/ SomeReady
                   \/ \E s \in Share : RemoveShare(s)
                   \/ \E w \in Worker : ClearFiles(w)
                   \/ \E w \in Worker, p \in Path : AddFile(w, p)
<1>0. TypeOK
  BY DEF IInv
<1>a. ASSUME UNCHANGED tables PROVE ShareMoves
  BY <1>a DEF tables, ShareMoves, Exists
<1>1. ASSUME UNCHANGED vars PROVE Goal
  BY <1>1, <1>a DEF vars
<1>2. ASSUME NEW s \in Share, Request(s) PROVE Goal
  <2>1. CASE AddShare(s)
    BY <1>0, <2>1 DEF AddShare, TypeOK, ShareMoves, Exists, ScanStatus
  <2> QED
    BY <1>2, <1>a, <2>1 DEF Request, ReindexListed, RequestIndex
<1>3. ASSUME NEW w \in Worker, WorkerStep(w) PROVE Goal
  <2>1. CASE IndexStep(w)
    <3>1. CASE IndexStart(w)
      <4>1. CASE UNCHANGED share
        BY <1>a, <3>1, <4>1 DEF IndexStart, tables
      <4>2. CASE \/ SetScanStatus(Job(w).share, "scanning")
                 \/ SetScanStatus(Job(w).share, "error")
        BY <1>0, <3>1, <4>2, StatusKeepsShares DEF IndexStart, ScanStatus
      <4> QED
        BY <3>1, <4>1, <4>2 DEF IndexStart
    <3>2. CASE SetAfterScan(w)
      BY <1>0, <3>2, StatusKeepsShares DEF SetAfterScan, ScanStatus
    <3>3. CASE \/ WalkEnds(w) \/ CountMedia(w) \/ Relook(w) \/ ListVideos(w)
               \/ ListImages(w) \/ IndexEnds(w)
      BY <1>a, <3>3 DEF WalkEnds, CountMedia, Relook, ListVideos, ListImages, IndexEnds
    <3>4. ASSUME NEW j \in todo[w], EnqueuePreview(w, j) PROVE Goal
      BY <1>a, <3>4 DEF EnqueuePreview
    <3>5. ASSUME NEW j \in todo[w], PosterUpToDate(w, j) PROVE Goal
      BY <3>5 DEF PosterUpToDate, SomeReady
    <3> QED
      BY <2>1, <3>1, <3>2, <3>3, <3>4, <3>5 DEF IndexStep
  <2>2. CASE PreviewStep(w)
    BY <1>a, <2>2 DEF PreviewStep, BuildPreview, PreviewFails, PosterFails, FindOwner,
       SomeReady
  <2>3. CASE TouchStep(w)
    <3>1. CASE FinalizeStatus(w)
      BY <1>0, <3>1, StatusKeepsShares DEF FinalizeStatus, ScanStatus
    <3> QED
      BY <1>a, <2>3, <3>1 DEF TouchStep, ReadShare, CountPending
  <2>4. CASE (\E t \in Task : Claim(w, t)) \/ MarkDone(w) \/ MarkError(w)
    BY <1>a, <2>4 DEF Claim, MarkDone, MarkError
  <2> QED
    BY <1>3, <2>1, <2>2, <2>3, <2>4 DEF WorkerStep
<1>4. ASSUME FaultStep PROVE Goal
  BY <1>4, <1>a DEF FaultStep, StatementRaises, MarkDies, ClaimDies, RequestFails,
     Restart
<1> HIDE DEF Goal
<1>5. Goal
  BY <1>1, <1>2, <1>3, <1>4 DEF Next
<1> QED
  BY <1>5 DEF Goal

(* A row keeps its share, its path and its preview until it goes, and ids  *)
(* handed out are never used again.                                        *)
RowsKept ==
  /\ nextId <= nextId'
  /\ \A f \in FileId : f < nextId /\ file'[f] # NoRow =>
       /\ file[f] # NoRow
       /\ file'[f].share = file[f].share /\ file'[f].path = file[f].path
       /\ file[f].ready => file'[f].ready

(* The walk adds a row for the share its task indexes. *)
LEMMA AddFileStep ==
  ASSUME IInv, NEW w \in Worker, NEW p \in Path, AddFile(w, p)
  PROVE  LET s == Job(w).share IN
         /\ s \in Share /\ Job(w) = IndexJob(s) /\ share' = share
         /\ \/ Exists(s) /\ ReplaceRow(s, p) /\ UNCHANGED <<pc, task>>
            \/ UNCHANGED <<file, nextId>>
<1>1. pc[w] = "walk"
  BY DEF AddFile
<1>2. Job(w) \in Jobs /\ Job(w).kind = "index"
  BY <1>1, HeldJob DEF IInv, HandlerFits, IndexState
<1>3. Job(w).share \in Share /\ Job(w) = IndexJob(Job(w).share)
  BY <1>2, IndexPayload
<1> QED
  BY <1>3 DEF AddFile

(* Ids handed out are not used again and no row outlives its share. *)
LEMMA FileInv == IInv /\ [Next]_vars => IdsFresh' /\ NoRowsWithoutShare' /\ RowsKept
<1> SUFFICES ASSUME IInv, [Next]_vars
             PROVE  IdsFresh' /\ NoRowsWithoutShare' /\ RowsKept
  OBVIOUS
<1>0. TypeOK /\ IdsFresh /\ NoRowsWithoutShare /\ nextId \in Nat /\ FileId \subseteq Nat
  BY IndexAssumption DEF IInv, TypeOK, FileId
<1>1. CASE ShareMoves
  BY <1>0, <1>1 DEF ShareMoves, IdsFresh, NoRowsWithoutShare, RowsKept, TypeOK, Rows
<1>2. CASE SomeReady
  <2>1. PICK g : SetPreviewReady(g) /\ UNCHANGED <<nextId, share>>
    BY <1>2 DEF SomeReady
  <2>2. \A f \in FileId :
          /\ file[f] = NoRow => file'[f] = NoRow
          /\ file'[f] # NoRow => /\ file'[f].share = file[f].share
                                 /\ file'[f].path = file[f].path
                                 /\ file[f].ready => file'[f].ready
    BY <1>0, <2>1 DEF SetPreviewReady, TypeOK, Rows
  <2>3. nextId' = nextId /\ share' = share
    BY <2>1
  <2>4. IdsFresh'
    BY <1>0, <2>2, <2>3 DEF IdsFresh
  <2>5. RowsKept
    BY <1>0, <2>2, <2>3 DEF RowsKept
  <2>6. NoRowsWithoutShare'
    BY <1>0, <2>2, <2>3 DEF NoRowsWithoutShare, Exists
  <2> QED
    BY <2>4, <2>5, <2>6
<1>3. ASSUME NEW s \in Share, RemoveShare(s)
      PROVE  IdsFresh' /\ NoRowsWithoutShare' /\ RowsKept
  <2>1. \A f \in FileId : file'[f] # NoRow => file'[f] = file[f] /\ file[f].share # s
    BY <1>3 DEF RemoveShare, DeleteRowsOf, RowsOf
  <2>2. \A f \in FileId : file[f] = NoRow => file'[f] = NoRow
    BY <1>3 DEF RemoveShare, DeleteRowsOf, RowsOf
  <2>3. \A r \in Share : r # s /\ Exists(r) => Exists(r)'
    BY <1>0, <1>3 DEF RemoveShare, Exists, TypeOK
  <2>4. IdsFresh' /\ RowsKept
    BY <1>0, <1>3, <2>1, <2>2 DEF RemoveShare, IdsFresh, RowsKept
  <2>5. \A f \in FileId : file[f] # NoRow => file[f].share \in Share
    BY <1>0 DEF TypeOK, Rows
  <2>6. NoRowsWithoutShare'
    BY <1>0, <2>1, <2>2, <2>3, <2>5 DEF NoRowsWithoutShare
  <2> QED
    BY <2>4, <2>6
<1>4. ASSUME NEW w \in Worker, ClearFiles(w)
      PROVE  IdsFresh' /\ NoRowsWithoutShare' /\ RowsKept
  <2>1. \A f \in FileId : /\ file'[f] # NoRow => file'[f] = file[f]
                          /\ file[f] = NoRow => file'[f] = NoRow
    BY <1>4 DEF ClearFiles, DeleteRowsOf, RowsOf
  <2> QED
    BY <1>0, <1>4, <2>1 DEF ClearFiles, IdsFresh, NoRowsWithoutShare, RowsKept, Exists
<1>5. ASSUME NEW w \in Worker, NEW p \in Path, AddFile(w, p)
      PROVE  IdsFresh' /\ NoRowsWithoutShare' /\ RowsKept
  <2>1. CASE UNCHANGED <<file, nextId>>
    BY <1>0, <1>5, <2>1, AddFileStep
       DEF IdsFresh, NoRowsWithoutShare, RowsKept, Exists
  <2>2. CASE Exists(Job(w).share) /\ ReplaceRow(Job(w).share, p)
    BY <1>0, <1>5, <2>2, AddFileStep
       DEF ReplaceRow, IdsFresh, NoRowsWithoutShare, RowsKept, Exists
  <2> QED
    BY <1>5, <2>1, <2>2, AddFileStep
<1> QED
  BY <1>1, <1>2, <1>3, <1>4, <1>5, FileStep

-----------------------------------------------------------------------------
(* The steps as the workers see them. *)
Handler(w) == IndexStep(w) \/ PreviewStep(w) \/ TouchStep(w) \/ StatementRaises(w)

Takes(w, t) == Claim(w, t) \/ ClaimDies(w, t)

Ends(w) == MarkDone(w) \/ MarkError(w) \/ MarkDies(w)

(* A step is a handler's, a claim, the end of a task, a restart, or no
   business of the workers. *)
LEMMA WorkersStep ==
  ASSUME [Next]_vars
  PROVE  \/ UNCHANGED <<pc, local, running>>
         \/ \E w \in Worker : Handler(w) \/ Ends(w)
         \/ \E w \in Worker, t \in Task : Takes(w, t)
         \/ Restart
<1>1. CASE UNCHANGED vars
  BY <1>1 DEF vars, tasks
<1>2. ASSUME NEW s \in Share, Request(s) PROVE UNCHANGED <<pc, local, running>>
  BY <1>2 DEF Request, AddShare, ReindexListed, RequestIndex, RemoveShare, Enqueue,
     Queue!Submit, tasks
<1>3. ASSUME NEW s \in Share, RequestFails(s) PROVE UNCHANGED <<pc, local, running>>
  BY <1>3 DEF RequestFails, tasks
<1> QED
  BY <1>1, <1>2, <1>3 DEF Next, WorkerStep, FaultStep, Handler, Takes, Ends

(* A handler's step leaves the other workers and all assignments alone. *)
Moves(w) ==
  /\ pc[w] \notin {"idle", "dead"} /\ pc'[w] \notin {"idle", "dead"}
  /\ task' = task /\ running' = running
  /\ \A v \in Worker \ {w} :
       pc'[v] = pc[v] /\ todo'[v] = todo[v] /\ raising'[v] = raising[v]

(* The steps of an index task. *)
LEMMA IndexMoves ==
  ASSUME TypeOK, NEW w \in Worker, IndexStep(w)
  PROVE  /\ Moves(w) /\ raising' = raising
         /\ pc[w] \in IndexState
         /\ pc'[w] \in IndexState \cup {"final", "fail"}
<1> DEFINE Goal == /\ Moves(w) /\ raising' = raising
                   /\ pc[w] \in IndexState
                   /\ pc'[w] \in IndexState \cup {"final", "fail"}
<1>0. pc \in [Worker -> WorkerState] /\ todo \in [Worker -> SUBSET Previews]
  BY DEF TypeOK
<1>1. ASSUME IndexStart(w) \/ ClearFiles(w) \/ WalkEnds(w) \/ CountMedia(w) PROVE Goal
  BY <1>0, <1>1 DEF IndexStart, ClearFiles, WalkEnds, CountMedia, Go, Moves, IndexState,
     tasks, local
<1>2. ASSUME NEW p \in Path, AddFile(w, p) PROVE Goal
  BY <1>0, <1>2 DEF AddFile, Go, Moves, IndexState, tasks
<1>3. ASSUME SetAfterScan(w) \/ Relook(w) \/ ListVideos(w) \/ ListImages(w) \/ IndexEnds(w)
      PROVE  Goal
  BY <1>0, <1>3 DEF SetAfterScan, Relook, ListVideos, ListImages, IndexEnds, Go, Moves,
     IndexState, tasks, local
<1>4. ASSUME NEW j \in todo[w], EnqueuePreview(w, j) \/ PosterUpToDate(w, j) PROVE Goal
  BY <1>0, <1>4 DEF EnqueuePreview, PosterUpToDate, Enqueue, Queue!Submit, Moves,
     IndexState, tasks
<1> HIDE DEF Goal
<1>5. Goal
  BY <1>1, <1>2, <1>3, <1>4 DEF IndexStep
<1> QED
  BY <1>5 DEF Goal

(* The steps of a preview task before its touch. *)
LEMMA PreviewMoves ==
  ASSUME TypeOK, NEW w \in Worker, PreviewStep(w)
  PROVE  /\ Moves(w) /\ todo' = todo
         /\ pc[w] \in {"build", "owner"}
         /\ pc'[w] \in {"owner", "final", "fail", "done"}
         /\ pc'[w] = "owner" => Job(w).kind \in Media
         /\ raising'[w] # raising[w] => pc'[w] = "final" /\ Job(w).kind = "image"
BY DEF PreviewStep, BuildPreview, PreviewFails, PosterFails, FindOwner, TypeOK, Go,
       Moves, Media, tasks, local

(* The steps of touch. *)
LEMMA TouchMoves ==
  ASSUME TypeOK, NEW w \in Worker, TouchStep(w)
  PROVE  /\ Moves(w) /\ todo' = todo /\ raising' = raising
         /\ pc[w] \in TouchState
         /\ pc'[w] \in TouchState \cup {AfterTouch(w)}
BY DEF TouchStep, ReadShare, CountPending, FinalizeStatus, AfterTouch, TypeOK, Go,
       Moves, TouchState, tasks, local

(* A statement that raises. *)
LEMMA RaiseMoves ==
  ASSUME TypeOK, NEW w \in Worker, StatementRaises(w)
  PROVE  /\ Moves(w) /\ todo' = todo
         /\ pc[w] \notin {"idle", "dead", "done", "fail"}
         /\ \/ /\ pc'[w] = "final" /\ raising'[w]
               /\ Job(w).kind = "image" /\ ~raising[w]
            \/ pc'[w] = "fail" /\ raising' = raising
BY DEF StatementRaises, InPosterTry, TypeOK, Go, Moves, tasks

(* All steps of a handler. *)
LEMMA HandlerMoves ==
  ASSUME TypeOK, NEW w \in Worker, Handler(w)
  PROVE  Moves(w)
BY IndexMoves, PreviewMoves, TouchMoves, RaiseMoves DEF Handler

(* A claim and the end of a task change one worker. *)
LEMMA TakesLocal ==
  ASSUME TypeOK, NEW w \in Worker, NEW t \in Task, Takes(w, t)
  PROVE  /\ t \in waiting /\ pc[w] = "idle"
         /\ UNCHANGED <<todo, raising, job, file>>
         /\ \A v \in Worker \ {w} : pc'[v] = pc[v] /\ task'[v] = task[v]
         /\ \/ pc'[w] = FirstState(job[t]) /\ task'[w] = t /\ running' = running \cup {t}
            \/ pc'[w] = "dead" /\ task' = task /\ running' = running
BY DEF Takes, Claim, ClaimDies, Queue!Start, Queue!Drop, TypeOK, Go, FirstState, tables,
       local

(* The end of a task frees its worker. *)
LEMMA EndsLocal ==
  ASSUME TypeOK, NEW w \in Worker, Ends(w)
  PROVE  /\ pc[w] \in {"done", "fail"} /\ pc'[w] \in {"idle", "dead"}
         /\ task'[w] = NoTask /\ todo'[w] = {} /\ ~raising'[w]
         /\ running' = running \ {task[w]}
         /\ UNCHANGED <<job, file>>
         /\ \A v \in Worker \ {w} : /\ pc'[v] = pc[v] /\ task'[v] = task[v]
                                    /\ todo'[v] = todo[v] /\ raising'[v] = raising[v]
BY DEF Ends, MarkDone, MarkError, MarkDies, Release, Queue!Settle, Queue!Lose, TypeOK, Go,
       tables

(* Assignments stay exclusive. *)
LEMMA HoldingInv == IInv /\ [Next]_vars => Holding'
<1> SUFFICES ASSUME IInv, [Next]_vars PROVE Holding'
  OBVIOUS
<1>0. TypeOK /\ QueueSound /\ Holding
  BY DEF IInv
<1>1. CASE UNCHANGED <<pc, local, running>>
  BY <1>0, <1>1 DEF local, Holding
<1>2. ASSUME NEW w \in Worker, Handler(w) PROVE Holding'
  <2>1. Moves(w)
    BY <1>0, <1>2, HandlerMoves
  <2> QED
    BY <1>0, <2>1 DEF Moves, Holding
<1>3. ASSUME NEW w \in Worker, Ends(w) PROVE Holding'
  BY <1>0, <1>3, EndsLocal, IndexAssumption DEF Holding
<1>4. ASSUME NEW w \in Worker, NEW t \in Task, Takes(w, t) PROVE Holding'
  <2>1. t # NoTask /\ \A v \in Worker : task[v] # t
    BY <1>0, <1>4, TakesLocal, IndexAssumption DEF QueueSound, Holding
  <2>2. FirstState(job[t]) \notin {"idle", "dead"}
    BY DEF FirstState
  <2> QED
    BY <1>0, <1>4, <2>1, <2>2, TakesLocal DEF Holding
<1>5. CASE Restart
  BY <1>0, <1>5 DEF Restart, Holding
<1> QED
  BY <1>1, <1>2, <1>3, <1>4, <1>5, WorkersStep

(* While a worker keeps its task it keeps the payload. *)
LEMMA JobKept ==
  ASSUME IInv, TasksKept, NEW w \in Worker, pc[w] \notin {"idle", "dead"},
         task'[w] = task[w]
  PROVE  Job(w)' = Job(w)
BY HeldJob DEF TasksKept, Queue!known, Job

(* Handlers stay on payloads of their kind. *)
LEMMA FitsInv == IInv /\ [Next]_vars => HandlerFits'
<1> SUFFICES ASSUME IInv, [Next]_vars, NEW v \in Worker
             PROVE  /\ pc'[v] \in IndexState => Job(v)'.kind = "index"
                    /\ pc'[v] \in {"build", "owner"} => Job(v)'.kind \in Media
                    /\ raising'[v] => /\ pc'[v] \in TouchState \cup {"fail"}
                                      /\ Job(v)'.kind = "image"
  BY DEF HandlerFits
<1> DEFINE Fits == /\ pc'[v] \in IndexState => Job(v)'.kind = "index"
                   /\ pc'[v] \in {"build", "owner"} => Job(v)'.kind \in Media
                   /\ raising'[v] => /\ pc'[v] \in TouchState \cup {"fail"}
                                     /\ Job(v)'.kind = "image"
<1>0. TypeOK /\ QueueSound /\ Holding /\ HandlerFits /\ TasksKept
  BY QueueInv DEF IInv
<1>a. ASSUME pc'[v] = pc[v], task'[v] = task[v], raising'[v] = raising[v] PROVE Fits
  BY <1>0, <1>a, JobKept DEF HandlerFits, IndexState, TouchState
<1>1. ASSUME UNCHANGED <<pc, local, running>> PROVE Fits
  BY <1>1, <1>a DEF local
<1>2. ASSUME NEW w \in Worker, Handler(w) PROVE Fits
  <2>1. Moves(w)
    BY <1>0, <1>2, HandlerMoves
  <2>2. CASE w # v
    BY <1>a, <2>1, <2>2 DEF Moves
  <2>3. CASE w = v
    <3>1. Job(v)' = Job(v)
      BY <2>1, <2>3, <1>0, JobKept DEF Moves
    <3>2. CASE IndexStep(v)
      BY <1>0, <3>1, <3>2, IndexMoves DEF HandlerFits, IndexState, TouchState
    <3>3. CASE PreviewStep(v)
      BY <1>0, <3>1, <3>3, PreviewMoves DEF HandlerFits, IndexState, TouchState
    <3>4. CASE TouchStep(v)
      BY <1>0, <3>1, <3>4, TouchMoves DEF HandlerFits, IndexState, TouchState, AfterTouch
    <3>5. CASE StatementRaises(v)
      BY <1>0, <3>1, <3>5, RaiseMoves DEF HandlerFits, IndexState, TouchState
    <3> QED
      BY <1>2, <2>3, <3>2, <3>3, <3>4, <3>5 DEF Handler
  <2> QED
    BY <2>2, <2>3
<1>3. ASSUME NEW w \in Worker, Ends(w) PROVE Fits
  <2>1. CASE w # v
    BY <1>0, <1>3, <1>a, <2>1, EndsLocal
  <2>2. CASE w = v
    BY <1>0, <1>3, <2>2, EndsLocal DEF IndexState
  <2> QED
    BY <2>1, <2>2
<1>4. ASSUME NEW w \in Worker, NEW t \in Task, Takes(w, t) PROVE Fits
  <2>1. CASE w # v
    BY <1>0, <1>4, <1>a, <2>1, TakesLocal
  <2>2. CASE w = v
    <3>1. ~raising'[v]
      BY <1>0, <1>4, <2>2, TakesLocal DEF HandlerFits, TouchState
    <3>2. job[t] \in Jobs /\ job' = job
      BY <1>0, <1>4, TakesLocal DEF QueueSound, Queue!known
    <3>3. job[t].kind \in {"index"} \cup Media
      BY <3>2 DEF Jobs, Previews
    <3>4. CASE pc'[v] = FirstState(job[t]) /\ task'[v] = t
      BY <3>1, <3>2, <3>3, <3>4 DEF FirstState, Job, IndexState
    <3>5. CASE pc'[v] = "dead"
      BY <3>1, <3>5 DEF IndexState
    <3> QED
      BY <1>0, <1>4, <2>2, <3>4, <3>5, TakesLocal
  <2> QED
    BY <2>1, <2>2
<1>5. ASSUME Restart PROVE Fits
  BY <1>5 DEF Restart, IndexState
<1> HIDE DEF Fits
<1>6. Fits
  BY <1>1, <1>2, <1>3, <1>4, <1>5, WorkersStep
<1> QED
  BY <1>6 DEF Fits

-----------------------------------------------------------------------------
(* A payload that hits its file keeps hitting it. *)
LEMMA HitsKept ==
  ASSUME TypeOK, IdsFresh, RowsKept, nextId' \in Nat, NEW j \in Previews, Hits(j)
  PROVE  Hits(j)'
<1>1. j.file \in FileId /\ j.file \in Nat /\ nextId \in Nat
  BY IndexAssumption DEF Previews, FileId, TypeOK
<1> QED
  BY <1>1 DEF RowsKept, Hits

(* A listed file is hit by the payload made of it. *)
LEMMA ListedHits ==
  ASSUME TypeOK, IdsFresh, NEW s, NEW k \in Media, NEW f \in Listed(s, k)
  PROVE  Hits(PreviewJob(f))
<1>1. f \in FileId /\ file[f] # NoRow /\ nextId \in Nat /\ f \in Nat
  BY IndexAssumption DEF Listed, RowsOf, TypeOK, FileId
<1>2. f < nextId
  BY <1>1 DEF IdsFresh
<1> QED
  BY <1>1, <1>2 DEF Hits, PreviewJob

(* File ids are numbers. *)
LEMMA NextIdNat == IInv /\ [Next]_vars => TypeOK' /\ nextId' \in Nat
<1>1. TypeOK' => nextId' \in Nat
  BY IndexAssumption DEF TypeOK
<1> QED
  BY <1>1, TypeInv

(* Payloads in the queue keep hitting their files. *)
LEMMA JobsHitInv == IInv /\ [Next]_vars => JobsHit'
<1> SUFFICES ASSUME IInv, [Next]_vars PROVE JobsHit'
  OBVIOUS
<1>0. /\ TypeOK /\ QueueSound /\ IdsFresh /\ JobsHit /\ ListingHits
      /\ TypeOK' /\ TasksKept /\ RowsKept /\ nextId' \in Nat
  BY QueueInv, FileInv, NextIdNat DEF IInv
<1>a. ASSUME NEW t \in Queue!known, job'[t].kind \in Media PROVE Hits(job[t])'
  <2>1. job'[t] = job[t] /\ job[t] \in Previews
    BY <1>0, <1>a, PreviewPayload DEF TasksKept, QueueSound
  <2>2. Hits(job[t])
    BY <1>0, <1>a, <2>1 DEF JobsHit
  <2>3. PICK j \in Previews : j = job[t]
    BY <2>1
  <2>4. Hits(j)'
    BY <1>0, <2>2, <2>3, HitsKept
  <2> QED
    BY <2>1, <2>3, <2>4 DEF Hits
<1>b. ASSUME Queue!known' \subseteq Queue!known PROVE JobsHit'
  BY <1>a, <1>b DEF JobsHit
<1>c. ASSUME NEW t, NEW j \in Jobs, Enqueue(t, j), j.kind \in Media => Hits(j)
      PROVE  JobsHit'
  <2>1. Queue!known' = Queue!known \cup {t} /\ t \in Task
    BY <1>c DEF Enqueue, Queue!Submit, Queue!known
  <2>2. job'[t] = j
    BY <1>0, <1>c, <2>1 DEF Enqueue, TypeOK
  <2>3. j.kind \in Media => Hits(j)'
    BY <1>0, <1>c, HitsKept, PreviewPayload
  <2> QED
    BY <1>a, <2>1, <2>2, <2>3 DEF JobsHit
<1>1. CASE UNCHANGED tasks
  BY <1>b, <1>1 DEF tasks, Queue!known
<1>2. ASSUME NEW s \in Share, RequestIndex(s) PROVE JobsHit'
  BY <1>c, <1>2, IndexJobKind DEF RequestIndex
<1>3. ASSUME NEW w \in Worker, NEW j \in todo[w], EnqueuePreview(w, j) PROVE JobsHit'
  BY <1>0, <1>c, <1>3 DEF EnqueuePreview, ListingHits, TypeOK, Jobs
<1>4. ASSUME NEW w \in Worker, NEW t \in Task, Claim(w, t) \/ ClaimDies(w, t) PROVE JobsHit'
  BY <1>b, <1>4 DEF Claim, ClaimDies, Queue!Start, Queue!Drop, Queue!known
<1>5. ASSUME NEW w \in Worker, MarkDone(w) \/ MarkError(w) \/ MarkDies(w) PROVE JobsHit'
  BY <1>b, <1>5 DEF MarkDone, MarkError, MarkDies, Queue!Settle, Queue!Lose, Queue!known
<1>6. CASE Restart
  BY <1>b, <1>6 DEF Restart, Queue!known
<1> QED
  BY <1>1, <1>2, <1>3, <1>4, <1>5, <1>6, QueueStep

(* What an index task still has to deal with: the rest of its listing, or  *)
(* a listing just made.                                                    *)
LEMMA ListingStep ==
  ASSUME IInv, NEW w \in Worker, IndexStep(w), NEW j \in todo'[w]
  PROVE  \/ j \in todo[w] /\ pc'[w] = pc[w]
         \/ /\ pc'[w] \in {"enqvideos", "enqimages"}
            /\ \E k \in Media : \E f \in Listed(Job(w).share, k) : j = PreviewJob(f)
<1> DEFINE Goal == \/ j \in todo[w] /\ pc'[w] = pc[w]
                   \/ /\ pc'[w] \in {"enqvideos", "enqimages"}
                      /\ \E k \in Media : \E f \in Listed(Job(w).share, k) : j = PreviewJob(f)
<1>0. /\ todo \in [Worker -> SUBSET Previews] /\ pc \in [Worker -> WorkerState]
      /\ pc[w] \notin {"enqvideos", "enqimages", "fail"} => todo[w] = {}
  BY DEF IInv, TypeOK, ListingHits
<1>1. ASSUME \/ IndexStart(w) \/ ClearFiles(w) \/ WalkEnds(w) \/ CountMedia(w)
             \/ SetAfterScan(w) \/ Relook(w)
      PROVE  Goal
  BY <1>0, <1>1 DEF IndexStart, ClearFiles, WalkEnds, CountMedia, SetAfterScan, Relook, local
<1>2. ASSUME NEW p \in Path, AddFile(w, p) PROVE Goal
  BY <1>0, <1>2 DEF AddFile
<1>3. ASSUME ListVideos(w) PROVE Goal
  BY <1>0, <1>3 DEF ListVideos, Go, Media
<1>4. ASSUME ListImages(w) PROVE Goal
  BY <1>0, <1>4 DEF ListImages, Go, Media
<1>5. ASSUME NEW i \in todo[w], EnqueuePreview(w, i) \/ PosterUpToDate(w, i) PROVE Goal
  BY <1>0, <1>5 DEF EnqueuePreview, PosterUpToDate
<1>6. ASSUME IndexEnds(w) PROVE Goal
  BY <1>0, <1>6 DEF IndexEnds, local
<1> HIDE DEF Goal
<1>7. Goal
  BY <1>1, <1>2, <1>3, <1>4, <1>5, <1>6 DEF IndexStep
<1> QED
  BY <1>7 DEF Goal

(* Listings keep hitting their files. *)
LEMMA ListingInv == IInv /\ [Next]_vars => ListingHits'
<1> SUFFICES ASSUME IInv, [Next]_vars, NEW v \in Worker, NEW j \in todo'[v]
             PROVE  /\ pc'[v] \in {"enqvideos", "enqimages", "fail"}
                    /\ Job(v)'.kind = "index" /\ Job(v)'.share = j.share
                    /\ Hits(j)'
  BY DEF ListingHits
<1> DEFINE Fine == /\ pc'[v] \in {"enqvideos", "enqimages", "fail"}
                   /\ Job(v)'.kind = "index" /\ Job(v)'.share = j.share
                   /\ Hits(j)'
<1>0. /\ TypeOK /\ QueueSound /\ Holding /\ HandlerFits /\ IdsFresh /\ ListingHits
      /\ TypeOK' /\ TasksKept /\ RowsKept /\ nextId' \in Nat
  BY QueueInv, FileInv, NextIdNat DEF IInv
<1>a. ASSUME j \in todo[v], task'[v] = task[v], pc'[v] = pc[v] \/ pc'[v] = "fail" PROVE Fine
  <2>1. /\ pc[v] \in {"enqvideos", "enqimages", "fail"} /\ j \in Previews
        /\ Job(v).kind = "index" /\ Job(v).share = j.share /\ Hits(j)
    BY <1>0, <1>a DEF ListingHits, TypeOK
  <2>2. Job(v)' = Job(v)
    BY <1>0, <1>a, <2>1, JobKept
  <2> QED
    BY <1>0, <1>a, <2>1, <2>2, HitsKept
<1>1. ASSUME UNCHANGED <<pc, local, running>> PROVE Fine
  BY <1>1, <1>a DEF local
<1>2. ASSUME NEW w \in Worker, Handler(w) PROVE Fine
  <2>1. Moves(w)
    BY <1>0, <1>2, HandlerMoves
  <2>2. CASE w # v
    BY <1>a, <2>1, <2>2 DEF Moves
  <2>3. CASE w = v /\ IndexStep(v)
    <3>1. CASE j \in todo[v] /\ pc'[v] = pc[v]
      BY <1>a, <2>1, <2>3, <3>1 DEF Moves
    <3>2. ASSUME NEW k \in Media, NEW f \in Listed(Job(v).share, k), j = PreviewJob(f),
                 pc'[v] \in {"enqvideos", "enqimages"}
          PROVE  Fine
      <4>1. Hits(j) /\ j \in Previews /\ j.share = Job(v).share
        BY <1>0, <3>2, ListedHits, ListedPayload
      <4>2. Job(v).kind = "index" /\ Job(v)' = Job(v)
        BY <1>0, <2>1, <2>3, IndexMoves, JobKept DEF HandlerFits, Moves
      <4> QED
        BY <1>0, <3>2, <4>1, <4>2, HitsKept
    <3> HIDE DEF Fine
    <3> QED
      BY <2>3, <3>1, <3>2, ListingStep
  <2>4. CASE w = v /\ (PreviewStep(v) \/ TouchStep(v))
    <3>1. todo'[v] = todo[v] /\ pc[v] \notin {"enqvideos", "enqimages", "fail"}
      BY <1>0, <2>4, PreviewMoves, TouchMoves DEF TouchState
    <3> QED
      BY <1>0, <3>1 DEF ListingHits
  <2>5. CASE w = v /\ StatementRaises(v)
    <3>1. todo' = todo /\ (pc'[v] = "fail" \/ Job(v).kind = "image")
      BY <1>0, <2>5, RaiseMoves
    <3>2. j \in todo[v] /\ Job(v).kind = "index"
      BY <1>0, <3>1 DEF ListingHits
    <3> QED
      BY <1>a, <2>1, <2>5, <3>1, <3>2 DEF Moves
  <2> HIDE DEF Fine
  <2> QED
    BY <1>2, <2>2, <2>3, <2>4, <2>5 DEF Handler
<1>3. ASSUME NEW w \in Worker, Ends(w) PROVE Fine
  BY <1>0, <1>3, <1>a, EndsLocal
<1>4. ASSUME NEW w \in Worker, NEW t \in Task, Takes(w, t) PROVE Fine
  <2>1. todo[w] = {} /\ todo' = todo
    BY <1>0, <1>4, TakesLocal DEF ListingHits
  <2> QED
    BY <1>0, <1>4, <1>a, <2>1, TakesLocal
<1>5. ASSUME Restart PROVE Fine
  BY <1>5 DEF Restart
<1> HIDE DEF Fine
<1>6. Fine
  BY <1>1, <1>2, <1>3, <1>4, <1>5, WorkersStep
<1> QED
  BY <1>6 DEF Fine

-----------------------------------------------------------------------------
(* A preview stays done: its row stays ready or goes. *)
LEMMA DoneInv == IInv /\ [Next]_vars => PreviewDone'
<1> SUFFICES ASSUME IInv, [Next]_vars, NEW v \in Worker,
                    pc'[v] \in {"owner", "done"} \cup TouchState,
                    Job(v)'.kind \in Media, ~raising'[v]
             PROVE  (file[Job(v).file] = NoRow \/ file[Job(v).file].ready)'
  BY DEF PreviewDone
<1> DEFINE Done == (file[Job(v).file] = NoRow \/ file[Job(v).file].ready)'
<1>0. /\ TypeOK /\ QueueSound /\ Holding /\ HandlerFits /\ JobsHit /\ PreviewDone
      /\ TasksKept /\ RowsKept
  BY QueueInv, FileInv DEF IInv
<1>p. pc'[v] \notin {"idle", "dead", "fail", "index", "build"}
  BY DEF TouchState
<1>a. ASSUME task'[v] = task[v], raising'[v] = raising[v],
             pc[v] \in {"owner", "done"} \cup TouchState
      PROVE  Done
  <2>1. Job(v)' = Job(v) /\ task[v] \in running
    BY <1>0, <1>a, HeldJob, JobKept DEF TouchState
  <2>2. Job(v) \in Previews /\ Job(v).file < nextId
    BY <1>0, <1>a, <2>1, HeldJob, PreviewPayload
       DEF JobsHit, Hits, Job, Queue!known, TouchState
  <2>3. Job(v).file \in FileId
    BY <2>2 DEF Previews
  <2>4. file[Job(v).file] = NoRow \/ file[Job(v).file].ready
    BY <1>0, <1>a, <2>1 DEF PreviewDone
  <2> QED
    BY <1>0, <2>1, <2>2, <2>3, <2>4 DEF RowsKept
<1>1. ASSUME UNCHANGED <<pc, local, running>> PROVE Done
  BY <1>1, <1>a DEF local
<1>2. ASSUME NEW w \in Worker, Handler(w) PROVE Done
  <2>1. Moves(w)
    BY <1>0, <1>2, HandlerMoves
  <2>2. CASE w # v
    BY <1>a, <2>1, <2>2 DEF Moves
  <2>3. CASE w = v /\ IndexStep(v)
    BY <1>0, <2>1, <2>3, IndexMoves, JobKept DEF HandlerFits, Moves, Media
  <2>4. CASE w = v /\ PreviewStep(v)
    <3>1. CASE BuildPreview(v)
      <4>1. Job(v)' = Job(v) /\ Job(v) \in Jobs
        BY <1>0, <2>1, <2>4, HeldJob, JobKept DEF Moves
      <4>2. Job(v).file \in FileId
        BY <4>1, PreviewPayload DEF Previews
      <4>3. SetPreviewReady(Job(v).file)
        BY <3>1 DEF BuildPreview
      <4>4. CASE file[Job(v).file] = NoRow
        BY <4>1, <4>3, <4>4 DEF SetPreviewReady
      <4>5. CASE file[Job(v).file] # NoRow
        BY <1>0, <4>1, <4>2, <4>3, <4>5 DEF SetPreviewReady, TypeOK, Rows
      <4> QED
        BY <4>4, <4>5
    <3>2. CASE PreviewFails(v) \/ PosterFails(v)
      BY <1>0, <1>p, <3>2 DEF PreviewFails, PosterFails, Go, TypeOK
    <3>3. CASE FindOwner(v)
      BY <1>a, <3>3 DEF FindOwner, local
    <3> QED
      BY <2>4, <3>1, <3>2, <3>3 DEF PreviewStep
  <2>5. CASE w = v /\ TouchStep(v)
    BY <1>0, <1>a, <2>1, <2>5, TouchMoves DEF Moves
  <2>6. CASE w = v /\ StatementRaises(v)
    BY <1>0, <1>p, <2>6, RaiseMoves
  <2> HIDE DEF Done
  <2> QED
    BY <1>2, <2>2, <2>3, <2>4, <2>5, <2>6 DEF Handler
<1>3. ASSUME NEW w \in Worker, Ends(w) PROVE Done
  BY <1>0, <1>p, <1>3, <1>a, EndsLocal
<1>4. ASSUME NEW w \in Worker, NEW t \in Task, Takes(w, t) PROVE Done
  BY <1>0, <1>p, <1>4, <1>a, TakesLocal DEF FirstState
<1>5. ASSUME Restart PROVE Done
  BY <1>p, <1>5 DEF Restart
<1> HIDE DEF Done
<1>6. Done
  BY <1>1, <1>2, <1>3, <1>4, <1>5, WorkersStep
<1> QED
  BY <1>6 DEF Done

-----------------------------------------------------------------------------
(* The four ways to remember file f of share s and media type k. *)
WillBeListed(s, k) == \E w \in Worker : Indexes(w, s) /\ pc[w] \in WillList(k)

IsListed(f) == \E w \in Worker : \E j \in todo[w] : j.file = f

HasTask(f) ==
  \E t \in waiting \cup running \cup Abandoned : job[t].kind \in Media /\ job[t].file = f

IndexAbandoned(s) == \E t \in Abandoned : job[t] = IndexJob(s)

(* Being remembered is one of the four ways. *)
LEMMA RememberedWays ==
  ASSUME NEW f \in FileId
  PROVE  Remembered(f) <=> \/ WillBeListed(file[f].share, Kind[file[f].path])
                           \/ IsListed(f) \/ HasTask(f) \/ IndexAbandoned(file[f].share)
BY DEF Remembered, WillBeListed, IsListed, HasTask, IndexAbandoned

(* An abandoned task is a known one. *)
LEMMA AbandonedKnown == TypeOK => Abandoned \subseteq Queue!known
BY DEF TypeOK, Abandoned, Queue!known

(* What an index task abandoned stays abandoned. *)
LEMMA AbandonedKept ==
  ASSUME IInv, TasksKept, NEW s, IndexAbandoned(s)
  PROVE  IndexAbandoned(s)'
<1>1. PICK t \in Abandoned : job[t] = IndexJob(s)
  BY DEF IndexAbandoned
<1>2. t \in Abandoned' /\ job'[t] = IndexJob(s)
  BY <1>1, AbandonedKnown DEF IInv, TasksKept
<1> QED
  BY <1>2 DEF IndexAbandoned, IndexJob

(* An index task that fails or is swept away is abandoned. *)
LEMMA IndexGivenUp ==
  ASSUME IInv, [Next]_vars, NEW w \in Worker, NEW s, Job(w) = IndexJob(s),
         \/ Restart /\ pc[w] \notin {"idle", "dead"}
         \/ Ends(w) /\ pc[w] = "fail"
  PROVE  IndexAbandoned(s)'
<1>0. TypeOK /\ TasksKept /\ task[w] \in running
  BY QueueInv, HeldJob DEF IInv, Ends, MarkDone, MarkError, MarkDies
<1>1. job'[task[w]] = IndexJob(s)
  BY <1>0 DEF TasksKept, Queue!known, Job
<1>2. task[w] \in Abandoned'
  BY <1>0 DEF Ends, MarkDone, MarkError, MarkDies, Restart, Queue!Lose, Abandoned
<1> QED
  BY <1>1, <1>2 DEF IndexAbandoned, IndexJob

(* A preview task goes away without having been abandoned only by          *)
(* mark_done.                                                              *)
LEMMA TaskGoes ==
  ASSUME IInv, [Next]_vars, NEW t \in waiting \cup running \cup Abandoned
  PROVE  \/ t \in (waiting \cup running \cup Abandoned)'
         \/ \E w \in Worker : MarkDone(w) /\ task[w] = t
<1>0. TypeOK /\ TasksKept
  BY QueueInv DEF IInv
<1>1. CASE t \in Abandoned
  BY <1>0, <1>1 DEF TasksKept
<1>2. CASE t \in waiting \cup running
  <2>1. CASE UNCHANGED tasks
    BY <1>2, <2>1 DEF tasks
  <2>2. ASSUME NEW s \in Share, RequestIndex(s) PROVE t \in (waiting \cup running)'
    BY <1>2, <2>2 DEF RequestIndex, Enqueue, Queue!Submit
  <2>3. ASSUME NEW w \in Worker, NEW j \in todo[w], EnqueuePreview(w, j)
        PROVE  t \in (waiting \cup running)'
    BY <1>2, <2>3 DEF EnqueuePreview, Enqueue, Queue!Submit
  <2>4. ASSUME NEW w \in Worker, NEW u \in Task, Claim(w, u) \/ ClaimDies(w, u)
        PROVE  t \in (waiting \cup running \cup Abandoned)'
    BY <1>2, <2>4 DEF Claim, ClaimDies, Queue!Start, Queue!Drop, Abandoned
  <2>5. ASSUME NEW w \in Worker, MarkError(w) \/ MarkDies(w)
        PROVE  t \in (waiting \cup running \cup Abandoned)'
    BY <1>2, <2>5 DEF MarkError, MarkDies, Queue!Settle, Queue!Lose, Abandoned
  <2>6. ASSUME NEW w \in Worker, MarkDone(w), task[w] # t
        PROVE  t \in (waiting \cup running)'
    BY <1>2, <2>6 DEF MarkDone, Queue!Settle
  <2>7. CASE Restart
    BY <1>2, <2>7 DEF Restart, Abandoned
  <2> QED
    BY <2>1, <2>2, <2>3, <2>4, <2>5, <2>6, <2>7, QueueStep
<1> QED
  BY <1>1, <1>2

(* A task for a file without a preview stays. *)
LEMMA TaskStays ==
  ASSUME IInv, [Next]_vars, NEW f \in FileId, HasTask(f), file[f] # NoRow, ~file[f].ready
  PROVE  HasTask(f)'
<1>0. /\ TypeOK /\ TasksKept /\ HandlerFits /\ PreviewDone
  BY QueueInv DEF IInv
<1>1. PICK t \in waiting \cup running \cup Abandoned :
        job[t].kind \in Media /\ job[t].file = f
  BY DEF HasTask
<1>2. job'[t] = job[t]
  BY <1>0, AbandonedKnown DEF TasksKept, Queue!known
<1>3. ASSUME NEW w \in Worker, MarkDone(w), task[w] = t PROVE FALSE
  <2>1. pc[w] = "done" /\ Job(w).kind \in Media /\ Job(w).file = f
    BY <1>1, <1>3 DEF MarkDone, Job
  <2>2. ~raising[w]
    BY <1>0, <2>1 DEF HandlerFits, TouchState
  <2> QED
    BY <1>0, <2>1, <2>2 DEF PreviewDone
<1>4. t \in (waiting \cup running \cup Abandoned)'
  BY <1>3, TaskGoes
<1> QED
  BY <1>1, <1>2, <1>4 DEF HasTask

(* An index task that was to list a file lists it. *)
LEMMA WillListStep ==
  ASSUME TypeOK, NEW w \in Worker, IndexStep(w), NEW k \in Media, pc[w] \in WillList(k),
         NEW f \in Listed(Job(w).share, k)
  PROVE  \/ pc'[w] \in WillList(k)
         \/ \E j \in todo'[w] : j.file = f
<1> DEFINE Goal == \/ pc'[w] \in WillList(k)
                   \/ \E j \in todo'[w] : j.file = f
<1>0. /\ pc \in [Worker -> WorkerState] /\ todo \in [Worker -> SUBSET Previews]
      /\ PreviewJob(f).file = f /\ k \in {"image", "video"}
  BY ListedPayload DEF TypeOK, Media
<1>1. ASSUME IndexStart(w) \/ ClearFiles(w) \/ WalkEnds(w) \/ CountMedia(w)
      PROVE  Goal
  BY <1>0, <1>1 DEF IndexStart, ClearFiles, WalkEnds, CountMedia, Go, WillList
<1>2. ASSUME SetAfterScan(w) \/ Relook(w) PROVE Goal
  BY <1>0, <1>2 DEF SetAfterScan, Relook, Go, WillList
<1>3. ASSUME NEW p \in Path, AddFile(w, p) PROVE Goal
  BY <1>0, <1>3 DEF AddFile, Go, WillList
<1>4. ASSUME ListVideos(w) PROVE Goal
  BY <1>0, <1>4 DEF ListVideos, Go, WillList
<1>5. ASSUME ListImages(w) PROVE Goal
  BY <1>0, <1>5 DEF ListImages, Go, WillList
<1>6. ASSUME NEW j \in todo[w], EnqueuePreview(w, j) \/ PosterUpToDate(w, j) PROVE Goal
  BY <1>0, <1>6 DEF EnqueuePreview, PosterUpToDate
<1>7. ASSUME IndexEnds(w) PROVE Goal
  BY <1>0, <1>7 DEF IndexEnds, WillList
<1> HIDE DEF Goal
<1>8. Goal
  BY <1>1, <1>2, <1>3, <1>4, <1>5, <1>6, <1>7 DEF IndexStep
<1> QED
  BY <1>8 DEF Goal

(* A file that was to be listed is remembered after the step. *)
LEMMA ToBeListedStays ==
  ASSUME IInv, [Next]_vars, NEW s \in Share, NEW k \in Media, NEW f \in Listed(s, k),
         WillBeListed(s, k)
  PROVE  WillBeListed(s, k)' \/ IsListed(f)' \/ IndexAbandoned(s)'
<1> DEFINE Goal == WillBeListed(s, k)' \/ IsListed(f)' \/ IndexAbandoned(s)'
<1>0. TypeOK /\ TasksKept /\ Holding /\ HandlerFits
  BY QueueInv DEF IInv
<1>1. PICK v \in Worker : Indexes(v, s) /\ pc[v] \in WillList(k)
  BY DEF WillBeListed
<1>2. /\ Job(v) = IndexJob(s) /\ Job(v).kind = "index" /\ Job(v).share = s
      /\ pc[v] \notin {"idle", "dead", "done"}
  BY <1>1 DEF Indexes, IndexJob, WillList
<1>a. ASSUME task'[v] = task[v], pc'[v] \in WillList(k) PROVE Goal
  <2>1. Job(v)' = IndexJob(s)
    BY <1>0, <1>2, <1>a, JobKept
  <2>2. Indexes(v, s)'
    BY <1>0, <1>1, <1>a, <2>1 DEF Indexes, IndexJob
  <2> QED
    BY <1>a, <2>2 DEF WillBeListed, WillList
<1>3. ASSUME UNCHANGED <<pc, local, running>> PROVE Goal
  BY <1>1, <1>3, <1>a DEF local
<1>4. ASSUME NEW w \in Worker, Handler(w) PROVE Goal
  <2>1. Moves(w)
    BY <1>0, <1>4, HandlerMoves
  <2>2. CASE w # v
    BY <1>1, <1>a, <2>1, <2>2 DEF Moves
  <2>3. CASE w = v /\ IndexStep(v)
    <3>1. pc'[v] \in WillList(k) \/ \E j \in todo'[v] : j.file = f
      BY <1>0, <1>1, <1>2, <2>3, WillListStep
    <3> QED
      BY <1>a, <2>1, <2>3, <3>1 DEF Moves, IsListed
  <2>4. CASE w = v /\ (PreviewStep(v) \/ TouchStep(v))
    BY <1>0, <1>1, <2>4, PreviewMoves, TouchMoves DEF WillList, TouchState
  <2>5. CASE w = v /\ StatementRaises(v)
    <3>1. pc'[v] = "fail"
      BY <1>0, <1>2, <2>5, RaiseMoves
    <3> QED
      BY <1>a, <2>1, <2>5, <3>1 DEF Moves, WillList
  <2> HIDE DEF Goal
  <2> QED
    BY <1>4, <2>2, <2>3, <2>4, <2>5 DEF Handler
<1>5. ASSUME NEW w \in Worker, Ends(w) PROVE Goal
  <2>1. CASE w # v
    BY <1>0, <1>1, <1>5, <1>a, <2>1, EndsLocal
  <2>2. CASE w = v
    BY <1>0, <1>2, <1>5, <2>2, EndsLocal, IndexGivenUp
  <2> QED
    BY <2>1, <2>2
<1>6. ASSUME NEW w \in Worker, NEW t \in Task, Takes(w, t) PROVE Goal
  BY <1>0, <1>1, <1>2, <1>6, <1>a, TakesLocal
<1>7. ASSUME Restart PROVE Goal
  BY <1>2, <1>7, IndexGivenUp
<1> HIDE DEF Goal
<1>8. Goal
  BY <1>3, <1>4, <1>5, <1>6, <1>7, WorkersStep
<1> QED
  BY <1>8 DEF Goal

(* A listed payload stays listed, becomes a task, or sets its row ready.   *)
LEMMA ListedPayloadStep ==
  ASSUME IInv, NEW w \in Worker, IndexStep(w), NEW j \in todo[w]
  PROVE  \/ j \in todo'[w]
         \/ \E t \in waiting' : job'[t] = j
         \/ SetPreviewReady(j.file)
<1> DEFINE Goal == \/ j \in todo'[w]
                   \/ \E t \in waiting' : job'[t] = j
                   \/ SetPreviewReady(j.file)
<1>0. /\ todo \in [Worker -> SUBSET Previews] /\ job \in [Task -> Jobs \cup {NoJob}]
      /\ pc[w] \in {"enqvideos", "enqimages", "fail"}
  BY DEF IInv, TypeOK, ListingHits
<1>1. ASSUME \/ IndexStart(w) \/ ClearFiles(w) \/ WalkEnds(w) \/ CountMedia(w)
             \/ SetAfterScan(w) \/ Relook(w) \/ ListVideos(w)
      PROVE  FALSE
  BY <1>0, <1>1 DEF IndexStart, ClearFiles, WalkEnds, CountMedia, SetAfterScan, Relook,
     ListVideos
<1>2. ASSUME NEW p \in Path, AddFile(w, p) PROVE FALSE
  BY <1>0, <1>2 DEF AddFile
<1>3. ASSUME ListImages(w) \/ IndexEnds(w) PROVE FALSE
  BY <1>3 DEF ListImages, IndexEnds
<1>4. ASSUME NEW i \in todo[w], EnqueuePreview(w, i) PROVE Goal
  BY <1>0, <1>4 DEF EnqueuePreview, Enqueue, Queue!Submit
<1>5. ASSUME NEW i \in todo[w], PosterUpToDate(w, i) PROVE Goal
  BY <1>0, <1>5 DEF PosterUpToDate
<1> HIDE DEF Goal
<1>6. Goal
  BY <1>1, <1>2, <1>3, <1>4, <1>5 DEF IndexStep
<1> QED
  BY <1>6 DEF Goal

(* A listed file without a preview is remembered after the step. *)
LEMMA ListedStays ==
  ASSUME IInv, [Next]_vars, NEW s \in Share, NEW f \in FileId, IsListed(f),
         file[f] # NoRow, file[f].share = s, file'[f] # NoRow, ~file'[f].ready
  PROVE  IsListed(f)' \/ HasTask(f)' \/ IndexAbandoned(s)'
<1> DEFINE Goal == IsListed(f)' \/ HasTask(f)' \/ IndexAbandoned(s)'
<1>0. TypeOK /\ TasksKept /\ Holding /\ HandlerFits /\ ListingHits
  BY QueueInv DEF IInv
<1>v. PICK v \in Worker : \E i \in todo[v] : i.file = f
  BY DEF IsListed
<1>1. PICK j \in todo[v] : j.file = f
  BY <1>v
<1>2. /\ pc[v] \in {"enqvideos", "enqimages", "fail"} /\ j \in Previews
      /\ Job(v).kind = "index" /\ Job(v).share = s
  BY <1>0, <1>1 DEF ListingHits, Hits, TypeOK
<1>3. Job(v) = IndexJob(s)
  BY <1>0, <1>2, HeldJob, IndexPayload
<1>a. ASSUME j \in todo'[v] PROVE Goal
  BY <1>1, <1>a DEF IsListed
<1>4. ASSUME UNCHANGED <<pc, local, running>> PROVE Goal
  BY <1>4, <1>a DEF local
<1>5. ASSUME NEW w \in Worker, Handler(w) PROVE Goal
  <2>1. Moves(w)
    BY <1>0, <1>5, HandlerMoves
  <2>2. CASE w # v
    BY <1>a, <2>1, <2>2 DEF Moves
  <2>3. CASE w = v /\ IndexStep(v)
    <3>1. CASE j \in todo'[v]
      BY <1>a, <3>1
    <3>2. ASSUME NEW t \in waiting', job'[t] = j PROVE Goal
      <4>1. j.kind \in Media
        BY <1>2 DEF Previews
      <4> QED
        BY <1>1, <3>2, <4>1 DEF HasTask
    <3>3. CASE SetPreviewReady(j.file)
      BY <1>0, <1>1, <3>3 DEF SetPreviewReady, TypeOK, Rows
    <3> HIDE DEF Goal
    <3> QED
      BY <2>3, <3>1, <3>2, <3>3, ListedPayloadStep
  <2>4. CASE w = v /\ (PreviewStep(v) \/ TouchStep(v) \/ StatementRaises(v))
    BY <1>0, <1>a, <2>4, PreviewMoves, TouchMoves, RaiseMoves
  <2> HIDE DEF Goal
  <2> QED
    BY <1>5, <2>2, <2>3, <2>4 DEF Handler
<1>6. ASSUME NEW w \in Worker, Ends(w) PROVE Goal
  <2>1. CASE w # v
    BY <1>0, <1>6, <1>a, <2>1, EndsLocal
  <2>2. CASE w = v
    BY <1>0, <1>2, <1>3, <1>6, <2>2, EndsLocal, IndexGivenUp
  <2> QED
    BY <2>1, <2>2
<1>7. ASSUME NEW w \in Worker, NEW t \in Task, Takes(w, t) PROVE Goal
  BY <1>0, <1>7, <1>a, TakesLocal
<1>8. ASSUME Restart PROVE Goal
  BY <1>2, <1>3, <1>8, IndexGivenUp
<1> HIDE DEF Goal
<1>9. Goal
  BY <1>4, <1>5, <1>6, <1>7, <1>8, WorkersStep
<1> QED
  BY <1>9 DEF Goal

(* A row with a new id was added by a task that will list it. *)
LEMMA NewRowListed ==
  ASSUME IInv, [Next]_vars, NEW s \in Share, NEW k \in Media, NEW f \in FileId,
         f >= nextId, file'[f] # NoRow, file'[f].share = s, Kind[file'[f].path] = k
  PROVE  WillBeListed(s, k)'
<1>0. TypeOK /\ IdsFresh /\ Holding /\ file[f] = NoRow
  BY DEF IInv, IdsFresh
<1>1. CASE ShareMoves
  BY <1>0, <1>1 DEF ShareMoves
<1>2. CASE SomeReady
  BY <1>0, <1>2 DEF SomeReady, SetPreviewReady, TypeOK
<1>3. ASSUME NEW r \in Share, RemoveShare(r) PROVE FALSE
  BY <1>0, <1>3 DEF RemoveShare, DeleteRowsOf
<1>4. ASSUME NEW w \in Worker, ClearFiles(w) PROVE FALSE
  BY <1>0, <1>4 DEF ClearFiles, DeleteRowsOf
<1>5. ASSUME NEW w \in Worker, NEW p \in Path, AddFile(w, p)
      PROVE  WillBeListed(s, k)'
  <2>1. ReplaceRow(Job(w).share, p) /\ UNCHANGED <<pc, task>>
    BY <1>0, <1>5, AddFileStep
  <2>2. file'[f].share = Job(w).share /\ Job(w) = IndexJob(Job(w).share)
    BY <1>0, <1>5, <2>1, AddFileStep DEF ReplaceRow
  <2>3. pc[w] = "walk" /\ task[w] # NoTask /\ Job(w)' = Job(w)
    BY <1>0, <1>5, <2>1, QueueInv, JobKept DEF AddFile, Holding
  <2>4. Indexes(w, s)' /\ pc'[w] = "walk"
    BY <2>1, <2>2, <2>3 DEF Indexes, IndexJob
  <2> QED
    BY <2>4 DEF WillBeListed, WillList
<1> QED
  BY <1>1, <1>2, <1>3, <1>4, <1>5, FileStep

(* A file without a preview is remembered after every step. *)
LEMMA ForgottenInv == IInv /\ [Next]_vars => NoMediaForgotten'
<1> SUFFICES ASSUME IInv, [Next]_vars, NEW s \in Share, NEW f \in Unready(s)'
             PROVE  Remembered(f)'
  BY DEF NoMediaForgotten
<1>0. /\ TypeOK /\ RowsKept /\ TasksKept /\ NoMediaForgotten
      /\ nextId \in Nat /\ FileId \subseteq Nat
  BY FileInv, QueueInv, IndexAssumption DEF IInv, TypeOK, FileId
<1>1. /\ f \in FileId /\ file'[f] # NoRow /\ file'[f].share = s
      /\ Kind[file'[f].path] \in Media /\ ~file'[f].ready
  BY DEF Unready, MediaOf, Listed, RowsOf, Media
<1>2. PICK k \in Media : k = Kind[file'[f].path]
  BY <1>1
<1>3. ASSUME f < nextId
      PROVE  WillBeListed(s, k)' \/ IsListed(f)' \/ HasTask(f)' \/ IndexAbandoned(s)'
  <2>1. /\ file[f] # NoRow /\ file[f].share = s /\ ~file[f].ready
        /\ Kind[file[f].path] = k
    BY <1>0, <1>1, <1>2, <1>3 DEF RowsKept
  <2>2. f \in Listed(s, k) /\ f \in Unready(s)
    BY <1>1, <1>2, <2>1 DEF Unready, MediaOf, Listed, RowsOf, Media
  <2>3. WillBeListed(s, k) \/ IsListed(f) \/ HasTask(f) \/ IndexAbandoned(s)
    BY <1>0, <1>1, <2>1, <2>2, RememberedWays DEF NoMediaForgotten
  <2> QED
    BY <1>0, <1>1, <2>1, <2>2, <2>3, ToBeListedStays, ListedStays, TaskStays,
       AbandonedKept
<1>4. ASSUME f >= nextId PROVE WillBeListed(s, k)'
  BY <1>1, <1>2, <1>4, NewRowListed
<1>5. WillBeListed(s, k)' \/ IsListed(f)' \/ HasTask(f)' \/ IndexAbandoned(s)'
  BY <1>0, <1>1, <1>3, <1>4
<1>6. CASE WillBeListed(s, k)'
  BY <1>1, <1>2, <1>6 DEF WillBeListed, Remembered
<1>7. CASE IsListed(f)'
  BY <1>7 DEF IsListed, Remembered
<1>8. CASE HasTask(f)'
  BY <1>8 DEF HasTask, Remembered
<1>9. CASE IndexAbandoned(s)'
  BY <1>1, <1>9 DEF IndexAbandoned, IndexJob, Remembered
<1> QED
  BY <1>5, <1>6, <1>7, <1>8, <1>9

-----------------------------------------------------------------------------
(* What a step does to the status of a share. *)
LEMMA ShareStep ==
  ASSUME IInv, [Next]_vars, NEW s \in Share
  PROVE  \/ share'[s] = share[s]
         \/ AddShare(s)
         \/ /\ share[s] \in ScanStatus
            /\ share'[s] \in {"removed", "error", "posters_pending", "ready"}
         \/ \E w \in Worker : /\ Indexes(w, s) /\ IndexStart(w) /\ pc'[w] = "clear"
                              /\ share[s] \in ScanStatus
                              /\ share'[s] = "scanning"
<1> DEFINE Goal == \/ share'[s] = share[s]
                   \/ AddShare(s)
                   \/ /\ share[s] \in ScanStatus
                      /\ share'[s] \in {"removed", "error", "posters_pending", "ready"}
                   \/ \E w \in Worker :
                        /\ Indexes(w, s) /\ IndexStart(w) /\ pc'[w] = "clear"
                        /\ share[s] \in ScanStatus
                        /\ share'[s] = "scanning"
<1>0. TypeOK /\ Holding /\ HandlerFits
  BY DEF IInv
<1>a. ASSUME NEW r, NEW st \in {"error", "posters_pending", "ready"}, SetScanStatus(r, st)
      PROVE  Goal
  BY <1>0, <1>a DEF SetScanStatus, Exists, TypeOK
<1>1. ASSUME UNCHANGED share PROVE Goal
  BY <1>1
<1>2. ASSUME UNCHANGED vars PROVE Goal
  BY <1>1, <1>2 DEF vars, tables
<1>3. ASSUME NEW r \in Share, Request(r) PROVE Goal
  BY <1>0, <1>3 DEF Request, AddShare, ReindexListed, RequestIndex, RemoveShare, Exists,
     tables, TypeOK
<1>4. ASSUME NEW w \in Worker, WorkerStep(w) PROVE Goal
  <2>1. CASE IndexStep(w)
    <3>1. CASE IndexStart(w)
      <4>1. CASE SetScanStatus(Job(w).share, "scanning") /\ Go(w, "clear")
        <5>1. Job(w) = IndexJob(Job(w).share) /\ Job(w).share \in Share /\ task[w] # NoTask
          BY <1>0, <3>1, HeldJob, IndexPayload
             DEF IndexStart, HandlerFits, IndexState, Holding
        <5>2. pc'[w] = "clear"
          BY <1>0, <4>1 DEF Go, TypeOK
        <5>3. CASE Job(w).share = s
          BY <1>0, <3>1, <4>1, <5>1, <5>2, <5>3
             DEF SetScanStatus, Exists, Indexes, TypeOK
        <5>4. CASE Job(w).share # s
          BY <1>0, <4>1, <5>4 DEF SetScanStatus, TypeOK
        <5> QED
          BY <5>3, <5>4
      <4> HIDE DEF Goal
      <4> QED
        BY <1>1, <1>a, <3>1, <4>1 DEF IndexStart
    <3>2. CASE SetAfterScan(w)
      BY <1>a, <3>2 DEF SetAfterScan
    <3> HIDE DEF Goal
    <3> QED
      BY <1>1, <2>1, <3>1, <3>2 DEF IndexStep, ClearFiles, AddFile, WalkEnds, CountMedia,
         Relook, ListVideos, EnqueuePreview, ListImages, PosterUpToDate, IndexEnds, tables
  <2>2. CASE PreviewStep(w) \/ TouchStep(w)
    <3> HIDE DEF Goal
    <3> QED
      BY <1>1, <1>a, <2>2 DEF PreviewStep, BuildPreview, PreviewFails, PosterFails,
         FindOwner, TouchStep, ReadShare, CountPending, FinalizeStatus, tables
  <2> HIDE DEF Goal
  <2> QED
    BY <1>1, <1>4, <2>1, <2>2 DEF WorkerStep, Claim, MarkDone, MarkError, tables
<1>5. ASSUME FaultStep PROVE Goal
  <2> HIDE DEF Goal
  <2> QED
    BY <1>1, <1>5 DEF FaultStep, StatementRaises, MarkDies, ClaimDies, RequestFails,
       Restart, tables
<1> HIDE DEF Goal
<1>6. Goal
  BY <1>2, <1>3, <1>4, <1>5 DEF Next
<1> QED
  BY <1>6 DEF Goal

(* What a step does to the requests that are due. *)
LEMMA DueStep ==
  ASSUME IInv, [Next]_vars, NEW s \in Share
  PROVE  \/ due'[s] <= due[s]
         \/ AddShare(s) \/ ReindexListed(s)
<1>0. due \in [Share -> Nat]
  BY DEF IInv, TypeOK
<1>1. ASSUME UNCHANGED due PROVE due'[s] <= due[s]
  BY <1>0, <1>1
<1>2. ASSUME NEW r \in Share, Request(r)
      PROVE  due'[s] <= due[s] \/ AddShare(s) \/ ReindexListed(s)
  BY <1>0, <1>2 DEF Request, AddShare, ReindexListed, RequestIndex, RemoveShare, Accept
<1>3. ASSUME NEW r \in Share, RequestFails(r) PROVE due'[s] <= due[s]
  BY <1>0, <1>3 DEF RequestFails
<1>4. CASE Restart
  BY <1>0, <1>4 DEF Restart
<1>5. ASSUME NEW w \in Worker, WorkerStep(w) PROVE UNCHANGED due
  BY <1>5 DEF WorkerStep, Claim, IndexStep, IndexStart, ClearFiles, AddFile, WalkEnds,
     CountMedia, SetAfterScan, Relook, ListVideos, EnqueuePreview, ListImages,
     PosterUpToDate, IndexEnds, PreviewStep, BuildPreview, PreviewFails, PosterFails,
     FindOwner, TouchStep, ReadShare, CountPending, FinalizeStatus, MarkDone, MarkError
<1>6. ASSUME NEW w \in Worker, NEW t \in Task,
             StatementRaises(w) \/ MarkDies(w) \/ ClaimDies(w, t)
      PROVE  UNCHANGED due
  BY <1>6 DEF StatementRaises, MarkDies, ClaimDies
<1>7. ASSUME NEW w \in Worker, StatementRaises(w) \/ MarkDies(w) PROVE UNCHANGED due
  BY <1>7 DEF StatementRaises, MarkDies
<1>8. UNCHANGED vars => UNCHANGED due
  BY DEF vars
<1> QED
  BY <1>1, <1>2, <1>3, <1>4, <1>5, <1>6, <1>7, <1>8 DEF Next, FaultStep

(* A task that is new in the queue was asked for or makes a preview. *)
LEMMA NewTasks ==
  ASSUME IInv, [Next]_vars, NEW t \in Queue!known', t \notin Queue!known
  PROVE  \/ \E s \in Share : due[s] > 0 /\ RequestIndex(s) /\ job'[t] = IndexJob(s)
         \/ job'[t].kind \in Media
<1>0. TypeOK /\ ListingHits
  BY DEF IInv
<1>1. ASSUME NEW u, NEW j, Enqueue(u, j) PROVE job'[t] = j
  BY <1>0, <1>1 DEF Enqueue, Queue!Submit, Queue!known, TypeOK
<1>2. ASSUME NEW s \in Share, RequestIndex(s)
      PROVE  due[s] > 0 /\ job'[t] = IndexJob(s)
  BY <1>1, <1>2 DEF RequestIndex
<1>3. ASSUME NEW w \in Worker, NEW j \in todo[w], EnqueuePreview(w, j)
      PROVE  job'[t].kind \in Media
  BY <1>0, <1>1, <1>3 DEF EnqueuePreview, TypeOK, Previews
<1>4. ASSUME UNCHANGED tasks PROVE FALSE
  BY <1>4 DEF tasks, Queue!known
<1>5. ASSUME NEW w \in Worker, NEW u \in Task, Claim(w, u) \/ ClaimDies(w, u) PROVE FALSE
  BY <1>5 DEF Claim, ClaimDies, Queue!Start, Queue!Drop, Queue!known
<1>6. ASSUME NEW w \in Worker, MarkDone(w) \/ MarkError(w) \/ MarkDies(w) PROVE FALSE
  BY <1>0, <1>6 DEF MarkDone, MarkError, MarkDies, Queue!Settle, Queue!Lose, Queue!known
<1>7. CASE Restart
  BY <1>7 DEF Restart, Queue!known
<1> QED
  BY <1>2, <1>3, <1>4, <1>5, <1>6, <1>7, QueueStep

(* Only a share that has been added is asked for. *)
LEMMA AskedInv == IInv /\ [Next]_vars => IndexAsked'
<1> SUFFICES ASSUME IInv, [Next]_vars, NEW s \in Share,
                    due'[s] > 0 \/ \E t \in Queue!known' : job'[t] = IndexJob(s)
             PROVE  share'[s] # "none"
  BY DEF IndexAsked, IndexJob
<1>0. TypeOK /\ IndexAsked /\ TasksKept /\ due \in [Share -> Nat] /\ due' \in [Share -> Nat]
  BY QueueInv, TypeInv DEF IInv, TypeOK
<1>1. CASE share[s] # "none"
  BY <1>0, <1>1, ShareStep DEF AddShare, ScanStatus, TypeOK
<1>2. CASE due'[s] > 0 /\ share[s] = "none"
  <2>1. due[s] = 0
    BY <1>0, <1>2 DEF IndexAsked
  <2>2. AddShare(s) \/ ReindexListed(s)
    BY <1>0, <1>2, <2>1, DueStep
  <2> QED
    BY <1>0, <1>2, <2>2 DEF AddShare, ReindexListed, Exists, ScanStatus, TypeOK
<1>3. ASSUME NEW t \in Queue!known', job'[t] = IndexJob(s) PROVE share[s] # "none"
  <2>1. CASE t \in Queue!known
    BY <1>0, <1>3, <2>1 DEF IndexAsked, TasksKept
  <2>2. CASE t \notin Queue!known
    <3>1. \/ \E r \in Share : due[r] > 0 /\ job'[t] = IndexJob(r)
          \/ job'[t].kind \in Media
      BY <1>3, <2>2, NewTasks
    <3>2. \E r \in Share : due[r] > 0 /\ IndexJob(s) = IndexJob(r)
      BY <1>3, <3>1, IndexJobKind
    <3> QED
      BY <1>0, <3>2 DEF IndexAsked, IndexJob
  <2> QED
    BY <2>1, <2>2
<1> QED
  BY <1>1, <1>2, <1>3

(* Where the history is clean the step is none of the faults. *)
LEMMA CleanStep ==
  ASSUME IInv, [Next]_vars, restarts' = 0, faults' = 0
  PROVE  restarts = 0 /\ faults = 0 /\ ~FaultStep
<1>0. restarts \in Nat /\ faults \in Nat
  BY DEF IInv, TypeOK
<1>1. ~FaultStep
  <2>1. ASSUME Fault PROVE FALSE
    BY <1>0, <2>1 DEF Fault
  <2>2. ~Restart
    BY <1>0 DEF Restart
  <2> QED
    BY <2>1, <2>2 DEF FaultStep, StatementRaises, MarkDies, ClaimDies, RequestFails
<1>2. ASSUME NEW s \in Share, Request(s) PROVE UNCHANGED <<restarts, faults>>
  BY <1>2 DEF Request, AddShare, ReindexListed, RequestIndex, RemoveShare, limits
<1>3. ASSUME NEW w \in Worker, WorkerStep(w) PROVE UNCHANGED <<restarts, faults>>
  BY <1>3 DEF WorkerStep, Claim, IndexStep, IndexStart, ClearFiles, AddFile, WalkEnds,
     CountMedia, SetAfterScan, Relook, ListVideos, EnqueuePreview, ListImages,
     PosterUpToDate, IndexEnds, PreviewStep, BuildPreview, PreviewFails, PosterFails,
     FindOwner, TouchStep, ReadShare, CountPending, FinalizeStatus, MarkDone, MarkError,
     limits
<1>4. UNCHANGED vars => UNCHANGED <<restarts, faults>>
  BY DEF vars, limits
<1> QED
  BY <1>1, <1>2, <1>3, <1>4 DEF Next

(* A worker without a handler has no task. *)
LEMMA HeldFree ==
  ASSUME IInv, [Next]_vars, NEW v \in Worker, NEW s, Indexes(v, s)',
         task'[v] = task[v], pc[v] \in {"idle", "dead"}
  PROVE  FALSE
BY DEF IInv, Holding, Indexes

(* An index task that is scanning goes on scanning or ends the status. *)
LEMMA ScannerStep ==
  ASSUME TypeOK, NEW v \in Worker, NEW s \in Share, IndexStep(v), Job(v).share = s,
         pc[v] \in Scanning, share[s] = "scanning", share'[s] = "scanning"
  PROVE  pc'[v] \in Scanning
<1>1. CASE SetAfterScan(v)
  BY <1>1 DEF SetAfterScan, SetScanStatus, Exists, ScanStatus, TypeOK
<1> QED
  BY <1>1 DEF IndexStep, IndexStart, ClearFiles, AddFile, WalkEnds, CountMedia,
     Relook, ListVideos, EnqueuePreview, ListImages, PosterUpToDate, IndexEnds,
     Scanning, Go, TypeOK

(* A started index task has given its share a status. *)
LEMMA LookedInv == IInv /\ [Next]_vars => LookedAt'
<1> SUFFICES ASSUME IInv, [Next]_vars, restarts' = 0, faults' = 0,
                    NEW v \in Worker, NEW s \in Share,
                    Indexes(v, s)', pc'[v] # "index", share'[s] = "pending"
             PROVE  FALSE
  BY DEF LookedAt
<1>0. /\ TypeOK /\ QueueSound /\ Holding /\ HandlerFits /\ IndexAsked /\ LookedAt
      /\ TasksKept /\ restarts = 0 /\ faults = 0 /\ ~FaultStep /\ Holding' /\ QueueSound'
  BY QueueInv, HoldingInv, CleanStep DEF IInv
<1>a. ASSUME task'[v] = task[v], pc[v] \notin {"idle", "dead"} PROVE Indexes(v, s)
  <2>1. Job(v)' = Job(v)
    BY <1>0, <1>a, JobKept
  <2> QED
    BY <1>a, <2>1 DEF Indexes, IndexJob
<1>b. ASSUME Indexes(v, s), pc[v] \notin {"idle", "dead"} PROVE share[s] = "pending"
  <2>1. share[s] # "none"
    BY <1>0, <1>b, HeldJob DEF IndexAsked, Indexes, Job, Queue!known
  <2> QED
    BY <2>1, ShareStep DEF AddShare
<1>c. ASSUME task'[v] = task[v], pc'[v] = pc[v], pc[v] \notin {"idle", "dead"} PROVE FALSE
  BY <1>0, <1>a, <1>b, <1>c DEF LookedAt
<1>d. ASSUME task'[v] = task[v], pc[v] \in {"idle", "dead"} PROVE FALSE
  BY <1>0, <1>d, HeldFree
<1>1. CASE UNCHANGED <<pc, local, running>>
  BY <1>1, <1>c, <1>d DEF local
<1>2. ASSUME NEW w \in Worker, Handler(w) PROVE FALSE
  <2>1. Moves(w)
    BY <1>0, <1>2, HandlerMoves
  <2>2. CASE w # v
    BY <1>c, <1>d, <2>1, <2>2 DEF Moves
  <2>3. CASE w = v
    <3>1. Indexes(v, s) /\ share[s] = "pending" /\ Job(v) = IndexJob(s)
      BY <1>a, <1>b, <2>1, <2>3 DEF Moves, Indexes
    <3>2. pc[v] = "index"
      BY <1>0, <3>1 DEF LookedAt
    <3>3. IndexStart(v)
      BY <1>0, <1>2, <2>3, <3>2 DEF Handler, IndexStep, ClearFiles, AddFile, WalkEnds,
         CountMedia, SetAfterScan, Relook, ListVideos, EnqueuePreview, ListImages,
         PosterUpToDate, IndexEnds, PreviewStep, BuildPreview, PreviewFails, PosterFails,
         FindOwner, TouchStep, ReadShare, CountPending, FinalizeStatus, FaultStep
    <3> QED
      BY <1>0, <3>1, <3>3
         DEF IndexStart, IndexJob, SetScanStatus, Exists, ScanStatus, TypeOK
  <2> QED
    BY <2>2, <2>3
<1>3. ASSUME NEW w \in Worker, Ends(w) PROVE FALSE
  BY <1>0, <1>3, <1>c, <1>d, EndsLocal DEF Indexes
<1>4. ASSUME NEW w \in Worker, NEW t \in Task, Takes(w, t) PROVE FALSE
  <2>1. CASE w # v
    BY <1>0, <1>4, <1>c, <1>d, <2>1, TakesLocal
  <2>2. CASE w = v
    <3>1. pc'[v] = FirstState(job[t]) /\ task'[v] = t /\ job' = job
      BY <1>0, <1>4, <1>d, <2>2, TakesLocal
    <3>2. job[t] = IndexJob(s)
      BY <3>1 DEF Indexes, Job, IndexJob
    <3> QED
      BY <3>1, <3>2 DEF FirstState, IndexJob
  <2> QED
    BY <2>1, <2>2
<1>5. CASE Restart
  BY <1>0, <1>5 DEF FaultStep
<1> QED
  BY <1>1, <1>2, <1>3, <1>4, <1>5, WorkersStep

(* A share shown as being scanned is being scanned. *)
LEMMA ScannerInv == IInv /\ [Next]_vars => ScanningHasScanner'
<1> SUFFICES ASSUME IInv, [Next]_vars, NEW s \in Share, share'[s] = "scanning"
             PROVE  \/ \E w \in Worker : Indexes(w, s)' /\ pc'[w] \in Scanning
                    \/ IndexAbandoned(s)'
  BY DEF ScanningHasScanner, IndexAbandoned, Scanning
<1> DEFINE Goal == \/ \E w \in Worker : Indexes(w, s)' /\ pc'[w] \in Scanning
                   \/ IndexAbandoned(s)'
<1>0. /\ TypeOK /\ Holding /\ HandlerFits /\ TasksKept /\ ScanningHasScanner
  BY QueueInv DEF IInv
<1>k. ASSUME NEW v \in Worker, Indexes(v, s), pc[v] \notin {"idle", "dead"},
             task'[v] = task[v], pc'[v] \in Scanning
      PROVE  Goal
  <2>1. Job(v)' = IndexJob(s)
    BY <1>0, <1>k, JobKept DEF Indexes
  <2> QED
    BY <1>k, <2>1 DEF Indexes, IndexJob
<1>1. ASSUME NEW w \in Worker, Indexes(w, s), IndexStart(w), pc'[w] = "clear" PROVE Goal
  BY <1>1, <1>k DEF IndexStart, local, Scanning
<1>2. ASSUME share[s] = "scanning" PROVE Goal
  <2>1. CASE IndexAbandoned(s)
    BY <1>0, <2>1, AbandonedKept
  <2>2. ASSUME NEW v \in Worker, Indexes(v, s), pc[v] \in Scanning PROVE Goal
    <3>0. /\ Job(v) = IndexJob(s) /\ Job(v).kind = "index" /\ Job(v).share = s
          /\ pc[v] \notin {"idle", "dead", "done"}
      BY <2>2 DEF Indexes, IndexJob, Scanning
    <3>a. ASSUME task'[v] = task[v], pc'[v] \in Scanning PROVE Goal
      BY <1>k, <2>2, <3>0, <3>a
    <3>1. ASSUME UNCHANGED <<pc, local, running>> PROVE Goal
      BY <2>2, <3>1, <3>a DEF local
    <3>2. ASSUME NEW w \in Worker, Handler(w) PROVE Goal
      <4>1. Moves(w)
        BY <1>0, <3>2, HandlerMoves
      <4>2. CASE w # v
        BY <2>2, <3>a, <4>1, <4>2 DEF Moves
      <4>3. CASE w = v /\ IndexStep(v)
        <5>1. pc'[v] \in Scanning
          BY <1>0, <1>2, <2>2, <3>0, <4>3, ScannerStep
        <5> QED
          BY <3>a, <4>1, <4>3, <5>1 DEF Moves
      <4>4. CASE w = v /\ (PreviewStep(v) \/ TouchStep(v))
        BY <1>0, <2>2, <4>4, PreviewMoves, TouchMoves DEF Scanning, TouchState
      <4>5. CASE w = v /\ StatementRaises(v)
        <5>1. pc'[v] = "fail"
          BY <1>0, <3>0, <4>5, RaiseMoves
        <5> QED
          BY <3>a, <4>1, <4>5, <5>1 DEF Moves, Scanning
      <4> HIDE DEF Goal
      <4> QED
        BY <3>2, <4>2, <4>3, <4>4, <4>5 DEF Handler
    <3>3. ASSUME NEW w \in Worker, Ends(w) PROVE Goal
      <4>1. CASE w # v
        BY <1>0, <2>2, <3>3, <3>a, <4>1, EndsLocal
      <4>2. CASE w = v
        BY <1>0, <3>0, <3>3, <4>2, EndsLocal, IndexGivenUp
      <4> QED
        BY <4>1, <4>2
    <3>4. ASSUME NEW w \in Worker, NEW t \in Task, Takes(w, t) PROVE Goal
      BY <1>0, <2>2, <3>0, <3>4, <3>a, TakesLocal
    <3>5. ASSUME Restart PROVE Goal
      BY <3>0, <3>5, IndexGivenUp
    <3> HIDE DEF Goal
    <3> QED
      BY <3>1, <3>2, <3>3, <3>4, <3>5, WorkersStep
  <2> HIDE DEF Goal
  <2> QED
    BY <1>0, <1>2, <2>1, <2>2 DEF ScanningHasScanner, IndexAbandoned
<1> HIDE DEF Goal
<1>3. ~AddShare(s)
  BY <1>0 DEF AddShare, TypeOK
<1>4. Goal
  BY <1>1, <1>2, <1>3, ShareStep
<1> QED
  BY <1>4 DEF Goal

(* A new share is about to be indexed. *)
LEMMA NewShareInv == IInv /\ [Next]_vars => NewShareIsIndexed'
<1> SUFFICES ASSUME IInv, [Next]_vars, restarts' = 0, faults' = 0,
                    NEW s \in Share, share'[s] = "pending"
             PROVE  \/ due'[s] > 0
                    \/ \E t \in (waiting \cup running)' : job'[t] = IndexJob(s)
  BY DEF NewShareIsIndexed, IndexJob
<1> DEFINE Goal == \/ due'[s] > 0
                   \/ \E t \in (waiting \cup running)' : job'[t] = IndexJob(s)
<1>0. /\ TypeOK /\ LookedAt /\ TasksKept /\ NewShareIsIndexed /\ due \in [Share -> Nat]
      /\ restarts = 0 /\ faults = 0 /\ ~FaultStep
  BY QueueInv, CleanStep DEF IInv, TypeOK
<1>1. ASSUME AddShare(s) PROVE Goal
  BY <1>0, <1>1 DEF AddShare, Accept
<1>2. ASSUME share[s] = "pending", due[s] > 0 PROVE Goal
  <2>1. ASSUME due'[s] = due[s] PROVE Goal
    BY <1>2, <2>1
  <2>2. ASSUME NEW r \in Share, RequestIndex(r) PROVE Goal
    <3>1. CASE r # s
      BY <1>0, <1>2, <2>2, <3>1 DEF RequestIndex
    <3>2. CASE r = s
      <4>1. PICK t : t \in waiting' /\ t \in Task /\ job' = [job EXCEPT ![t] = IndexJob(s)]
        BY <2>2, <3>2 DEF RequestIndex, Enqueue, Queue!Submit
      <4> QED
        BY <1>0, <4>1 DEF TypeOK
    <3> QED
      BY <3>1, <3>2
  <2>3. ASSUME NEW r \in Share, Request(r) PROVE Goal
    <3>1. ASSUME AddShare(r) \/ ReindexListed(r) \/ RemoveShare(r) PROVE Goal
      BY <1>0, <1>2, <3>1 DEF AddShare, ReindexListed, RemoveShare, Accept
    <3> HIDE DEF Goal
    <3> QED
      BY <2>2, <2>3, <3>1 DEF Request
  <2>4. ASSUME NEW w \in Worker, WorkerStep(w) PROVE UNCHANGED due
    BY <2>4 DEF WorkerStep, Claim, IndexStep, IndexStart, ClearFiles, AddFile, WalkEnds,
       CountMedia, SetAfterScan, Relook, ListVideos, EnqueuePreview, ListImages,
       PosterUpToDate, IndexEnds, PreviewStep, BuildPreview, PreviewFails, PosterFails,
       FindOwner, TouchStep, ReadShare, CountPending, FinalizeStatus, MarkDone, MarkError
  <2>5. CASE UNCHANGED vars
    BY <2>1, <2>5 DEF vars
  <2> HIDE DEF Goal
  <2> QED
    BY <1>0, <2>1, <2>3, <2>4, <2>5 DEF Next
<1>3. ASSUME share[s] = "pending", NEW t \in waiting \cup running, job[t] = IndexJob(s)
      PROVE  Goal
  <2>1. t \in Queue!known /\ job'[t] = IndexJob(s)
    BY <1>0, <1>3 DEF TasksKept, Queue!known
  <2>a. ASSUME t \in (waiting \cup running)' PROVE Goal
    BY <2>1, <2>a
  <2>2. ASSUME UNCHANGED tasks PROVE Goal
    BY <1>3, <2>2, <2>a DEF tasks
  <2>3. ASSUME NEW r \in Share, RequestIndex(r) PROVE Goal
    BY <1>3, <2>3, <2>a DEF RequestIndex, Enqueue, Queue!Submit
  <2>4. ASSUME NEW w \in Worker, NEW j \in todo[w], EnqueuePreview(w, j) PROVE Goal
    BY <1>3, <2>4, <2>a DEF EnqueuePreview, Enqueue, Queue!Submit
  <2>5. ASSUME NEW w \in Worker, NEW u \in Task, Claim(w, u) \/ ClaimDies(w, u) PROVE Goal
    BY <1>0, <1>3, <2>5, <2>a DEF Claim, Queue!Start, FaultStep
  <2>6. ASSUME NEW w \in Worker, MarkDone(w) \/ MarkError(w) \/ MarkDies(w) PROVE Goal
    <3>1. task[w] # t
      <4> SUFFICES ASSUME task[w] = t PROVE FALSE
        OBVIOUS
      <4>1. pc[w] \in {"done", "fail"}
        BY <2>6 DEF MarkDone, MarkError, MarkDies
      <4>2. Indexes(w, s)
        BY <1>3, <4>1, HeldJob, IndexAssumption DEF Indexes, Job, IInv, TypeOK
      <4> QED
        BY <1>0, <1>3, <4>1, <4>2 DEF LookedAt
    <3> QED
      BY <1>0, <1>3, <2>6, <2>a, <3>1 DEF MarkDone, MarkError, Queue!Settle, FaultStep
  <2>7. ASSUME Restart PROVE Goal
    BY <1>0, <2>7 DEF FaultStep
  <2> HIDE DEF Goal
  <2> QED
    BY <2>2, <2>3, <2>4, <2>5, <2>6, <2>7, QueueStep
<1> HIDE DEF Goal
<1>4. share[s] = "pending" => Goal
  BY <1>0, <1>2, <1>3 DEF NewShareIsIndexed
<1>5. share[s] = "pending" \/ AddShare(s)
  BY ShareStep
<1>6. Goal
  BY <1>1, <1>4, <1>5
<1> QED
  BY <1>6 DEF Goal

-----------------------------------------------------------------------------
(* The invariant is inductive. *)
LEMMA NextInv == IInv /\ [Next]_vars => IInv'
BY TypeInv, QueueInv, HoldingInv, FitsInv, FileInv, JobsHitInv, ListingInv, DoneInv,
   ForgottenInv, AskedInv, LookedInv, ScannerInv, NewShareInv
   DEF IInv

(* Every reachable state satisfies it. *)
THEOREM Invariance == Spec => []IInv
BY InitInv, NextInv, PTL DEF Spec

(* Every variable of the index keeps its type. *)
THEOREM TypeCorrect == Spec => []TypeOK
<1>1. IInv => TypeOK
  BY DEF IInv
<1> QED
  BY <1>1, Invariance, PTL

(* No file row outlives its share, whatever a walk and a DELETE do, and no *)
(* preview task marks a file it was not made for, whatever rescans it      *)
(* outlives (registry.py:121, 122).                                        *)
THEOREM RowsRight == Spec => []RowsFit
<1>1. IInv => NoRowsWithoutShare
  BY DEF IInv
<1>2. IInv => PreviewsHitTheirFile
  BY DEF IInv, JobsHit, Hits, PreviewsHitTheirFile, Queue!known
<1>3. IInv => RowsFit
  BY <1>1, <1>2 DEF RowsFit
<1> QED
  BY <1>3, Invariance, PTL

(* No media file without a preview is ever forgotten. *)
THEOREM NothingForgotten == Spec => []NoMediaForgotten
<1>1. IInv => NoMediaForgotten
  BY DEF IInv
<1> QED
  BY <1>1, Invariance, PTL

(* No share is left in a status nobody will end: while it is shown as      *)
(* being scanned a task scans it or has been given up, and while nothing   *)
(* failed a new share has its index task ahead (main.py:1015-1025).        *)
THEOREM StatusAttended == Spec => []SharesAttended
<1>1. IInv => SharesAttended
  BY DEF IInv, SharesAttended
<1> QED
  BY <1>1, Invariance, PTL
-----------------------------------------------------------------------------
(* With one worker: the status of a share is right, or the handler that is *)
(* running will write it once more; what it has counted is so.             *)
OneWorker == \A v, w \in Worker : v = w

Right(s) ==
  share[s] \in {"ready", "posters_pending"} => (share[s] = "ready" <=> Unready(s) = {})

Updating == {"clear", "walk", "count", "setscan", "relook", "videos", "enqvideos",
             "enqimages", "final", "pending", "status"}

WillSettle(w, s) ==
  /\ Job(w).share = s
  /\ pc[w] \in Updating \/ (pc[w] = "owner" /\ file[Job(w).file] # NoRow)

Counted(w) ==
  pc[w] = "status" /\ share[Job(w).share] # "removed" =>
    (seen[w] <=> Unready(Job(w).share) # {})

SettledOrUnderway ==
  restarts = 0 /\ faults = 0 =>
    /\ \A s \in Share : Right(s) \/ \E w \in Worker : WillSettle(w, s)
    /\ \A w \in Worker : Counted(w)

(* Rows of other shares do not matter.                                     *)
LEMMA RowsSame ==
  ASSUME NEW s,
         \A f \in FileId : \/ file[f] # NoRow /\ file[f].share = s
                           \/ file'[f] # NoRow /\ file'[f].share = s
                           => file'[f] = file[f]
  PROVE  Unready(s)' = Unready(s)
<1>1. RowsOf(s)' = RowsOf(s) /\ \A f \in RowsOf(s) : file'[f] = file[f]
  BY DEF RowsOf
<1> QED
  BY <1>1 DEF Unready, MediaOf, Listed

(* The rows a preview is set ready for are of the share it was made for.   *)
LEMMA ReadyIsOwn ==
  ASSUME IInv, NEW w \in Worker,
         \/ BuildPreview(w)
         \/ \E j \in todo[w] : PosterUpToDate(w, j)
  PROVE  \E f : SetPreviewReady(f) /\ (file[f] # NoRow => file[f].share = Job(w).share)
<1>1. CASE BuildPreview(w)
  <2>1. task[w] \in running /\ Job(w).kind \in Media
    BY <1>1, HeldJob DEF BuildPreview, IInv, HandlerFits
  <2>2. Hits(Job(w))
    BY <2>1 DEF IInv, JobsHit, Queue!known, Job
  <2> QED
    BY <1>1, <2>2 DEF BuildPreview, Hits
<1>2. CASE \E j \in todo[w] : PosterUpToDate(w, j)
  BY <1>2 DEF PosterUpToDate, IInv, ListingHits, Hits
<1> QED
  BY <1>1, <1>2

(* A handler writes about the share of its task only.                      *)
LEMMA OtherShares ==
  ASSUME IInv, NEW w \in Worker, IndexStep(w) \/ PreviewStep(w) \/ TouchStep(w),
         NEW s \in Share, s # Job(w).share
  PROVE  Unready(s)' = Unready(s) /\ share'[s] = share[s]
<1> DEFINE Goal == Unready(s)' = Unready(s) /\ share'[s] = share[s]
<1>0. TypeOK /\ nextId \in Nat /\ FileId \subseteq Nat
  BY IndexAssumption DEF IInv, TypeOK, FileId
<1>a. ASSUME UNCHANGED file PROVE Unready(s)' = Unready(s)
  BY <1>a, RowsSame
<1>b. ASSUME NEW f, SetPreviewReady(f), file[f] # NoRow => file[f].share = Job(w).share
      PROVE  Unready(s)' = Unready(s)
  <2>1. \A g \in FileId : file'[g] = IF g = f /\ file[f] # NoRow
                                      THEN [file[f] EXCEPT !.ready = TRUE] ELSE file[g]
    BY <1>0, <1>b DEF SetPreviewReady, TypeOK
  <2>2. f \in FileId /\ file[f] # NoRow =>
          [file[f] EXCEPT !.ready = TRUE].share = file[f].share
    BY <1>0 DEF TypeOK, Rows
  <2> QED
    BY <1>b, <2>1, <2>2, RowsSame
<1>1. ASSUME IndexStart(w) \/ SetAfterScan(w) \/ FinalizeStatus(w) PROVE Goal
  <2>1. share'[s] = share[s]
    BY <1>0, <1>1 DEF IndexStart, SetAfterScan, FinalizeStatus, SetScanStatus, TypeOK
  <2> QED
    BY <1>1, <1>a, <2>1 DEF IndexStart, SetAfterScan, FinalizeStatus
<1>2. ASSUME ClearFiles(w) PROVE Goal
  <2>1. \A f \in FileId : file'[f] = IF f \in RowsOf(Job(w).share) THEN NoRow ELSE file[f]
    BY <1>2 DEF ClearFiles, DeleteRowsOf
  <2> QED
    BY <1>2, <2>1, RowsSame DEF ClearFiles, RowsOf
<1>3. ASSUME NEW p \in Path, AddFile(w, p) PROVE Goal
  <2>1. CASE ReplaceRow(Job(w).share, p)
    <3>1. file[nextId] = NoRow /\ nextId \in FileId
      BY <1>0, <2>1 DEF IInv, IdsFresh, ReplaceRow
    <3>2. \A f \in FileId : file'[f] =
            IF f = nextId THEN [share |-> Job(w).share, path |-> p, ready |-> FALSE]
            ELSE IF file[f] # NoRow /\ file[f].share = Job(w).share /\ file[f].path = p
                 THEN NoRow ELSE file[f]
      BY <2>1 DEF ReplaceRow
    <3> QED
      BY <1>3, <3>1, <3>2, RowsSame DEF AddFile
  <2> QED
    BY <1>3, <1>a, <2>1 DEF AddFile
<1>4. ASSUME WalkEnds(w) \/ CountMedia(w) \/ Relook(w) \/ ListVideos(w) \/ ListImages(w)
               \/ IndexEnds(w) \/ ReadShare(w) \/ CountPending(w)
      PROVE  Goal
  BY <1>4, <1>a DEF WalkEnds, CountMedia, Relook, ListVideos, ListImages, IndexEnds,
     ReadShare, CountPending, tables
<1>5. ASSUME NEW j \in todo[w], EnqueuePreview(w, j) PROVE Goal
  BY <1>5, <1>a DEF EnqueuePreview, tables
<1>6. ASSUME BuildPreview(w) \/ \E j \in todo[w] : PosterUpToDate(w, j) PROVE Goal
  <2>1. share' = share
    BY <1>6 DEF BuildPreview, PosterUpToDate
  <2> QED
    BY <1>6, <1>b, <2>1, ReadyIsOwn
<1>7. ASSUME PreviewFails(w) \/ PosterFails(w) \/ FindOwner(w) PROVE Goal
  BY <1>7, <1>a DEF PreviewFails, PosterFails, FindOwner, tables
<1> HIDE DEF Goal
<1>8. Goal
  BY <1>1, <1>2, <1>3, <1>4, <1>5, <1>6, <1>7 DEF IndexStep, PreviewStep, TouchStep
<1> QED
  BY <1>8 DEF Goal

(* The share of its task has the right status, or gets it.                 *)
LEMMA OwnShare ==
  ASSUME IInv, NEW w \in Worker, IndexStep(w) \/ PreviewStep(w) \/ TouchStep(w),
         Job(w)' = Job(w), Counted(w), NEW s \in Share, s = Job(w).share,
         Right(s) \/ WillSettle(w, s)
  PROVE  (Right(s) \/ WillSettle(w, s))' /\ Counted(w)'
<1> DEFINE Goal == (Right(s) \/ WillSettle(w, s))' /\ Counted(w)'
<1>0. TypeOK
  BY DEF IInv
<1>a. ASSUME pc'[w] \in Updating, pc'[w] # "status" PROVE Goal
  BY <1>a DEF WillSettle, Counted
<1>b. ASSUME share'[s] \notin {"ready", "posters_pending"}, pc'[w] # "status" PROVE Goal
  BY <1>b DEF Right, Counted
<1>c. ASSUME pc[w] \notin Updating, pc[w] = "owner" => file[Job(w).file] = NoRow
      PROVE  Right(s)
  BY <1>c DEF WillSettle
<1>d. ASSUME Right(s), UNCHANGED <<share, file>>, pc'[w] # "status" PROVE Goal
  <2>1. Unready(s)' = Unready(s)
    BY <1>d, RowsSame
  <2> QED
    BY <1>d, <2>1 DEF Right, Counted
<1>1. ASSUME IndexStart(w) PROVE Goal
  <2>1. CASE Exists(s) /\ (SetScanStatus(s, "scanning") \/ SetScanStatus(s, "error"))
    BY <1>0, <1>1, <1>b, <2>1 DEF IndexStart, SetScanStatus, TypeOK, Go
  <2>2. CASE ~Exists(s) /\ Go(w, "fail") /\ UNCHANGED share
    BY <1>0, <1>1, <1>b, <2>2 DEF IndexStart, Exists, ScanStatus, Go, TypeOK
  <2> QED
    BY <1>1, <2>1, <2>2 DEF IndexStart
<1>2. ASSUME NEW p \in Path, AddFile(w, p) PROVE Goal
  BY <1>0, <1>2, <1>a, <1>b DEF AddFile, Go, TypeOK, Exists, ScanStatus, Updating
<1>3. ASSUME ClearFiles(w) \/ WalkEnds(w) \/ CountMedia(w) \/ SetAfterScan(w) PROVE Goal
  BY <1>0, <1>3, <1>a DEF ClearFiles, WalkEnds, CountMedia, SetAfterScan, Go, TypeOK, Updating
<1>4. ASSUME Relook(w) PROVE Goal
  BY <1>0, <1>4, <1>a, <1>b DEF Relook, Go, TypeOK, Exists, ScanStatus, Updating, tables
<1>5. ASSUME ListVideos(w) \/ ListImages(w) \/ IndexEnds(w) PROVE Goal
  BY <1>0, <1>5, <1>a DEF ListVideos, ListImages, IndexEnds, Go, TypeOK, Updating
<1>6. ASSUME NEW j \in todo[w], EnqueuePreview(w, j) \/ PosterUpToDate(w, j) PROVE Goal
  BY <1>0, <1>6, <1>a DEF EnqueuePreview, PosterUpToDate, Updating
<1>7. ASSUME BuildPreview(w) PROVE Goal
  <2>1. CASE pc'[w] = "final"
    BY <1>a, <2>1 DEF Updating
  <2>2. CASE pc'[w] = "owner" /\ file'[Job(w).file] # NoRow
    BY <2>2 DEF WillSettle, Counted
  <2>3. CASE pc'[w] = "owner" /\ file'[Job(w).file] = NoRow
    <3>1. Job(w).file \in FileId
      BY <1>7, HeldJob, PreviewPayload DEF BuildPreview, IInv, HandlerFits, Previews
    <3>2. UNCHANGED <<file, share>>
      <4>1. file[Job(w).file] # NoRow =>
              [file[Job(w).file] EXCEPT !.ready = TRUE] \in Rows
        BY <1>0, <3>1 DEF TypeOK, Rows
      <4> QED
        BY <1>0, <1>7, <2>3, <3>1, <4>1, RowAssumption DEF BuildPreview, SetPreviewReady, TypeOK
    <3> QED
      BY <1>7, <1>c, <1>d, <2>3, <3>2 DEF BuildPreview, Updating
  <2> QED
    BY <1>0, <1>7, <2>1, <2>2, <2>3 DEF BuildPreview, Go, TypeOK
<1>8. ASSUME PreviewFails(w) PROVE Goal
  BY <1>0, <1>8, <1>c, <1>d DEF PreviewFails, Go, TypeOK, tables, Updating
<1>9. ASSUME PosterFails(w) PROVE Goal
  BY <1>0, <1>9, <1>a DEF PosterFails, Go, TypeOK, Updating
<1>10. ASSUME FindOwner(w) PROVE Goal
  BY <1>0, <1>10, <1>a, <1>c, <1>d DEF FindOwner, Go, TypeOK, tables, Updating
<1>11. ASSUME ReadShare(w) PROVE Goal
  BY <1>0, <1>11, <1>a, <1>b DEF ReadShare, AfterTouch, Go, TypeOK, tables, Exists,
     ScanStatus, Updating
<1>12. ASSUME CountPending(w) PROVE Goal
  <2>1. pc'[w] = "status" /\ (seen'[w] <=> Unready(s) # {}) /\ UNCHANGED <<share, file>>
    BY <1>0, <1>12 DEF CountPending, Go, TypeOK, tables
  <2>2. Unready(s)' = Unready(s)
    BY <2>1, RowsSame
  <2> QED
    BY <2>1, <2>2 DEF WillSettle, Counted, Updating
<1>13. ASSUME FinalizeStatus(w) PROVE Goal
  <2>1. pc[w] = "status" /\ pc'[w] # "status" /\ UNCHANGED file
    BY <1>0, <1>13 DEF FinalizeStatus, AfterTouch, Go, TypeOK
  <2>2. Unready(s)' = Unready(s)
    BY <2>1, RowsSame
  <2>3. CASE Exists(s)
    <3>1. share'[s] = IF seen[w] THEN "posters_pending" ELSE "ready"
      BY <1>0, <1>13, <2>3 DEF FinalizeStatus, SetScanStatus, TypeOK
    <3>2. seen[w] <=> Unready(s) # {}
      BY <2>1, <2>3 DEF Counted, Exists, ScanStatus
    <3> QED
      BY <2>1, <2>2, <3>1, <3>2 DEF Right, Counted
  <2>4. CASE ~Exists(s)
    BY <1>13, <1>b, <2>1, <2>4 DEF FinalizeStatus, SetScanStatus, Exists, ScanStatus
  <2> QED
    BY <2>3, <2>4
<1> HIDE DEF Goal
<1>14. Goal
  BY <1>1, <1>2, <1>3, <1>4, <1>5, <1>6, <1>7, <1>8, <1>9, <1>10, <1>11, <1>12, <1>13
     DEF IndexStep, PreviewStep, TouchStep
<1> QED
  BY <1>14 DEF Goal

(* What a request does to a share leaves the others, and who will settle.  *)
LEMMA RequestSettles ==
  ASSUME IInv, TasksKept, NEW s \in Share, Request(s), SettledOrUnderway,
         restarts = 0, faults = 0
  PROVE  /\ \A r \in Share : (Right(r) \/ \E w \in Worker : WillSettle(w, r))'
         /\ \A w \in Worker : Counted(w)'
<1>0. TypeOK /\ UNCHANGED <<pc, task, seen>>
  BY DEF IInv, Request, AddShare, ReindexListed, RequestIndex, RemoveShare, Accept, local
<1>1. \A w \in Worker : pc[w] \notin {"idle", "dead"} => Job(w)' = Job(w)
  BY <1>0, JobKept
<1>2. /\ \A r \in Share : Right(r) \/ \E w \in Worker : WillSettle(w, r)
      /\ \A w \in Worker : Counted(w)
  BY DEF SettledOrUnderway
<1>3. \A r \in Share : r # s => Unready(r)' = Unready(r) /\ share'[r] = share[r]
  <2> SUFFICES ASSUME NEW r \in Share, r # s
               PROVE  Unready(r)' = Unready(r) /\ share'[r] = share[r]
    OBVIOUS
  <2>1. CASE UNCHANGED file
    <3>1. Unready(r)' = Unready(r)
      BY <2>1, RowsSame
    <3>2. share'[r] = share[r]
      BY <1>0 DEF Request, AddShare, ReindexListed, RequestIndex, RemoveShare, TypeOK, tables
    <3> QED
      BY <3>1, <3>2
  <2>2. CASE RemoveShare(s)
    <3>1. \A f \in FileId : file'[f] = IF f \in RowsOf(s) THEN NoRow ELSE file[f]
      BY <2>2 DEF RemoveShare, DeleteRowsOf
    <3> QED
      BY <1>0, <2>2, <3>1, RowsSame DEF RemoveShare, RowsOf, TypeOK
  <2> QED
    BY <2>1, <2>2 DEF Request, AddShare, ReindexListed, RequestIndex, tables
<1>4. \/ share'[s] \in {"pending", "removed"}
      \/ Unready(s)' = Unready(s) /\ share'[s] = share[s]
  <2>1. CASE AddShare(s) \/ RemoveShare(s)
    BY <1>0, <2>1 DEF AddShare, RemoveShare, TypeOK
  <2>2. CASE ReindexListed(s) \/ RequestIndex(s)
    BY <2>2, RowsSame DEF ReindexListed, RequestIndex, tables
  <2> QED
    BY <2>1, <2>2 DEF Request
<1>5. ASSUME NEW r \in Share PROVE (Right(r) \/ \E w \in Worker : WillSettle(w, r))'
  <2>1. CASE r = s /\ share'[s] \in {"pending", "removed"}
    BY <2>1 DEF Right
  <2>2. CASE Unready(r)' = Unready(r) /\ share'[r] = share[r]
    <3>1. CASE Right(r)
      BY <2>2, <3>1 DEF Right
    <3>2. ASSUME NEW w \in Worker, WillSettle(w, r) PROVE WillSettle(w, r)' \/ Right(r)'
      <4>1. Job(w)' = Job(w)
        BY <1>1, <3>2 DEF WillSettle, Updating
      <4>2. CASE pc[w] \in Updating
        BY <1>0, <3>2, <4>1, <4>2 DEF WillSettle
      <4>3. CASE pc[w] = "owner" /\ file[Job(w).file] # NoRow
        <5>1. Job(w).file \in FileId /\ Hits(Job(w))
          BY <4>3, HeldJob, PreviewPayload
             DEF IInv, HandlerFits, Previews, JobsHit, Queue!known, Job
        <5>2. file'[Job(w).file] # NoRow \/ share'[r] = "removed"
          BY <1>0, <3>2, <4>3, <5>1 DEF Hits, WillSettle, Request, AddShare, ReindexListed,
             RequestIndex, RemoveShare, DeleteRowsOf, RowsOf, TypeOK, tables
        <5> QED
          BY <1>0, <3>2, <4>1, <4>3, <5>2 DEF WillSettle, Right
      <4> QED
        BY <3>2, <4>2, <4>3 DEF WillSettle
    <3> QED
      BY <1>2, <3>1, <3>2
  <2> QED
    BY <1>3, <1>4, <2>1, <2>2
<1>6. ASSUME NEW w \in Worker PROVE Counted(w)'
  <2>1. CASE pc[w] = "status"
    <3>1. Job(w)' = Job(w) /\ Job(w).share \in Share
      BY <1>1, <2>1, HeldJob DEF Jobs, Previews
    <3>2. PICK r \in Share : r = Job(w).share
      BY <3>1
    <3>3. Unready(r)' = Unready(r) \/ share'[r] = "removed"
      <4>1. CASE UNCHANGED file
        BY <4>1, RowsSame
      <4>2. CASE RemoveShare(s)
        BY <1>0, <1>3, <4>2 DEF RemoveShare, TypeOK
      <4> QED
        BY <4>1, <4>2 DEF Request, AddShare, ReindexListed, RequestIndex, tables
    <3>4. share'[r] # "removed" => share[r] # "removed"
      BY <1>0, <1>3 DEF Request, AddShare, ReindexListed, RequestIndex, RemoveShare,
         Exists, ScanStatus, TypeOK, tables
    <3> QED
      BY <1>0, <1>2, <2>1, <3>1, <3>2, <3>3, <3>4 DEF Counted
  <2>2. CASE pc[w] # "status"
    BY <1>0, <2>2 DEF Counted
  <2> QED
    BY <2>1, <2>2
<1> QED
  BY <1>5, <1>6

LEMMA SettledInv ==
  ASSUME OneWorker, IInv, [Next]_vars, SettledOrUnderway
  PROVE  SettledOrUnderway'
<1> SUFFICES ASSUME restarts' = 0, faults' = 0
             PROVE  /\ \A s \in Share : (Right(s) \/ \E w \in Worker : WillSettle(w, s))'
                    /\ \A w \in Worker : Counted(w)'
  BY DEF SettledOrUnderway
<1> DEFINE Goal == /\ \A s \in Share : (Right(s) \/ \E w \in Worker : WillSettle(w, s))'
                   /\ \A w \in Worker : Counted(w)'
<1>0. restarts = 0 /\ faults = 0 /\ ~FaultStep /\ TasksKept /\ TypeOK
  BY CleanStep, QueueInv DEF IInv
<1>1. /\ \A s \in Share : Right(s) \/ \E w \in Worker : WillSettle(w, s)
      /\ \A w \in Worker : Counted(w)
  BY <1>0 DEF SettledOrUnderway
<1>2. ASSUME UNCHANGED vars PROVE Goal
  <2>1. \A s \in Share : Unready(s)' = Unready(s)
    BY <1>2, RowsSame DEF vars, tables
  <2>2. \A w \in Worker : Job(w)' = Job(w)
    BY <1>2 DEF vars, tasks, local, Job
  <2>3. \A s \in Share : Right(s)' <=> Right(s)
    BY <1>2, <2>1 DEF vars, tables, Right
  <2>4. \A w \in Worker, s \in Share : WillSettle(w, s)' <=> WillSettle(w, s)
    BY <1>2, <2>2 DEF vars, tables, WillSettle
  <2>5. \A w \in Worker : pc[w] = "status" => Job(w).share \in Share
    BY HeldJob DEF Jobs, Previews
  <2>6. \A w \in Worker : Counted(w)'
    BY <1>1, <1>2, <2>1, <2>2, <2>5 DEF vars, tables, local, Counted
  <2> QED
    BY <1>1, <2>3, <2>4, <2>6
<1>3. ASSUME NEW s \in Share, Request(s) PROVE Goal
  BY <1>0, <1>3, RequestSettles
<1>4. ASSUME NEW w \in Worker, IndexStep(w) \/ PreviewStep(w) \/ TouchStep(w) PROVE Goal
  <2>1. Moves(w)
    BY <1>0, <1>4, HandlerMoves DEF Handler
  <2>2. Job(w)' = Job(w) /\ Job(w).share \in Share
    BY <1>0, <2>1, JobKept, HeldJob DEF Moves, Jobs, Previews
  <2>3. \A s \in Share : Right(s) \/ WillSettle(w, s)
    BY <1>1 DEF OneWorker
  <2>4. ASSUME NEW s \in Share, s # Job(w).share PROVE Right(s)'
    BY <1>4, <2>3, <2>4, OtherShares DEF WillSettle, Right
  <2>5. (Right(Job(w).share) \/ WillSettle(w, Job(w).share))' /\ Counted(w)'
    BY <1>1, <1>4, <2>2, <2>3, OwnShare
  <2>6. \A s \in Share : Right(s)' \/ WillSettle(w, s)'
    BY <2>2, <2>4, <2>5
  <2> QED
    BY <2>5, <2>6 DEF OneWorker
<1>5. ASSUME NEW w \in Worker, (\E t \in Task : Claim(w, t)) \/ MarkDone(w) \/ MarkError(w)
      PROVE  Goal
  <2>1. UNCHANGED <<share, file>> /\ pc[w] \in {"idle", "done", "fail"}
    BY <1>5 DEF Claim, MarkDone, MarkError, tables
  <2>2. \A s \in Share : Right(s)
    BY <1>1, <2>1 DEF OneWorker, WillSettle, Updating
  <2>3. \A s \in Share : Unready(s)' = Unready(s)
    BY <2>1, RowsSame
  <2>4. \A s \in Share : Right(s)'
    BY <2>1, <2>2, <2>3 DEF Right
  <2>5. pc'[w] # "status"
    BY <1>0, <1>5 DEF Claim, MarkDone, MarkError, Release, Go, FirstState, TypeOK
  <2> QED
    BY <2>4, <2>5 DEF OneWorker, Counted
<1> HIDE DEF Goal
<1>6. Goal
  BY <1>0, <1>2, <1>3, <1>4, <1>5 DEF Next, WorkerStep
<1> QED
  BY <1>6 DEF Goal

(* With one worker, NODEADLINE_TASK_WORKERS=1, a share is ready exactly    *)
(* when no media lacks a preview, whenever the queue is empty and nothing  *)
(* has failed (index_manifest.py:22): for any number of shares, files and  *)
(* requests.                                                               *)
THEOREM OneWorkerSettles == OneWorker => (Spec => []StatusSettles)
<1> SUFFICES ASSUME OneWorker PROVE Spec => []StatusSettles
  OBVIOUS
<1>1. Init => SettledOrUnderway
  BY DEF Init, SettledOrUnderway, Right, Counted
<1>2. IInv /\ [Next]_vars /\ SettledOrUnderway => SettledOrUnderway'
  BY SettledInv
<1>3. IInv /\ SettledOrUnderway => StatusSettles
  <2> SUFFICES ASSUME IInv, SettledOrUnderway, Quiet, restarts = 0, faults = 0
               PROVE  \A s \in Share : Right(s)
    BY DEF StatusSettles, Right
  <2>1. \A w \in Worker : pc[w] \in {"idle", "dead"}
    BY HeldJob DEF Quiet
  <2> QED
    BY <2>1 DEF SettledOrUnderway, WillSettle, Updating
<1> QED
  BY <1>1, <1>2, <1>3, Invariance, PTL DEF Spec
=============================================================================
