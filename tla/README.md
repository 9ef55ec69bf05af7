# TLA+ models of nodeadline.online

This directory holds a verification development for the repository: TLA+
modules translated from the Python code of the node and the master and from
the Go code of the installer, TLC configurations that check them on small
instances, and proofs checked by TLAPS for every value of the constants.

## 1. The system

| Part | Code | State it keeps | What makes it hard |
|---|---|---|---|
| Task queue | `libs/tasks/queue.py` | table `tasks` in `tasks.db` | several worker threads, restarts, failing statements |
| Task handlers | `libs/tasks/handlers.py` | none of their own | one statement at a time against a registry others change |
| Share registry | `libs/shares/registry.py` | tables `shares`, `files` in `shares.db` | a lock per statement, no transactions across them |
| Indexer, manifest | `libs/shares/indexer.py`, `index_manifest.py` | `scan_status` of a share | read, count and write are separate |
| Posters, previews | `libs/media/*`, `libs/system/ffmpeg_paths.py` | files beside the media | a crash in the middle of a file, programs replaced while they are used |
| Node HTTP API | `apps/node/main.py` | starts everything above | eight waitress threads |
| Runtime state, ports | `libs/auth/port_manager.py` | `runtime_state.json` | load, change, save by several threads |
| DNS claim of a node | `libs/auth/dns_claim_node.py` | claim context, stages | retries, WAN changes, lost updates |
| Master API | `apps/master/main.py` | sessions, users, directory | concurrent requests |
| DNS at the master | `libs/auth/dns_registry.py`, `nginx_ingress.py`, `libs/dns/namecheap_api.py` | bindings, nginx map, the zone | read-modify-write of the whole zone |
| Sign-in | `libs/auth/delegated.py`, `users.py`, `session.py`, `oauth_google.py` | states, codes, users of master and node, claim context | a browser carries it between three servers, each of which may forget |
| Site sync | `libs/site_sync/channel.py`, `torrent_sync.py` | `active.json`, revision file | two threads, crash between files |
| Opening the browser | `libs/site_sync/browser_open.py` | what was shown last | three callers, none of them in the syncs' order |
| ffmpeg sync | `libs/site_sync/ffmpeg_sync.py` | `vendor/ffmpeg`, its revision | removes the tools before it has moved the new ones |
| Torrents | `libs/torrent/*` | snapshots, swarm | revisions, peer expiry |
| Installer | `apps/installer/*.go` | payload, marker, build number, the node process | three goroutines, process crashes, network failures |

How they interact: the HTTP handlers of the node write shares and enqueue
tasks; worker threads claim tasks and run handlers, which read and write the
registry and enqueue further tasks (an index task enqueues one preview task
per media file); each preview ends in `index_manifest.touch`, which derives
the scan status of its share.  The installer runs the node as a child
process, replaces its code and restarts it; the node may also replace itself
by `exec`.  The node announces itself to the master and claims a subdomain
there; the master writes the zone at the registrar and the map of nginx.

What makes each part correct:

* **Queue** - a task is run by one worker, settled at most once, in order of
  creation; pending tasks are claimed while a worker thread lives.
* **Indexing** - no media file is forgotten, rows have shares, previews hit
  the file they were made for, the scan status tells the truth when nothing
  runs.
* **Installer** - one node at a time, none while its code is replaced; a
  stop is not a crash and a crash is not a stop; the payload offered ends up
  running.
* **Runtime state** - a field written by one thread survives the others.
* **DNS at the master** - a claim never removes another's record; zone,
  bindings and nginx agree when nothing is in progress.
* **Sign-in** - what the node claims with afterwards is what the master takes;
  no sign-in fails for another's sake.
* **Site sync** - `active.json` always names a complete revision; revisions
  only grow; each is shown once.
* **ffmpeg sync** - whatever cuts a replacement off, the next sync repeats it;
  previews it does not meet are made.
* **Torrents** - a revision names one publication; what the node calls
  registered the tracker knows.

## 2. Modules

| Module | Models | Builds on |
|---|---|---|
| `TaskLifecycle` | what the queue promises: a task waits, runs, is settled, or is lost with its thread | - |
| `TaskQueue` | `libs/tasks/queue.py` | refines `TaskLifecycle` |
| `TaskQueueProofs` | theorems about `TaskQueue` | `TaskQueue` |
| `ShareIndex` | handlers, registry, indexer, manifest, node API for shares | `INSTANCE TaskLifecycle` as its queue |
| `ShareIndexProofs` | theorems about `ShareIndex` | `ShareIndex` |
| `SharesDb` | the connections to `shares.db`: the registry's lock, transactions, refused statements | - |
| `PosterSidecar` | `poster_sidecar.py`: the poster file and the tasks that make it | - |
| `MCIndex` | rows, connections and posters | `ShareIndex`, `SharesDb`, `PosterSidecar` |
| `IndexProofs` | theorems about connections, posters, and the three of `MCIndex` together | `MCIndex`, `ShareIndexProofs` |
| `Installer` | `apps/installer`: boot, update loop, supervisor, nodes | - |
| `InstallerProofs` | theorems about `Installer` | `Installer` |
| `DnsMaster` | the master's claim and sign-in: zone, registry, nginx map | - |
| `OAuthSignIn` | a sign-in from login to cookie: master, Google, node; who may claim | - |
| `OAuthSignInProofs` | theorems about `OAuthSignIn` | `OAuthSignIn` |
| `TorrentPublish` | publishing a share: registry, tracker, what the node notes | - |
| `MCMaster` | the three services of the master | `DnsMaster`, `OAuthSignIn`, `TorrentPublish` |
| `MasterProofs` | theorems about claims, publications, and the three services together | `MCMaster`, `OAuthSignInProofs` |
| `NodeState` | `runtime_state.json` and its writers: `port_manager.py`, `dns_claim_node.py`, `/api/port`, sign-in | - |
| `NodeStateProofs` | theorems about `NodeState` | `NodeState` |
| `SiteSync` | `libs/site_sync/channel.py`, `torrent_sync.py` | - |
| `SiteOpen` | `browser_open.py` beside the syncs | `EXTENDS SiteSync` |
| `FfmpegSync` | `ffmpeg_sync.py` under previews of videos | - |
| `MCSync` | the three channels of a node | `SiteOpen`, `FfmpegSync` |
| `SyncProofs` | theorems about pages, page shown, tools, and the three together | `MCSync` |
| other `MC*` | the instances TLC checks | |

`MCIndex`, `MCMaster` and `MCSync` put modules side by side that share no
variable and of which no property speaks together.  A behaviour of `MCMaster` is therefore
one of claims, of sign-ins or of publications (`part`, chosen at the start and
kept), which shows all that their product would; likewise in `MCIndex`.  In
`MCSync` the pages are
taken twice: with syncs from requests and without the browser, and with the
browser beside the loop alone.

Definitions named in a comment `Mutant:` are faulty variants of the operator
that follows them.  They are used by no specification; replacing the operator
by the variant must violate a property, which shows that the property sees
the fault.

### TaskQueue

One action is one locked section of `queue.py`.  `status` and `created` are
the columns of the table; `committed` is history (the second of the INSERT).
`DrawId` and `InsertTask` are the two halves of `enqueue`: id and time stamp
are taken before the lock.  `Claim` is `claim_next_pending`; `wpc` follows
`_worker_loop` around the handler, which here only returns or raises.
Faults: an INSERT that raises (`InsertFails`), a claim that raises before
(`ClaimFails`) or after (`ClaimReadFails`) its commit - both end the thread,
the call being outside the `try` - and `mark_done` / `mark_error` that raise.
`Restart` starts a fresh pool on the old table.  Nothing in the code puts
rows in `processing` back, so a restart or the death of a thread makes a task
*lost*: neither running nor ever settled.  `ImplementsLifecycle` shows the
queue to implement `TaskLifecycle` under the mapping pending, processing and
held, settled, processing and not held.

### ShareIndex

The queue is the abstract `TaskLifecycle`, so any order of claims is allowed.
`share` and `file` are the tables of `shares.db` with what indexing reads and
writes of them; `nextId` is AUTOINCREMENT.  Every statement on the database
is a step of its own; `pc[w]` is the next statement of the handler worker `w`
runs, and `walk`, `todo`, `seen`, `raising` are its locals.  `due[s]` counts
requests that have committed the share (or listed it) and not yet enqueued.
A statement may raise anywhere (`StatementRaises`), the process may restart.
The order in which the files of a listing are enqueued is left open, which
only adds behaviours.

### SharesDb

Every thread of the node, of waitress and of the worker pool alike, has a
connection of its own for as long as it lives (`threading.local`).  `holder` is
the thread in `registry._lock`; `executed` lies between `execute` and
`commit`.  What a statement says is in `ShareIndex`; here it only commits,
finds the database locked (`TurnedAway`), or is refused by a constraint or the
disk (`Refused`).  No function rolls back, so the last two leave the
transaction that `sqlite3` began for the statement open, a refused one with
SQLite's write lock (`writer`).  `view` is the snapshot of a transaction in WAL
mode: a transaction whose snapshot is old may not write, and nothing ends it
until the node starts again.  `misread` says which handlers have read an old
state; a thread turns to its next request with a new one.  This much of SQLite
was compared with the library itself.

### PosterSidecar

`poster` is the one file of all images of a stem, `newer` the images modified
later than it: together what `poster_up_to_date` compares.  `step[m]` is the
next statement of `_build_image_poster_pillow` and `_merge_exif_into_poster`
in thread `m`: the image is read, the poster opened (and emptied), written,
loaded again, opened and written with the metadata.  The first save is one
write (`optimize` makes the encoder's buffer as large as the picture); the
second goes out in blocks of 64 KiB, here a first one (`RewritePoster`) and the
others (`WriteRest`).  Who is between its blocks, or is loading, while another
opens or writes the file is `disturbed`: what it leaves, or reads, may then be
`Mixed`, blocks of several.  Before it opens a file,
Pillow looks whether there is one: if there was none (`created`) it removes the
file when the save fails, whoever has made it meanwhile, otherwise it leaves it
cut off.  A file removed under another writer stays `unlinked`.  An error of the second
save is swallowed.  Images are replaced (`Edit`), the node restarts.  `excused`
and `met` are history, of the time since the poster was last opened: was it
saved as it is no more or cut off, were several tasks at it?

### Installer

`pc` is the thread that syncs: main at boot, `updateLoop` afterwards (main
starts it when its own sync is over, so they never overlap).  `spc` is
`superviseNode`.  `cmd` is `nodeRunner.cmd`, `flag` is
`intentionalNodeStop`; `StopNode` is its locked section.  `alive`, `home` and
`image` are the node processes: running or not, listening on the installer's
port or another candidate, and the code they run.  `app` and `marker` are
`appDir` and `last_payload_sha256.txt`; `localBuild` is
`installer_build.txt`; `myBuild` is history.  The server may publish, a
download, archive or pip may fail, a process start may fail, a node may
crash, the installer may be told to stop, be relaunched, or replace itself.

### DnsMaster

One action is one call of Namecheap, one locked update of
`dns_bindings.json`, one statement on a file, or one run of nginx, for each of
the master's request threads.  A claim and a sign-in differ only in how they
begin (`Claim`, `SignIn`) and in the backend they ask for.  `zone` is the set
of names with a record: every A record has the address of the one ingress.
`tmp` and `map` are the contents of the two files; `fd` tells which of them a
request's open file has become, since another request may have renamed it.
`Written` is a write over a content another request has written: of a longer
one the tail stays.  The reload is a signal: `pending` until nginx acts.
Nodes move, calls fail (also after Namecheap has done them), and the master
restarts.  A call of Namecheap that takes effect later than its error is not
modelled.  `alone` and `overlapped` are history: they say which promises need
requests not to meet, something the code does not ensure.

### OAuthSignIn

A flow is one login of one browser; `at[f]` is the redirect it is about to
follow or the statement that serves it, at the master, at Google or at the
node, and flows interleave at every one of them.  `states` and `codes` are the
master's tables in memory, `masterUsers` and `nodeUsers` the two `users.json`,
`context` and `draft` the file `dns_claim.json` and its temporary file, which
all sign-ins at a node share: `OpenDraft`, `WriteDraft` and `ReplaceContext`
are the three statements of `save_claim_context`, and `open[f]` what became of
the file a flow has open.  Times to live are not counted: what has one may
lapse whenever it waits (`Lapses`, `Expires`).  A token is `good`, `expired`,
or `split`: its signature holds a dot.  A name stands for the user name and
label made of an e-mail address; an account may get another one (`Renames`).
`Verdict` is what the master answers to a claim made from the context; how an
accepted one goes on is `DnsMaster`.  Users leave, deny, calls fail (the code
may be used up when the answer is lost; the node's last save may fail with the
new context already in its place), master and node restart.  `excused`, `met`
and `renamed` are history.

### TorrentPublish

`step[p]` follows a publication through the handler, `publish_snapshot` and
`publish_and_register`, one statement or call at a time.  `shares`, `indexed`,
`revision` and `snapshot` are columns of `shares.db`; `Rescan` and `AddRow`
are what an index task does to them, `RemoveShare` what its owner does.
`listed` and `swarm` are the tracker's tables, in the memory of the master,
`told` is `worker._states`.  An infohash covers a random id, so it stands for
its publication; of the files of a share their number is kept, against the
limit of the manifest.  A registration or announcement may fail, also after
the tracker has taken it.  `mingled` (met another of its share) and
`rescanned` (met a scan or a removal) are history.

### NodeState

`file` is `runtime_state.json` with the fields that decide something: address,
external port, UPnP status, DNS status, stage of the claim pipeline and the
user bound to the node.  `context` is `dns_claim.json`.  A step is one
`load_state`, one `save_state` or one call of the router or the master; `my[t]`
is what thread `t` holds in between, above all its copy `st` of the file.  The
lock covers the load and the replacement only, so a copy may be old when it is
saved; which handlers take theirs before the slow call (`Upnp`, `ToProbe`) and
which load again afterwards (`Settle`, `Apply`, `Check`) follows the code.
`Saves` and `Replace` are the two halves of `save_state`: the address is read
from the old file before the lock is taken, and a save with a new address
starts a claim out of turn (`due`, run by `Claimer` threads).  Whether that
read still sees the file as it was is left open, hence the choice of `old` in
`Replace`.  `LoopClaims` is the loop that claims every 75 seconds whatever the
last claim brought.  Automatic mapping and probing at the start, and the probe
a remap requires, are on, as they are by default.  `record` is what the master
keeps per user; a failed claim (`PostFails`) may have reached it.  `welcome` is
whether the master takes claims with what `dns_claim.json` holds: a token may
be split from the start (`SaveContext`) or run out after seven days
(`TokenExpires`), which nothing repairs but another sign-in, and the master may
refuse for a while, for a full zone, another name, no Namecheap or a broken
nginx (`MasterTurns`); `Refused` is the error a claim then gets.  The remap
is taken port by port (`Try`, `Reach`, `RollBack`), with `had`, as history, the
ports mapped before.  `overlapped` is history: have two threads been at work at
the same time?  What depends on no thread meeting another is stated under it.
The context is read in the same step as the file; how sign-ins write it is in
`OAuthSignIn`.

### SiteSync

`stage` holds the directories `rev-N`, `active` and `state` the two json
files (0: unreadable or absent), `new` is `active.json.new`, renamed under
the same rules as the map above.  `pc` walks through `sync_once` and
`_apply_bundle`; `inbox` is the torrent directory of a revision, which
threads share.  `cut` says that another thread has emptied the directory this
one unpacks into.  A torrent counts as complete at 99.9 %; the sum of what is there
may then differ (`SumDiffers`), in any round, and HTTPS is not tried.  The
master publishes and removes older bundles; anything may fail; the node may
restart.

### SiteOpen

`EXTENDS SiteSync`: the variables of the browser stand beside those of the
syncs, whose steps leave them alone.  `maybe_open_local_site` runs under a
lock (`holder`): `Look` reads active.json, channel_state.json, the build and
what was opened last, `Show` calls the browser, `Note` renames
`browser_open_state.json` into place.  It is called by a sync that has applied
a revision, before it returns (`Concludes`), and up to sixty times in the
first half minute by the `Starter`.  The lock keeps calls apart but not the
syncs, so `Look` may find channel_state.json truncated.  `twice` is history:
something noted, or about to be, was shown again.

### FfmpegSync

`turn` is the next statement of `sync_ffmpeg_once`, which runs in one thread;
`vendor` is what `vendor/ffmpeg` holds of each of the two tools, `recorded`
the revision in its `channel_state.json`.  `rmtree` removes tool by tool and
ignores errors; `shutil.move` is a rename, a copy tool by tool (`across` file
systems), or, where a program that runs has kept the directory (`windows`), a
directory inside it, where nobody looks (`held`).  `doing[j]` is a preview of
a video: `ffmpeg` and `ffprobe` are looked up one after the other, the second
is run once, the first twice, with the paths found at first.  A preview whose
node is killed leaves its program running (`orphan`).  Failures and kills share
`MishapLimit`; an archive that came by torrent may be unfinished in every round
(`ByTorrentInPart`).

## 3. What is checked

`CHECK_DEADLOCK FALSE` is in the configurations whose bounded models stop when
their bounds are used up; nodes claim and sync for ever.

| Run | Shows |
|---|---|
| `queue` | types; `ClaimsSound`: a held task is in `processing`, claims are exclusive, stamps sound; FIFO to the second; refinement of `TaskLifecycle`, results being final in it; `Progress`: pending tasks are claimed unless all worker threads died, claimed tasks are settled unless their worker vanished |
| `index`, rows | no media file forgotten; `SharesAttended`: a share in `scanning` has a scanner, a new share is about to be indexed. Two workers, two requests, removal at any point, a restart, a failing statement |
| `index`, connections | `HarmHasCause`: until a statement is refused, nobody is turned away and everybody reads the last state; `MisreadNeverWritten`: even then nothing is committed by a handler that has read an old state |
| `index`, posters | `PosterIsCurrent`: a poster taken for up to date shows an image of its stem as it is, unless, since it was last opened, several tasks were at it (it may then be damaged), an image was replaced while it was written or by one with its old time, or a save was cut off; nothing of that outlives the next task that makes the poster alone |
| `index_live` | one worker, two paths, two scans, a restart, no failing statement: every media file gets its preview, goes away, or is left to an abandoned task; the scan status is right when the queue is empty; `RowsFit`: no row outlives its share, preview tasks that outlive a rescan hit no other file |
| `index_stuck` | violated with two workers: the same status property (`index_manifest.py:22`) |
| `installer` | `UpdatesAreClean`: unless a node crashes or the installer is relaunched, one node at a time, none during a replacement, and the tracked node runs the code on disk; `ExitsJudged`: no stop is taken for a crash, no process is waited for twice; a crashed node comes back when there is no update; the payload offered ends up running in spite of failures, unless it is taken back after its successor's round failed (`TakenBack`) |
| `installer_swallowed` | violated: the first crash after an installation or update is not noticed (`supervisor.go:10`) |
| `installer_twonodes` | violated: an update within the two minutes after a crash (`main.go:288`) |
| `master`, claims | a request that meets no other leaves registry and nginx in agreement, whatever was left before it; `NothingTakenAway`: a bound name has its record unless requests meet, nobody is unbound, a node's binding is not replaced by the page on the master and no record is lost unless requests meet, records of others survive in any case |
| `master`, sign-ins | `ClaimsFit`: whom the node claims for is known at the master under its label, unless the name changed since; a sign-in that met no other at the node leaves its user and token there; `FailureHasCause`: no sign-in fails because of another it did not meet |
| `master`, publications | a publication that met no other and no scan is the share's snapshot, whole and listed; revisions of those that met no other differ; what is noted as registered is listed until the master restarts |
| `dns_lost_record` | violated: "the other records are kept" (`namecheap_api.py:97`) |
| `sign_in_dead_token` | violated: a fresh token is accepted (`dns_claim_node.py:1`, `session.py:27`) |
| `node_state` | unless threads meet or something fails, an idle node's file is true about its port and its user; a remap opens no port but the one it settles on, closes the one it gave up and leaves alone what it may not try (`RemapCleansUp`); once user, address and port stay, the master ends up with them and the node says so, whatever was lost before, as long as it takes claims; where it goes on refusing them (token expired or split, zone full), the node ends up reporting the error |
| `sync`, pages | a lone sync that reports "applied" has applied; `FilesTellTheTruth`: without overlap a recorded revision is whole and served, served pages are whole but for repeated revisions; the revision never goes back; a revision is shown once for a build |
| `sync`, tools | damage is behind the channel unless a running program held it up; a preview that met no replacement is made, in the size of the video |
| `sync`, all | `ChannelsArrive`: the last revision of the pages arrives in spite of failures and restarts and is shown, the last tools arrive; excepted are torrents that end in part for ever, which the code neither notices nor replaces by HTTPS |

### Bounds

* `TaskQueue`: two workers and two clients give every race of claims and
  inserts; three tasks and a clock of two seconds give overtaking. Everything
  the safety runs check is also proved without bounds.
* `ShareIndex`: the hazards need two handlers on one share and a third
  request; one file suffices for forgetting it, two paths for confusing them
  (`index_live`). Its liveness is checked with one worker; with two, the same
  loss of a file is excluded by `NoMediaForgotten` in `index`. `FileLimit` allows
  each scan its own rows. Shares do not interact: no statement reads rows of two
  shares. The safety properties are proved without bounds, `StatusSettles` for
  one worker.
* `SharesDb`: three connections: one with the write lock, one in a transaction
  with an old state, one that goes on. Nothing else is bounded, and what is
  checked is proved without bounds.
* `PosterSidecar`: two images of one stem and two threads, so that each save
  meets the other's; two changes, one failure or restart (`TroubleLimit`). The
  properties are proved without bounds.
* `Installer`: two payloads and two publications give an update and one that
  is taken back, before, between or after the steps of its round; the first
  may bring a new installer (`BuildLimit`). Five processes suffice for "two at
  once" after a replacement and for an upgrade, which starts the installer
  over. Crashes, failing downloads, failing starts and relaunches are limited
  one by one and to two together (`TroubleLimit`).
  The safety properties are proved without bounds.
* `DnsMaster`: two users, threads and addresses give a lost record, a stale
  claim and a renamed file; one other record and a zone of two (the code's
  limit is 50) give the full zone; sign-ins, failures and restarts share one
  budget (`UpsetLimit`). The properties are proved without bounds.
* `OAuthSignIn`: two logins, of one or two accounts with one or two names, meet
  at every statement; one change of name between them; one failure or restart
  (`LossLimit`). What lapses or is left is not bounded. The properties are
  proved without bounds.
* `TorrentPublish`: two publications of one share, one scan, failure or restart
  (`TroubleLimit`), two files against a manifest of one. The properties are
  proved without bounds.
* `NodeState`: at most two threads at work at a time (`MeetLimit`), which is
  enough for a copy to be saved over another's change, since each lost update
  is between two threads; two addresses, two ports (the one listened on and one
  other); one of: a port request, a token that is split or expires, a master
  that begins to refuse; one of: a sign-in, a new address; one failure or
  restart. One user and one port a remap may try (`TryLimit`; the code draws
  34) keep the run finite in minutes. Claims that wait are all alike: one is
  counted (`DueLimit`).  The safety properties are proved without bounds.
* `SiteSync`: two revisions and two threads, so that a slow sync of the first
  meets one of the second; one failure and one restart, together or alone.
  The safety properties are proved without bounds, with the browser too.
* `SiteOpen`: the same, with an upgrade of the installer, beside the loop.
* `FfmpegSync`: two revisions, so that tools in use are replaced and an archive
  is withdrawn; one preview beside the one sync; one failure or kill
  (`MishapLimit`), at every statement. Unfinished torrents are not bounded. The
  safety properties are proved without bounds.

### Fairness

* `TaskQueue`, `ShareIndex`: weak fairness of each worker's next step. Worker
  threads are daemon threads in a loop with a 0.35 s poll; their handlers end,
  the `ffmpeg` calls carrying timeouts. No fairness is assumed of requests,
  except that an accepted request goes on to its enqueue.
* `Installer`: weak fairness of the sync thread and of the supervisor; both
  are goroutines whose waits are timers, bounded HTTP calls and child
  processes. None of crashes, publications or the user.
* `NodeState`: weak fairness of each thread's next step, the loop's next claim
  included: its body is in a `try` and every call of the router or the master
  has a timeout. None of requests, sign-ins, failures or new addresses.
* `SiteSync`: weak fairness of each sync and of the loop's next one: every
  network call has a timeout, the loop waits 30 s. None of requests. Failures
  are bounded, as the property speaks of what follows them.
* `SiteOpen`: besides, weak fairness of a call of `maybe_open_local_site` by
  each of its callers: nothing waits under the lock, and the starter calls
  again and again after each start. `ChannelsArrive` excepts a browser that
  could not be started.
* `FfmpegSync`: weak fairness of the sync's next step: the loop calls
  `sync_ffmpeg_once` every 42 s whatever it raised. None of previews.
* `SharesDb`, `PosterSidecar`: none; nothing is promised in the end.
* `DnsMaster`, `OAuthSignIn`, `TorrentPublish`: none; users leave, and nothing
  is promised to a request in the end.

## 4. What is proved

`TaskQueueProofs` (no bounds on tasks, workers, clients, clock, restarts or
faults): the inductive invariant `IInv` joins the types with three facts the
properties rest on - what a worker holds is `processing`, no two workers hold
the same task, and stamps and ids in hand are sound.  `HeldIsProcessing` is
needed for `ClaimExclusive` (a claim takes a pending row, which nobody holds)
and `ClaimExclusive` for `HeldIsProcessing` (a mark settles a row no one else
holds).  From it follow `TypeCorrect`, `SoundClaims`, the action properties `FinalResults` and `Fifo`, and `Refinement`:
initial states map to initial states, each action to the action of
`TaskLifecycle` it implements or to a stutter.

`ShareIndexProofs` (no bounds on shares, paths, workers, tasks, file ids,
requests, restarts or faults): `NothingForgotten`, `RowsRight`,
`StatusAttended` and `TypeCorrect`, from one inductive invariant of fourteen parts.
`NoMediaForgotten` alone is not inductive: a listed payload could name the
file of another share, a task could end well without its row being ready, a
worker could let go of a task another one runs.  Hence

* `QueueSound`, `Holding`: waiting and running tasks are disjoint, a handler
  runs a running task of its own;
* `HandlerFits`: a handler runs on a payload of its kind, an exception waits
  only in the touch of an image task;
* `IdsFresh`, `JobsHit`, `ListingHits`: ids not handed out have no row, so
  payloads made for a row never match a later one;
* `PreviewDone`: a preview task past its rendering has a ready row or none;
* `IndexAsked`, `LookedAt`: who is asked for has been added, and an index task
  that has started has given its share a status: both parts of
  `SharesAttended` rest on them.

Two relations carry every part over a step: `RowsKept` (a row keeps share,
path and preview until it goes) and `TasksKept` (a known task keeps its
payload, an abandoned one stays abandoned).  The step that adds a row is
covered by the task that adds it (`NewRowListed`); a remembered file is
followed through the four ways of being remembered (`ToBeListedStays`,
`ListedStays`, `TaskStays`, `AbandonedKept`).

`OneWorkerSettles` has a hypothesis: there is one worker, as with
`NODEADLINE_TASK_WORKERS=1` (`queue.py:24`; the default is four).  With two the
property is false, which is what `index_stuck` shows: the one that counted
first writes last.  With one, `SettledOrUnderway` is inductive: a
status is right, or the worker runs a handler on that share that has yet to
write it (`WillSettle`), and what it has counted is still so when it writes
(`Counted`).  Assumed besides is that `NoRow` is no row.

`IndexProofs`, connections (no bounds on threads; assumed is that `Nobody` is
none): `OnlyRefusalsHarm`, `MisreadKept` and `DbTypeCorrect`.  The invariant
says that a statement waiting for its commit is that of the thread in the lock,
in a transaction that may write (`LockRuns`, `WriterIsFresh`), that nothing is
remembered outside transactions (`FreshOutside`), and that transactions stay
inside the lock until one is refused (`InLock`).  `MisreadIsBound` - who has
read an old state has it still - makes a commit of such a thread impossible.

`IndexProofs`, posters (no bounds on images of a stem, threads, tasks, changes
or failures; assumed is that there is an image): `UpToDateIsCurrent` and
`PosterTypeCorrect`.  Two tasks that write into one file were noticed when the
later of them opened it (`MeetingsSeen`); hence so was one that writes what it
loaded in the middle of a save, or was met between its blocks
(`MixturesSeen`).  One that writes an image as it was is excused
(`OldExcused`), and whoever empties the file or leaves a part in it fills it,
removes it, has met another or is excused (`Accounted`).

`MasterProofs`, claims (no bounds on users, addresses, threads, moves, failures
or the limit of the zone): `RecordsBound`, `QuietRequests`, `NothingLost` and
`ClaimTypeCorrect`.  `Named` says which requests have which user and backend in
hand, `AloneIsAlone` that a request which met no other is the only one,
`ZoneRead` that what it read of the zone is the zone still, `RecordFirst` that
the record is there before the binding is written; `QuietClaims` follows a lone
request from its binding to the reload.  `NothingLost` needs besides that only
`Upsert` writes bindings (`OnlyUpsertBinds`) and only `SetHosts` the zone
(`OnlyMergeWrites`).

`MasterProofs`, publications (no bounds on shares, publications, files,
failures, scans or restarts; assumed is that `Nothing` is no publication):
`RevisionsDiffer`, `NotedIsListed`, `QuietPublished` and `PubTypeCorrect`.
`RevisionNamesOne` is not inductive: it needs that the share's revision has
reached the number of every unmingled publication that wrote, and that whoever
read it since has a greater one (`WrittenBehind`), which in turn needs that
publications of one share underway together are in `mingled` (`PubsNoticed`).
`RegisteredIsListed` rests on `Accounted` (past the registration, a publication
is listed or knows that it failed), `QuietPublication` on `QuietPubs`, its form
at every step on the way.

`OAuthSignInProofs` (no bounds on flows, accounts, names, changes of name or
losses): `ClaimsAccepted`, `QuietSignIns`, `FailuresCaused` and `TypeCorrect`.
`Carries` says what a flow has in hand at every stop,
`UsersCurrent`, `FlowsCurrent` and `ContextsCurrent` that names kept by master,
flows and node are those of their accounts unless renamed since; `HoldsPass`
that a flow underway without an excuse has its state or code at the master;
`MeetingsNoticed` and `QuietInOrder` do for the node's files what they do above.

`SyncProofs`, pages (no bounds on threads, revisions, requests, failures or
restarts): `FilesTrue`, `QuietApplies` and `ServedForward` of a node that only
syncs, `OnceShown`, `PagesUnharmed` and `SiteTypeCorrect` of one that shows
the pages too.  `FilesTellTheTruth` is
not inductive: what a sync that met no other knows of the disk at each
statement is `SoleSync`, for which it must be the only one (`HistoryTrue`); that
no sync is behind the served pages is `NeverBehind`; that the two files differ
only between two statements or after trouble is `FilesAgree`.  `OpenSound` ties
what is on the screen to the lock and to what was noted.  The browser's
failures are not steps of `SiteSync`: they share its bound, and the lemmas
about the syncs are stated for them, too (`OtherFault`).

`SyncProofs`, tools (no bounds on revisions, previews or mishaps):
`DamageRepaired`, `QuietPreviewsMade` and `ToolsTypeCorrect`.  `SyncInOrder` says
what is in `vendor`, in the record and in hand at every statement of the sync,
`ToolsInPlace` that tools in use stay while no replacement is underway,
`PreviewsInOrder` what a preview that has met none has found and made so far.

The components that the runs put side by side are proved side by side: a step
of `MCIndex`, `MCMaster` or `MCSync` is a step of each component or leaves it
alone, so that the component's invariant is kept.  `IndexSafe`, `MasterSafe`,
`MasterKeeps`, `ChannelsSafe` and `ChannelsForward` state the runs' properties
of the very specifications the runs check, `IndexTypeCorrect`,
`MasterTypeCorrect` and `ChannelsTypeCorrect` their types.

`InstallerProofs` (no bounds on payloads, processes, publications, crashes,
failures or relaunches): `UpdatesClean`, `ExitsAreJudged` and `TypeCorrect`.

* `Handed` follows a process from its start to the runner and the supervisor: a
  process somebody has started and is about to make the current one is
  in no other's hands and nobody has waited for it; the one in the runner has
  been waited for only where the supervisor still does, or is over.
  `WaitsOnce` needs that, since two goroutines call `Start`.
* `Known` says, for every statement of the thread that syncs, which nodes there
  are: none after `StopNode` or the sweep of the ports, the fresh one before it
  is set, otherwise none but `cmd`.  It holds only without crashes and
  relaunches (`Clean`): after a crash the supervisor starts nodes on its own.
* `Calm`: until then every exit the supervisor sees finds `flag` set, so that it
  never starts a node at all.  Without it `Known` is not inductive.

`NodeStateProofs` (no bounds on ports, users, addresses, threads, requests,
failures or restarts; assumed is that threads are distinct and that `None` is
no value): `QuietTells`, `RemapsCleanUp` and `TypeCorrect`.  Both properties speak of
a file that threads copy and save later, so the invariant says of every copy
that will be saved what the property says of the file (`CopyIsTrue`), and who
alone may know more than the file while it is not yet saved: a thread in a
remap, or in a sign-in between `dns_claim.json` and the save (`FileIsTrue`).
That only one thread is at work is `MeetingsNoticed`.  `Remaps` carries
`RemapCleansUp` through deletion, tries and roll backs.

The proof of `RemapsCleanUp` failed at first, and rightly so: the property said
that a remap leaves exactly the ports mapped before, but for the one it gave up
and the one it settles on.  A port that an earlier remap left mapped may be
among the candidates of the next; the router then accepts the mapping again,
and when the probe fails the roll back deletes it (`port_manager.py:340`).  One
remap in the run could not show it.  The property now says what holds:
nothing stays mapped but what was and the port settled on, and what may not be
tried stays.

*Assumed.*  The named assumptions about constants say that the model's
stand-ins differ (`NoTask` is no task, threads are distinct, `None` is no port)
and that limits are numbers; each is evaluated by TLC in the runs.

*Not proved*: the temporal properties `Progress`, `PreviewsArrive`,
`NodeComesBack`, `PayloadArrives`, `ChannelsArrive` and `ClaimSettles`, which
rest on fairness and are out of the prover's reach.  TLC checks them on the
bounds above.  Every other property of a passing run is a theorem;
`StatusSettles` for one worker, as said.

## 5. Findings

Each is a run with `expect: violation` in `PROJECT.json`; the runs of section
3 marked *violated*.  In short: a fully indexed share may stay
`posters_pending`; the installer's stop flag swallows a later crash; an update
inside the two minutes after a crash ends with two nodes; of two claims at
once one loses its A record, and "unchanged" claims never bring it back; one
sign-in in nine leaves a token the master never accepts, since the signature
in it holds a dot.

Seen while modelling, without a run of their own:

* a failed restart is never retried, although `supervisor.go:79` logs
  "retry in 2m" (`NodeComesBack` excepts it);
* a failed installer upgrade is recorded as done by the next successful sync
  (`main.go:696`);
* a payload taken back after the round of its successor failed is "up to date"
  (`main.go:460`), though that round stopped the node and may have replaced
  its files: updateLoop never starts it again (`PayloadArrives` excepts this
  as `TakenBack`, and fails without the exception);
* `libs/tasks/queue.py:1` speaks of one sequential worker; `start_worker`
  starts several;
* `README.md:106` says a claim sets a single record in place of all; the code
  merges;
* a share added under a `mount_path` that is taken (the dashboard proposes
  `share` to everybody, `user_page.py:595`), or a file added to a share that
  was just removed, is refused by SQLite and leaves the write lock of
  `shares.db` with its thread (`registry.py:169`, `278`): every other write is
  turned away after five seconds, the connections turned away are left in open
  transactions, and one that had read before goes on reading that state and
  can never write again, until the node is restarted (`SharesDb`);
* a poster whose second save fails, for example because the metadata are too
  long for a JPEG, is left empty, counts as ready although the gallery is said
  to show finished posters only (`registry.py:320`), and is up to date from
  then on (`poster_sidecar.py:68`); one cut off by a kill likewise
  (`PosterIsCurrent` excuses both);
* two tasks for images of one stem, or for one image scanned twice, that run at
  once may mix the blocks of their second saves (`poster_sidecar.py:62`): the
  damaged poster counts as up to date until an image is changed
  (`PosterIsCurrent` lets it be `Mixed` then);
* an image replaced while its poster is made, or by a file that keeps an older
  time, keeps the poster of the picture before (`poster_sidecar.py:168`);
* a restart writes `runtime_state.json` afresh (`node/main.py:1468`) and so
  forgets who signed in, though `dns_claim.json` survives and the node goes on
  claiming for that user (`QuietStateTells` excepts restarts);
* a save of a copy taken before a probe or a mapping brings back fields other
  threads have changed since, for example a port a remap has given up; without
  `~overlapped`, TLC finds `QuietStateTells` violated;
* two syncs of one revision at once may leave it incomplete, served and
  recorded as up to date until the next revision (`FilesTellTheTruth` and
  `ChannelsArrive` except overlap);
* two accounts whose e-mail addresses begin alike have one label; two lines of
  the map then name one host, `nginx -t` refuses the map, and no later claim
  of anybody is served (`nginx_ingress.py:22`);
* a token for claims lives seven days and nothing renews it: the claims of a
  node whose user does not sign in again are refused every 75 s (`Expires` of
  `OAuthSignIn`, `TokenExpires` of `NodeState`; `ClaimSettles` says what the
  node then reports);
* a node announces a publication once, an entry of the tracker lives an hour
  (`tracker.py:109`), and no entry is ever renewed;
* a torrent counts as complete at 99.9 % (`torrent_sync.py:96`), though up to a
  thousandth of it may be out; its sum then differs, the sync ends with
  `apply_failed` and does not try HTTPS, which `vendor/ffmpeg/README.md:29`
  promises.  The next round starts over and may end alike: on a slow link the
  last revision need not arrive ever.  Without this exception TLC finds
  `ChannelsArrive` violated, by the tools and by the pages (`channel.py:256`);
* on Windows, a tool that runs while its directory is replaced leaves the new
  tools inside the old directory, and their revision recorded
  (`ffmpeg_sync.py:216`; `DamageIsBehind` excepts it);
* channel_state.json is empty for a moment while a sync records a revision: a
  call of the browser then, after an upgrade of the installer, notes revision 0
  and the revision is shown again.

## 6. Not modelled, and why

* **One process per database.** The lock of `queue.py` is a lock of one
  process; two nodes on one `tasks.db` are planned.
* **Transactions of `tasks.db`.** `queue.py` never rolls back either; its
  statements meet no constraint, so that only a failing disk leaves one open.
* **A COMMIT of `shares.db` that fails.** In WAL mode it already holds the write
  lock and is refused by no other connection: only a failing disk does it.
* **Pixels and metadata** of posters: of blocks only that they are of one save
  or of several.
* **Progress columns, lists and statistics**: read by no decision.
* **Sessions.** Cookies are signed and kept nowhere; `/me` and logout look at
  the cookie alone.
* **Answers of the tracker.** Which peers an announcement is told is read by
  no code of the node.
* **Windows' exec** (a new process instead of the same one), the tray and the
  console of the installer, and the other nodes `apply-upgrade` ends.
* Pages, pickers, statistics, configuration, the directory (a join of two
  files): no state of their own.

## 7. Plan

In order of importance; each with its MC module, mutants and hazards.  Runs
are kept few: a new module joins `MCIndex`, `MCMaster` or `MCSync`, or takes over a run by
composition, where it can.

1. `TaskLifecycle`, `TaskQueue`, `ShareIndex`, `TorrentPublish` - done, with
   proofs.
2. `SharesDb`, `PosterSidecar` - done, with proofs; left: a second process on
   `tasks.db`.
3. `DnsMaster`, `OAuthSignIn`, `FfmpegSync` - done, with proofs; left: an
   abstract specification of the first (the registry as a map changed one user
   at a time, beside a zone that only grows while requests are alone) and the
   proof that it is implemented.
4. `Installer` - done, with proofs; left: of a crashed node, that what the
   supervisor starts is the only node unless `updateLoop` acts within its two
   minutes.
5. `NodeState` - done, with proofs; left: its claims against those of
   `DnsMaster` instead of `record`.
6. `SiteSync`, `SiteOpen` - done, with proofs; left: an abstract specification,
   a revision register that only grows while syncs do not meet, and its
   refinement.
7. What the temporal properties rest on: the safety halves of `Progress` and
   `PayloadArrives` (no pending task is held, no round skips a payload that is
   not installed) as invariants.
8. `Dedupe`: the gallery's and marketplace's choice among duplicates, as
   operators checked against a reference definition.
