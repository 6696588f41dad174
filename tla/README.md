# A TLA+ model of shadow-mdc

shadow-mdc is a media catalogue server: one Python process (FastAPI on one
asyncio loop, worker threads for scans and file work, one SQLite database, JSON
state files) that scans media directories, identifies works, submits cloud
offline downloads (115), exports `.strm` trees and tells an Emby server what
changed. This directory models the parts of it that keep state across awaits,
threads and restarts, checks them with TLC on small instances and proves what
matters most about each of them with TLAPS for all instances.

Source paths below are relative to `src/shadow_mdc/` (documents under `docs/` to the
repository root); `svc/` abbreviates `services/`. `PROJECT.json` lists components, runs,
the line map of every definition, hazards, findings and theorems.

## 1. Inventory

### Parts that are modelled

| Component | State it keeps | Operations | Interacts with |
|---|---|---|---|
| Offline recovery: `svc/offline_recovery.py`, `svc/offline_control.py`, `svc/pan_offline_enqueue.py`, the 115 half of `svc/pan_poller.py` | `pan_offline_tasks` rows, each with a `recovery_json` checkpoint (tried hashes, queued action, next hash, exhausted) | cancel, next, enqueue; the continuation `advance` of a queued action; the poll wave: list, apply, complete, `advance_pending` | the 115 account (remote tasks), the export, every HTTP request on the same loop |
| Emby notifier: `svc/emby_notify.py` | `_pending` (dict by path, with revision and backoff), debounce times, a wake event, a state file | `enqueue`, `retry_now`, `flush`, `_loop`, `start`, `stop` | the exporter and the clean-up produce, the Emby server consumes |
| Obsolete exports: `svc/obsolete_exports.py`, its caller in `pan_poller.py`, the removal in `svc/strm_export.py` | a list of codes and its state file | `mark` (scan threads), `drain` (maintenance loop, on a worker thread) | database (does the code have a Work?), export tree, Emby notifier |
| Library scan jobs: `svc/library_jobs.py`, `svc/resumable_jobs.py`, `svc/scanner.py`, the job endpoints of `api.py`, task rows of `db/repository.py` | `task_runs`, `job_checkpoints`, `library_scan_items`, a database session per thread | queue, cancel, retry, the worker, recovery at start | requests on other threads, the obsolete-export queue, the disk |
| Catalogue: the merge of records in `db/repository.py`, `svc/identify.py`, the asset side of `svc/scanner.py`, the identify, accept, inbox, edit, lock and refresh endpoints of `api.py` | works with locks, cast and its source, identities; assets; candidates | scan, upsert, accept, ignore, edit, lock, refresh, identify, restart repair | the providers (awaited), the user, every scan |
| Organizer: `media/organizer.py`, `media/organize_journal.py`, the organize and undo endpoints | files, asset paths, the journal of reverse operations | one run item by item, clean-up, undo | the disk, the user, the database |
| Subtitle backfill: `svc/subtitle_backfill.py`, its endpoints and lifespan | a checkpoint row, one thread, two flags | start, stop, cancel, shutdown, resume, each step of the walk | the subtitle source, task rows |
| Subscription watch and submissions: `svc/subscription_watch.py`, `svc/pan_offline_enqueue.py`, `submit_offline_url` in `svc/pan.py` | a state file (drain, cutoff, stamps), library prefs, offline rows, a lock per magnet | tick, look, submit, reconcile, stamp; follow, dismiss, add | the 115 account, requests that add the same magnet |
| 115 session: `svc/pan.py`, `svc/pan_common.py`, `svc/strm_relay.py` | the client's rotating tokens, `credentials.json`, the account version, cached links | calls with one refresh and one retry, single flight, QR login, import, disconnect, rejection, link resolution | 115, all callers of the client |
| R18 dump: `svc/r18_dump_download.py`, `svc/r18_dump_refresh.py`, `svc/r18_dump.py`, `scripts/run_r18_dump_weekly.py` | a partial file with its sidecar, the finished file, the lookup database | download with resume and probe, import behind a gate, enrichment | the r18.dev object store, the API service it stops and starts |
| Response cache: `svc/response_cache.py`, the list and edit endpoints | entries in Redis or in a table of the process | look up, store, drop by prefix, fall back | all list endpoints |
| Provider registry and rescrape quota: `providers/base.py`, `svc/rescrape_quota.py`, the refresh endpoint | health entries, call slots; day, counts and their file | search, the end of each call, reset; charge, refusal, day change, reload | all metadata sources |

What makes them hard:

* **Offline recovery.** No lock spans an await. A continuation reads the action,
  awaits the cloud and records the result in a new session; the poller, a second
  request and a restart may come in between.
* **Emby notifier.** A path may change while its batch is in flight, a batch is
  sent in chunks of which some succeed, and the process may stop at each await.
* **Obsolete exports.** The drain works on a snapshot on a thread of its own while scans mark codes and works
  and exports change.
* **Library scans.** A scan thread holds a stale copy of its row
  (`expire_on_commit=False`) and writes progress from it, while cancels commit from
  other threads.
* **Catalogue.** A handler that awaits the providers goes on with the rows it loaded
  before; scans, edits and acceptances change them meanwhile. Records of several
  sources reach one work in any order.
* **Organizer.** An item fails after some of its files were moved, or in the middle of a copy; the
  user changes files at any time, also between a look at a place and the move that relies on it.
* **Backfill and watch.** Both resume after a crash from a checkpoint that must be
  neither ahead of the work done nor so far behind that it is done twice.
* **115 session.** A refresh token rotates: a second refresh with the old one ends the
  login. Answers arrive late, after the account has changed.
* **R18 dump.** The object is swapped on the server while a partial file of the old one
  lies on disk; streams break, lengths are unknown, resumes repeat.
* **Response cache.** An answer may be old only for as long as its time to live, whatever Redis
  and the edits do.
* **Registry and quota.** A call queued for a slot must see a cooldown that was set
  meanwhile; a restart must not renew a budget.

### Parts that are not modelled, and why

* **Identify jobs and other background jobs** (`svc/jobs.py`): share the task rows with
  scans and have the same life cycle; their effect on assets is in `Catalogue`.
* **Automatic seeding** (`svc/seed_auto_offline.py`): its submissions are those of
  `SubscriptionWatch`, and its batch resumes the way the watch does.
* **OpenList backend** (`svc/openlist.py`): remote calls without rotating state; its
  backoff gate is a timer per host.
* **Providers and scrapers, discovery, translation, artwork, NFO**: request one page, parse
  it, return a record. What they do wrong is a wrong parse, which a model that
  abstracts the data cannot show.
* **Rankings, seeds, catalogue exchange, actors, categories, collections, tags, views and
  rules**: single transactions, queries and formatting.
* **The several hundred other endpoints of `api.py`, `api_models.py`, `mcp_api.py`**: validate one
  request and make one call of a component.
* **Swipe sidecar, MCP server, web front end, scripts**: other programs or thin adapters
  without control of their own.

The map therefore covers a small share of all implementation lines. Most of the
repository is scraping, parsing, response models, queries and one-off scripts; they
keep no state between two steps, so there is nothing in them a state machine says
that the code does not say shorter. What keeps state over awaits, threads and
restarts is listed in the table above.

## 2. Modules

| Module | Models | Kind |
|---|---|---|
| `OfflineRecovery` | magnet failover of one work's offline tasks | component |
| `EmbyNotify` | the durable notice queue | component |
| `ObsoleteExports` | the clean-up queue and its drain | component |
| `DurableQueue` | what both queues promise: an item owed is on disk until it is handled or given up, and none is given up as it is added | abstract specification |
| `LibraryScan` | scans of one library and their task rows | component |
| `Catalogue` | assets, candidates, works and the merge of records | component |
| `Organize` | an organize run and its undo | component |
| `SubtitleBackfill` | the walk of the subtitle thread | component |
| `SubscriptionWatch` | the watch with its drain, and two submitters of one magnet | component |
| `PanSession` | tokens, logins and cached links of the 115 client | component |
| `R18Dump` | the weekly refresh of the dump | component |
| `ProviderRegistry` | slots, breaker and waits of the sources, and the rescrape budget | component |
| `ResponseCache` | the cache of API answers, its two stores, edits and changes | component |
| `Subsequences` | what a comprehension or a dict leaves of an ordered collection; used by the two modules with bounded dicts | operator |
| `OfflineRecovery_proofs`, `LibraryScan_proofs`, `ObsoleteExports_proofs`, `PanSession_proofs`, `Organize_proofs` | theorems about the component they are named after | proofs |
| `OrderedStores_proofs` | theorems about `EmbyNotify` and `ResponseCache` | proofs |
| `BackgroundServices_proofs` | theorems about `SubtitleBackfill` and `SubscriptionWatch` | proofs |
| `MetadataSources_proofs` | theorems about `ProviderRegistry`, `R18Dump` and `Catalogue` | proofs |
| `MCOfflineRecovery`, `MCObsoleteExports`, `MCLibraryScan`, `MCCatalogue`, `MCOrganize`, `MCPanSession` | symmetry sets and constants for TLC, one component each | model checking |
| `MCSafety`, `MCServices`, `MCLive`, `MCScanCache` | several components that share no state, one of them in each behaviour | model checking |

Every component declares its constants with a named assumption, has a variable per
piece of program state (history variables are marked as such), an action per session
or handler step, `Spec` (and `FairSpec` where liveness is checked), and its properties at
the end. Definitions called "mutant" in their comment are deliberate mistakes: replacing
the definition they precede by them must break a property, which shows that the
property depends on that piece of code.

`MCSafety`, `MCServices`, `MCLive` and `MCScanCache` put services side by side that never call each other. A
variable `focus`, chosen in the first state, says which of them runs; the others stay in
their initial state. So TLC visits the union of their state spaces and not the product,
which would add nothing, since no action of one reads a variable of another. Where
services do interact, the other side is part of the component's own module: marking
and draining in `ObsoleteExports`, two submitters in `SubscriptionWatch`, the relay and the
poller in `PanSession`, requests and the poll wave in `OfflineRecovery`.

### OfflineRecovery

A database session does not await, so a session is one action. `call[a]` is the
coroutine of actor `a` (a request or the poller): its program counter and the row,
action and hashes it read before its await. `RequestCancel`, `RequestNext` and
`RequestEnqueue` are the endpoints' first sessions; `Advance` is the first session of
`advance()`; `RemovalDone`/`RemovalRaised` and `SubmitAccepted`/`SubmitRefused` are the
service's answers; `AfterRemoval`, `RecordSwitch`, `RecordRefusal`, `RecordEnqueue` the
sessions that follow, which (as in the code) use the action read earlier. The poll
wave is `PollList`, `PollApply`/`PollFailed`, `ApplyRow`*, `ApplyEnd`, `Complete`*,
`AdvancePending`; applying does not await, so `Next` lets nothing else run in it.
`remote` is the account's task list; it fails and finishes downloads by itself.

Abstractions: the ranking of magnets is any order (its head is a choice); stall
detection by time and the `auto_switch` setting are the choice of `Observed`; rows are
those of one work, and the order of their creation is their number. Calls on one row or magnet
overlap freely, since the code has no lock against it. Two history variables tell what that does to a
row: a session that writes a row leaves every other actor that has read it *behind*, and a session
that is behind and writes all the same has the row *overtaken* until the user submits it
anew. Where the code loses an update, the properties of `overtaken` rows say nothing, and those of all others
hold. `unrecorded` is history as well: the magnets at the service that no row names, because the enqueue that submitted
them has not returned, because a request made a row forget the magnet it had queued (`Forgotten`), or
because a late session submitted or wrote over them.

### EmbyNotify

`queue` is the dict in insertion order; an entry has a kind, a revision and whether it
backs off. `Enqueue` merges, evicts the oldest revision over the limit and saves;
`LoopCheck`, `LoopClear`, `LoopWake` are the statements of `_loop` around
`wake.clear()`, apart because a worker thread may come between them (`Threaded`);
`FlushStarts`, `EmbyTakes`, `ChunkAccepted`, `ChunkFails`, `FlushRaises` are a post
of several chunks, whose effect and answer are two steps; `Stop`, `StopDone`, `Start`,
`Crash` the life of the process. History variables count the changes of a path and the
last one Emby was told of. Time is abstract: the quiet period and a backoff may end
at any moment. Not modelled: a state file that cannot be written (the code logs and goes
on), an `enqueue` of several paths whose entries appear one by one (each path is
its own action), and what a thread sees in the middle of a dict update.

### ObsoleteExports

`works` and `exports` are what the database and the export tree hold, `codes`/`saved` the
queue in memory and on disk, and the drain has a program counter: `DrainStarts` (snapshot),
`Check`, `Remove`, `Notify` per code, `DrainEnds` (replace and save). A removal takes the
generated files, raises, or passes over a file it cannot unlink without telling
(`skipped`). Scans, works and exports go on during a drain. History tells the codes `owed` (marked, and dealt
with by no drain since), those marked in the `interim` since the drain began, and those of which its end `lost`
such a mark. A drain without a configured output root keeps every code and is left out.

### LibraryScan

`task`, `checkpoint`, `items`, `codes` are the rows; `w[t]` is the thread of task `t` with
the row it loaded (`copy`). `Progress` writes what SQLAlchemy would: the changed
attributes of the stale copy. `Admit` is the check inside `BEGIN IMMEDIATE`; `Inherit` is
what a retry copies; `Recoverable` the tasks a start of the process resumes.
`CheckCancel`, `ReportProgress`, `SkipFile`/`StartFile`, `FileScanned`/`FileFails` are
one turn of the loop, with a commit in `FileScanned`. A cancel is a read and a write
(`CancelRead`, `CancelWrite`). `view` records whether a file changed after the scan saw
it. One library is modelled because admission is per library; identify jobs, what a file
name means, the path filter and the schedule are left out. Cancels come at any moment. The history `unheard`
names the tasks whose cancel the first progress wrote over, and a task is `LeftCancelled` if a cancel
was written over its end.

### Catalogue

A work is a record with title, cast, the source of the cast and the locked fields; `cat.ids`
maps records and codes to works. `Scan` is the part of the scanner that touches works and
assets, `Upsert` a seed or job that merges one record, `Accept`, `Ignore`, `EditWork`, `SetLocks` the
user's requests, `Restart` the repair of cast sources at start. `BeginRefresh` and `BeginIdentify` load rows
and await the providers; `Proceed` goes on with that copy, as SQLAlchemy does when the
session's objects are neither expired nor reloaded. `MergedCast` is the rule of cast sources and their
priority. Scores are an input (`Matching`). Left out: translations, artwork, NFO import,
deletion of works, manual candidates, categories, collections and tags. In the code the assets
of one group share a batch of records; here each has its own answer.

### Organize

A place is where a file may lie, a content is whose it is. `ItemBegins` (conflict check),
`MediaPlaced`, `NfoWritten`, `JunkTrashed`, `DirectoryRemoved`, `ItemSucceeds`/`ItemFails`, `Stored` are the run;
each appends to the journal what the code appends. A failed move or copy may leave a `Partial` file of which the journal
knows nothing. The undo goes backwards with the checks of `_undo_one`: `UndoLooks` at the places of an entry that
moves or deletes, and `UndoMoves` or `UndoDeletes` a step later; `UndoWrites` the old text of an NFO, or a directory, without a
look; `UndoStepFails`, `UndoEnds`. `UserWrites` and `UserMoves` are the user, between any two steps, which includes the one between a
look and the move that follows it. Two histories: `raced` are the places he put a file in after the look, `unsaved` the NFOs that
were overwritten without a backup, because `before_overwrite()` returns `False` for a text that is too large,
unreadable or not UTF-8 (`media/organize_journal.py:97-101`) and its caller does not ask (`media/organizer.py:190-192`).
Subtitles and artwork go the way of the video and are not told apart.

### SubtitleBackfill

`backfill` is the checkpoint row and `walker[r]` the thread of launch `r` at its statements: load,
look at the stop event, look at the cancel flag, process, save, finish. `Start` (with dry run, limit, restart),
`Stop`, `CancelTask` are requests; `Shutdown` and `Kill` end the process, and what runs is resumed
by the next start; `Raises` and `DiesUnrecorded` are exceptions in the walk and in the recording of
its end. What a lookup finds is not told apart; that it fails is.

### SubscriptionWatch

`TickBegins` makes or continues a drain, then each work is looked at, submitted and stamped
(`TickSteps`). `enq[p]` is a call of `enqueue_work_offline`: find a row, take the lock of the magnet, read
115's tasks, clear stale history, submit, reconcile a lost reply, commit (`CallSteps`), for the watch and for a
request at once. `RemoteChanges`, `RowFollows`, `PanDrops`, `Interrupted` are the cloud, the poller,
an outage and a restart. Stamps are never, due or recent.

### PanSession

`call[c]` is a handler inside `_authed_json`: it used a token, may find it expired, joins or starts the
one refresh in flight, and retries once. A login, an import or a disconnect changes client and stored
credentials; the latter two run on a pool thread and are two steps, between which the loop goes on. The relay's
`ResolveStarts` notes its key (`Key`) first; then it asks for the pick code and for the download link, each with a
fingerprint of its own (`read_after_check`), falls back to the play link under the old key, and may run out of time
(`ResolveTimesOut`). Histories: `dead` are the tokens that are no longer accepted for a reason other than a second refresh of ours;
`crossed` says that an answer or a login changed the file while a thread was half done, or that a login was stored with the user info of
another; `strayed` that the relay's resolve met a change its fingerprints cannot see (a token of one login beside the file of
another, a fingerprint that is no longer that of the key when a read starts, or one that changes and comes back). Imports
without a user id share one fingerprint, so links under it are left out.

### R18Dump

A version is what the server holds at a dated URL; bytes are pieces. The run goes through request, truncation,
stream, probe, resume and replacement as the download does, then import (with the gate on the number of rows),
enrichment and restart of the service. `Crash` may come anywhere. The history `cut` names the URLs at which one came
between the new sidecar and the truncation of the old partial file, `mixed` those whose finished file was made of such a rest.

### ProviderRegistry

`Begin` selects the sources that do not cool down; each call waits for a slot, looks at the cooldown again (`Take`)
and ends in one of the four ways `invoke` tells apart. `Rescrape` charges the budget before it searches;
`RescrapeRefused` is a 429 or a budget file that cannot be written. Time is the clock `now`, in units of the
shortest wait. Two searches may call one source at a time. The history `late` names the sources that answered another
call during the wait they had asked for.

### ResponseCache

`Hit`, `Begin`, `Read` and `Store` are a request on its thread: the look-up, the queries and the store of what they
gave. `Edit`, one `Drop` per key and `EndEdit` are a handler that changes the catalogue: it drops the keys while its
transaction is open, and the dependency that opened the session commits or rolls back after it
(`api.py:773-775`, `db/repository.py:279-288`). `Silent` is a change that drops nothing (scans, identification).
`Operates` is `_run`: any operation may find Redis gone, perhaps after it was applied, and is repeated on a fresh
table. An entry is a version of the rows of its kind; `why` is history and says what may have made it old. `clock` is in units
that no computation exceeds. One commit suffices since edits that are rolled back may precede or follow it; the
instance with two commits passes as well.

## 3. Runs

Times are for two workers. Symmetry is used only in runs without liveness properties.

| Run | Instance | States, time | Shows |
|---|---|---|---|
| `Safety` | offline recovery: 2 rows, 3 magnets, cap 2, at most 3 submissions and requests, a restart, lost replies, calls that overlap; registry: 2 sources (one without budget), 2 searches, 2 slots, threshold 2, a wait longer than the cooldown, a midnight, a restart; notifier: 3 paths, limit 2, chunks of 1, 3 changes, a retry, a restart, the switch, producers on threads | 2,647,740, 4 min | `CheckpointConsistent`, `AttemptsCapped`, `CancelledIsRemoved`, `DownloadsAccounted`, `CancelSticks`, `PredecessorRemoved`; `WaitsKept`, `BudgetKept`; `EmbyInSync`, `NotifierImplementsQueue` |
| `CleanupQueue` | 2 codes, a restart, `FairSpec`, marks, works and exports that change during drains | 77,984, 20 s | `ImplementsQueue`, `ObsoleteRemoved` |
| `ScanRecovery` | scans: 2 tasks, 2 files, a file change, an exception, a restart, cancels at any moment; response cache: 2 keys of which the table holds one, 2 readers, a commit, a failure of Redis, a restart | 4,946,596, 3.5 min | `StaleIsExcused`; `OneWorker`, `NothingScannedTwice`, `CodesKept`, `SuccessIsComplete`, `CancelHeard` |
| `Services` | dump: 4 versions over 2 URLs, one swapped, one unsized, one without validator, 3 faults; backfill: 2 directories, 3 runs, 2 mishaps; watch: 2 works, 3 events; organize: 2 files with one NFO, 2 user changes at any step, a failure; scan: 1 task with cancels at any time, an exception, a restart; catalogue: 2 files, of which one has the code of 2 records that both name performers, a request that awaits, 5 calls; fair | 372,707, 2.5 min | `NeverSpliced`, `LookupCatchesUp`; `CursorHonest`, `OneBackfill`, `StopSticks`, `BackfillEnds`; `DrainOnce`, `NothingRunningCleared`, `FollowedIsSubmitted`; `RoundTrip`, `UserFilesKept`; `ScanEnds`; `AssetStates`, `CuratedKept` |
| `PanSession` | 2 accounts, the QR login and the relay as callers, 3 tokens, a link to resolve, a restart | 7,830,058, 4 min | `NotSelfRejected`, `LoginKept`, `DisconnectSticks`, `LinksMatch`, `NewerLoginWins` |
| `Live` | offline recovery: 2 tasks whose calls overlap, a failing removal, a restart; notifier: 2 paths, 2 changes, retries, a restart; fair | 56,500, 1.5 min | `RunningActionResolves`, `Announced` |
| `OfflineStuck` | 1 row, a restart, `FairSpec` | small | `PendingActionResolves` is violated |
| `CleanupLostMark` | 3 codes, no restart | small | `LeavesWhenClean` is violated |
| `ScanCancelLost` | 1 task | small | `CancelStops` is violated |
| `UndoClobbers` | 2 files with one NFO, one user change | small | `EditsKept` is violated |
| `LockIgnored` | 2 files, 2 records, one request that awaits, 4 calls | small | `LocksProtected` is violated |
| `CooldownCut` | 1 source, 3 searches | small | `CooldownHonoured` is violated |

Bounds, and why they are enough. Three magnets exceed the cap of two, so both the
cap and a shortage occur; two rows are the fewest that compete for a magnet, of which one forgets what the
other has, and that fill the window of `ListLimit` rows (200 in the code). Three paths overflow a queue of
two, and chunks of one split each batch. Two scan tasks are a scan and its retry; two files
are one committed before and one after an interruption. Four dump versions are one swap at
a URL, one without a length and one without a validator; `MaxResume = 2` reaches the limit of
attempts and one resume before it. Two directories are one passed and one not; three runs are a start,
a stop and a start, or two resumes. Two works are the one at hand and one that waits, two submitters the fewest
that race. Two files that share an NFO are what makes its policy and its undo interesting. Three tokens are a
login, its rotation and another login; the relay and the QR login are the callers with steps of their own, and joining
a refresh takes two. An instance with a third caller (two tokens, 1,458,108 states) passes as well, as does one without a bound on
the resolves. In `Safety` the user acts three times: two submissions, which make two rows, and one request, or one
submission and two requests. Two sources and two slots let a call wait for a slot while another
is answered 429; a wait of two units and a cooldown of one tell which of them was applied. One
restart at each point suffices; for offline recovery, where a second could meet what the first left half done, the
proofs of section 5 cover any number of them. `CHECK_DEADLOCK` is off where every bound can be used up in
a state in which the system rests.

Fairness. The event loop runs what is ready, threads run, and a stopped process is started
again: weak fairness. A remote operation that is retried for ever succeeds at last: strong
fairness of `RemovalDone`, `PollApply`, `EmbyTakes`/`ChunkAccepted` for each chunk, and
of a successful check and removal in the drain. This is what "retry" in the code
relies on; without it a server that is always down starves everyone. An outage of 115 ends
(`PanReturns`), and failures of the dump and the watch are bounded by `MaxFaults` and `MaxEvents`, so
weak fairness of their steps suffices. Users, crashes, failures of a service and changes of
files are never fair. In `LibraryScan` the steps of a thread are weakly fair, as is the second step of a cancel: no
user keeps a scan from going on.

## 4. What the code does not promise

Divergences that runs show:

1. `OfflineStuck`: the poller returns before `advance_pending` when no task is running
   (`svc/pan_poller.py:302`), so a switch queued on a failed task whose first
   continuation is cut short waits for ever.
2. `CleanupLostMark`: `drain()` ends with `self._codes = kept`
   (`svc/obsolete_exports.py:115`) and discards codes marked meanwhile.
3. `ScanCancelLost`: the first progress of a scan overwrites a cancel committed after the
   row was loaded (`db/repository.py:480-487`).
4. `UndoClobbers`: undo writes the old text of an NFO over an edit made after the run
   (`media/organize_journal.py:183-191`, against its docstring, lines 4-7).
5. `LockIgnored`: a field locked while its refresh awaits the providers is overwritten, since the merge
   looks at the locks loaded before (`api.py:4659`, against the comment at 4664).
6. `CooldownCut`: a success that was in flight removes the wait a 429 of the same source has just asked
   for (`providers/base.py:334`, against `docs/architecture.md:65-66`).

Reproducible with the modules by changing a constant or a property:

* `Live` with `Threaded = TRUE` for the notifier: a worker thread that enqueues between the look at the queue
  and `wake.clear()` (`svc/emby_notify.py:309-312`) leaves the loop parked. Besides, `asyncio.Event.set` from
  another thread does not wake the loop.
* `ScanRecovery` with the invariant `EditsShow`: an edit drops the cached lists before its transaction commits
  (`api.py:5432` against "after catalog mutations", line 5433), so that a request that misses in between computes the list of
  before and stores it for its time to live, five minutes for works. With `CommitFirst = TRUE` the invariant holds.

The models take the timings below as they are in the code, and the properties name them as exceptions, by history
variables that hold what the timing may have spoilt.

* *Offline recovery, overlapping calls* (`overtaken`). After the removal `advance()` turns whatever action is queued by then
  into a submission (`svc/offline_control.py:266`), so that a replacement may start before its own predecessor is
  removed; two continuations of one queued submission both record it, past the cap; a completion writes `done`
  over a row that was cancelled while it ran (`svc/pan_poller.py:481-494`), and a switch that is recorded
  late writes `running` (`svc/offline_control.py:340-360`).
* *Clean-up* (`lost`, `interim`). The end of a drain discards the marks made during it (finding 2). A fresh export is deleted when its
  Work returns between the check and the removal (`svc/obsolete_exports.py:100`): the code does nothing against it, so
  there is no property to state.
* *Scans* (`unheard`, `LeftCancelled`). The first progress writes over a cancel (finding 3). A cancel that spans the end of a scan
  leaves a finished task in `cancel_requested` (`db/repository.py:490`), which no retry accepts, and its codes to nobody.
* *Registry* (`late`). An answer to a call that was under way removes or replaces the wait (finding 6).
* *Dump* (`cut`, `mixed`). A crash between the new sidecar and the truncation of the old partial
  file (`svc/r18_dump_download.py:194-195`) lets the next run append to bytes of another version.
* *Organizer* (`raced`, `unsaved`, `Partial`). The run looks for conflicts (`media/organizer.py:80`, 153-161) and moves
  later (line 215), the undo likewise (`media/organize_journal.py:163-172`): a file that comes in between is overwritten or
  deleted. An NFO that cannot be backed up is overwritten without an entry (`media/organizer.py:190-192`). A
  move or copy that fails may leave part of a file that no undo removes.
* *115 session* (`crossed`, `dead`). A rotation of the old login that arrives while a new one asks for the user info is
  dropped (`svc/pan.py:644-647`), and one of the new login is not saved, so that the login is stored with the token it
  replaced. An answer between the two steps of an import or a
  disconnect writes the file, so that file and client hold different logins (`svc/pan.py:1529-1555`). A user info
  that is asked for again after another login came is that login's, and is stored with the first one's token.
* *STRM relay* (`strayed`). The key is noted before the reads (`svc/strm_relay.py:176`), each of which compares with a fingerprint
  taken later (line 213), and the fallback (lines 220-226) reads under a fresh one and the old key: after another
  login in between, its link is cached under the key of the first. A login or import over another
  account does not bump the account version (`svc/pan.py:1248`), so a change and a change back are not seen.

Observed while modelling:

* A submission whose reply is lost leaves a task failed, with a queued magnet that downloads at 115. A cancel, a
  "next" or a new submission of the task then replaces the queued magnet (`svc/offline_recovery.py:323`,
  340), and nothing in the application refers to that download any more. Only with two rows does TLC reach
  this; `DownloadsAccounted` and `PredecessorRemoved` would fail without the exception that names it (`unrecorded`).
* Magnets other tasks use are excluded when a switch is queued, not when it is submitted
  (`svc/offline_control.py:104`). With two tasks that share a magnet, cancelling one removes the download of the
  other; a cancel during a submission removes the active hash only (line 81).
* A write of the notifier's state file that fails is only logged (`svc/emby_notify.py:179`).
* A file that cannot be unlinked is passed over and its code dropped (`svc/strm_export.py:957`); a code kept
  because its notice failed is dropped on the next drain without any notice (`svc/obsolete_exports.py:106`).
* A dump that is unchanged is not imported, also if its last import failed (`svc/r18_dump_refresh.py:166`).
* A stop of the backfill that is followed by a shutdown before the thread looks at the event is forgotten:
  the next start resumes it. A cancel of its task is lost by a restart. The cursor passes a directory whose
  lookup failed, and a directory that sorts before the cursor is skipped.
* The watch submits the targets of its start, also one dismissed since; preferences are saved by
  read-modify-write, so that of two edits one may be lost.
* A crash in the middle of an organize run loses its journal and the new asset paths; undo moves back
  whatever lies where the run moved a video, and tells a created file from an edited one by its size only.
* A record of an authoritative source without a cast still becomes the source of the cast, so that the cast of a
  lesser source is not merged until the repair at the next start (`db/repository.py:1849`). A late identify answer
  brings an ignored asset back, or moves an accepted one to another work (`AssetStates` excludes assets that
  changed under such a request).
* The source of a cast is a column of its own, and the cast does not always come with it. A refresh that holds an
  older copy of a work writes back the source it merged (`db/repository.py:1849`), after which a record of lower
  priority than the cast may replace the cast; and where a source without a priority overwrites one with a priority, a
  third of any priority may follow in the same request. `CuratedKept` therefore compares priorities only while the recorded source
  is no better than the cast, and where every source that names a cast has a priority.
* The response cache drops nothing from Redis once the connection was lost, and finds the old entries again after a
  restart. Edits of works do not drop the cards of collections, whose counts may be a week old.
* A later, shorter Retry-After replaces a longer one (`providers/base.py:403`); a forced rescrape is charged even if
  all its sources cool down.

## 5. Proofs

Each theorem holds for every value of the constants that meets the assumptions of its module, and under every timing its
module has; a timing in which the code loses what it promises is an exception the property states (section 4), and not a
hypothesis. (One theorem, about the response cache, fixes the constant `CommitFirst` to the order the code has.) Where several properties need one invariant, it is built in layers,
each inductive relative to those before, so that a proof looks at one aspect at a time; TLC checked every layer on a
small instance before it was proved.

### OfflineRecovery_proofs

For any number of magnets, rows, clients, attempts, requests and restarts, with lost replies and calls that overlap:

* `TypeCorrect`: `Spec => []TypeOK`;
* `CheckpointsConsistent`: `Spec => []CheckpointConsistent`: the hash of a row is the last
  magnet tried and the queued next one is untried.

`CheckpointConsistent` is not inductive: a continuation writes a row from what its call
carries, so it must be known that a suspended call names an existing row and a real
magnet, and that the poll wave handles rows that exist. The inductive invariant is

    IInv == TypeOK /\ CallsWellFormed /\ CheckpointConsistent /\ WaveCreated

The argument: every checkpoint transition (`SeedRecovery`, `BeginCancel`, `QueueSwitch`,
`AfterSubmit`, ...) keeps a row "sound" (lemmas `SeedSound` to `SwitchSound`); rewriting one
row by a sound one and one call by a well-formed one keeps `IInv` (`RowWritten`,
`CallWritten`); each group of actions is of that shape (`RequestsKeep`, `AnswersKeep`,
`ResumesKeep`, `PollKeeps`, `ApplyKeeps`, `OutsideKeeps`). `CheckpointConsistent` holds of overtaken rows as well.
The assumptions used are that `NoHash` is no magnet, that `Poller` is no client
and that the bounds are naturals.

Of rows that are not overtaken:

* `TriesAreBounded`: `Spec => []AttemptsCapped`;
* `CancelRemoves`: `Spec => []CancelledIsRemoved`;
* `NoStrayDownload`: `Spec => []DownloadsAccounted`;
* `CancelIsKept`: `Spec => CancelSticks`;
* `ReplacementWaits`: `Spec => PredecessorRemoved`.

    Settled == IInv /\ CallsCurrent /\ Waves /\ RowsSteady /\ RowsCapped /\ Kept

`CallsCurrent`: a suspended call that is not behind carries what its row holds, so that what it writes fits. `Waves`: the poll
wave applies its listing to running rows, and completes rows that still run unless it is behind. `RowsSteady` says for
each status and action whether there is a queued magnet, `RowsCapped` bounds the attempts of the rows that are not
overtaken. `Kept`: what the service has is held by a row or is `unrecorded`. A session that writes a row puts all
others that have it in hand behind (`WriteSettles`), so that only the row itself has to be looked at; what it may make of the row is described
once, and the properties are read off from that.

### LibraryScan_proofs

For any number of tasks, files, failures and restarts and with cancels at any moment:

* `TypeCorrect`: `Spec => []TypeOK`;
* `OneWorkerOnly`: `Spec => []OneWorker`;
* `NoFileTwice`: `Spec => []NothingScannedTwice`;
* `SuccessIsFull`: `Spec => SuccessIsComplete`.

The inductive invariant of the first three is

    IInv == TypeOK /\ ThreadsFine /\ OneActive /\ CancelExists

`OneActive` (two unfinished tasks are the same) is what admission in one transaction
gives; `Fine(t)` says that a task with a thread is unfinished, that the items of a task are
among those its thread has loaded or has itself passed, and that the file at hand is
none of them; `CancelExists` that a request under way names a task that exists, which
is what keeps its late write from inventing one. Each action either moves one thread
(`ThreadMoved`, `MoveKeeps`), ends a task (`Ended`) or admits one (`Admitted`); that
progress written from a stale copy neither finishes nor revives a task is
`ProgressFits`. That the next number is unused (`NewestUnused`) rests on the
well-foundedness of the naturals, a fact of the library.

`SuccessIsFull` adds `Complete`: every committed item is of a file that is up to date or has changed since the scan came to
it, and a thread without errors has each file before it, in its hands or in that state. The files a retry takes over
from the run it continues are why `Complete` speaks of the items of all tasks.

* `CodesAreKept`: `Spec => []CodesKept`. A thread knows the codes its task has committed (`ThreadKnows`); a task that ends as one that
  no retry accepts has handed them over, but for one whose end a cancel wrote over.
* `CancelIsHeard`: `Spec => CancelHeard`. `Stopping` says of every task that its thread holds a copy with the status "queued" only before
  its first progress (`FreshCopy`), and that an answered cancel stands in the row or went unheard (`Heeded`). `ScanCancelLost` shows
  how it does.

### Other modules

`ObsoleteExports_proofs` proves, for any number of codes and restarts and whatever is marked, scanned and exported
during a drain: `TypeCorrect`, `OwedIsSaved` (`Spec => [](owed \subseteq saved)`: a mark no drain has dealt with or discarded is on disk) and
the refinement `QueueImplemented` (`Spec => ImplementsQueue`). The inductive invariant is

    IInv == TypeOK /\ SavedIsQueue /\ DrainAccounts /\ KeptAreQueued /\ OwedIsQueued

The file holds the queue; each code a drain has taken over and not settled is still to be checked, at hand or kept; what is kept is
in the queue; and so is what is owed. The abstract queue of `DurableQueue` is the state file; the lemmas show that the initial
states map to one of `DurableQueue` and that every step is a step of it or leaves its variables alone. The discarded
marks of `CleanupLostMark` are what it calls given up.

`BackgroundServices_proofs` is about the two services that resume from a checkpoint.

For `SubtitleBackfill` it proves, for any number of directories, runs and mishaps: `TypeCorrect`, `OneThread`
(`[]OneBackfill`), `CursorStaysHonest` (`[]CursorHonest`) and `StopIsKept` (`StopSticks`). The inductive invariant is

    IInv == TypeOK /\ OneBackfill /\ DownIsQuiet /\ LocalsSound /\ WalkHonest /\ CursorHonest /\ HaltedIsStopping

`WalkHonest` carries what the cursor promises into the locals of the thread (which has not saved it yet), and
`HaltedIsStopping` says that nobody cleared the stop event under a thread that walks.

For `SubscriptionWatch` it proves, for any number of works and events: `WatchTypeCorrect`, `OneRowOnly`, `DrainsOnce` and
`NothingRunningIsCleared`. The database has no constraint for the first; it rests on the look for a row and its
insertion being one transaction (`CallsSound`). The lock of a magnet gives `OneHolder`, from which what is about to be
cleared is history (`StaleIsHistory`); `DrainSound` relates the works at hand, looked at and excluded.

`PanSession_proofs` proves, for any number of accounts, callers, tokens, resolves and restarts and whatever comes
between the steps of a login, an import or a disconnect: `TypeCorrect`, `DisconnectIsFinal` (`[]DisconnectSticks`),
`NewerLoginIsKept` (`NewerLoginWins`), `RefreshesAreSingle` (`[]NotSelfRejected`), `LoginIsKept` (`[]LoginKept`) and
`LinksAreOwn` (`[]LinksMatch`). The layers:

    Typed    == Shape /\ RelayOK
    Standing == Shape /\ Sync /\ Keep
    Owned    == Shape /\ Issued /\ Sync /\ Own

`Shape` gives the types and which fields are set in which step, and that one refresh is in flight. `Sync`: while nothing crosses a thread that is half done,
the client and the file move together. `Keep`: a token that client, file, login or thread hold is good at 115, `dead`, or
being rotated by the refresh in flight. `Issued`: no token in use is newer than the last one minted. `Own`: whose login each token is,
and that a read of the relay that has not strayed either goes on under the account of its key or ends under
another fingerprint.

`Organize_proofs` proves, for any assets, works, changes and failures: `TypeCorrect`, `UsersFilesSurvive`
(`[]UserFilesKept`) and `UndoRestores` (`[]RoundTrip`). For the second, a user's file at a place he did not race to survives
each step: a move goes to a place that was free at the look, and has stayed so or is `raced` (`ActShape`, in `Shape`); what else the run and the undo
write over is an NFO. `RoundTrip` needs

    Undoable == Shape /\ BeforeShape /\ (Untouched => Right)

where `Right` says, as long as nobody touched a file and the undo met no error, that disk, rows and source directory are what the
entries that *stand* make of the disk of before, but for the NFOs in `unsaved` and the partial files; an entry stands from
when the run appends it until the undo has dealt with it. A failed item leaves its entries standing, an NFO shared by two files has two
entries of which only the earliest carries the text of before (`Earliest`), and undoing the last standing entry takes back
exactly its change. So nothing stands after a whole undo, and all is as before.

`MetadataSources_proofs` is about the modules that deal with outside sources and with the records they give.

For `R18Dump` it proves `DumpTypeCorrect` and `NothingSpliced` for any number of versions, URLs, retries and faults, with crashes
anywhere. `MetaSound` is the heart: a sidecar speaks the truth about its partial file, or of a version that is not
served any more, so that a resume under it is refused, or a crash came before the truncation (`cut`).

For `ProviderRegistry` it proves `TypeCorrect` (with the count of the slots: the free ones and the running calls are as
many as there are), `BudgetIsKept` for any number of days and restarts, and `WaitsAreHonoured` (`WaitsKept`) for any number of overlapping searches.
`BudgetInv` says of the counts in memory and of those on disk that they cover what was searched today: the file because it
is written before the search; a charge that failed to be written covers even more. `AskedInv` says that a wait is over,
covered by the cooldown, or that its source answered another call meanwhile.

For `Catalogue` it proves, for any files, records, codes, priorities, requests and operations:

* `CatalogueTypeCorrect`: `Works!Spec => []Works!TypeOK`;
* `FilesShownAsTheyAre`: `Works!Spec => []Works!AssetStates`;
* `CurationSurvives`: `Works!Spec => Works!CuratedKept`.

The inductive invariant `CatalogueInv` says of the works that an identity leads to a work that exists and that the
cast of a provider is that of one of the work's snapshots (`Sound`), and the same of the copies that requests hold
across their awaits; of a file that the state fits its work (`AssetsFit`), unless a request overtook it; and of candidates and requests that they name files and works
that exist. Each way a record reaches a work (creation, merge, local name, edit, repair)
is one lemma on a single row (`Continues`, `Keeps`: locks hold, snapshots grow, a cast is not emptied nor made worse); a batch of records
and the refresh of a work are loops over such rows, whose results follow by induction on the position (`JoinedRuns`,
`RefreshRuns`). The proof made two hypotheses of `CuratedKept` explicit that the runs had met by chance (section 4).

### OrderedStores_proofs

The queue of the notifier and the table of the cache are Python dicts: the order of their entries decides what is evicted. For any paths,
queue limit, chunk size, changes, failures and restarts, with producers on the loop or on threads:

* `NotifierTypeCorrect`: `Spec => []TypeOK`;
* `EmbyKnows`: `Spec => []EmbyInSync`;
* `NotifierIsDurable`: `Spec => ImplementsQueue`, the refinement of `DurableQueue`.

    Durable == Shape /\ Counted /\ Matched /\ Told
    Synced == Durable /\ Tells /\ EmbyInSync

`Counted` relates the revisions of entries and the counts of changes; `Matched` says that an entry of the batch whose revision is still the
queue's stands for all changes of its path; `Told` that what Emby took of a batch counts as told. `Tells` is what makes `EmbyInSync` inductive: an entry
that must tell of a creation or deletion has the kind the path has now, a path without such an entry is shown as it is, and the same
of what is in the batch. The argument speaks of the set of entries, not of their order: whatever an action filters out of
the queue, it *loses* a set of entries (`Loses`), and each action is told by which ones it loses (those accepted and unchanged,
those switched off, those over the limit); `Enters` is the upsert. For the refinement, `StepRefines` shows which
step of the abstract queue each of these is.

For `ResponseCache`, for any keys, kinds of rows, sizes, times to live, readers, edits, failures and restarts:

* `CacheTypeCorrect`: `Cache!Spec => []Cache!TypeOK`;
* `StaleAnswersExcused`: `Cache!Spec => []Cache!StaleIsExcused`, from `CommitFirst = FALSE`, which is the code's order.

`Timely` says of every entry, and of every answer a request has computed and not stored, that it expires at most a time to live and one
computation after the change it does not show. `Marked` says that an entry that is old, or that was computed while an
edit of its kind is between its drop and its commit, has a reason recorded. `Updates(N)` is all that any operation makes of the two
stores (entries removed, and at most those in `N` added), which covers both backends and the failure of Redis in the middle.

### How recursion is reasoned about

A loop of the code is a recursive function on `0..n` in the model (`Kept` in `Subsequences`; `joined` and `refreshed` in `Catalogue`). That
such a function exists and meets its recursion at each argument is shown by `KeptExists` and `StepsExist`: the set of lengths for which it
does not has no least element (`LeastElement`, from the well-foundedness of the naturals). Facts about its values (`KeptPicks`,
`JoinedRuns`, `RefreshRuns`) are shown in the same way.

### What is stated where

The theorems about `SubscriptionWatch`, `Organize`, `ProviderRegistry`, `R18Dump`, `Catalogue`, `EmbyNotify` and `ResponseCache` are about the definitions
that the runs check under the same or a similar name through an instance (`DrainOnce == Watch!DrainOnce`, `RoundTrip == Org!RoundTrip`,
`NotifierImplementsQueue == Notify!ImplementsQueue` and so on); `OneRow` has a proof only. Every invariant and every action
property that a passing run checks has a theorem.

### What is only model-checked

* All liveness (`ObsoleteRemoved`, `LookupCatchesUp`, `BackfillEnds`, `FollowedIsSubmitted`, `ScanEnds`, `RunningActionResolves`, `Announced`): fairness and
  `ENABLED` are outside the provers' reach.
* `EditsKept`, `LocksProtected` and the other properties whose violation a run shows: they do not hold of the code.
* The announcement of every change (`Announced`) is checked with producers on the loop; section 4 says what a producer
  on a thread changes.

## 6. What is left

1. Identify jobs on the rows of `LibraryScan`, and two QR logins at once in `PanSession`.
2. `Organize` with a crash in the middle of a run, once the code has something to recover from it.
