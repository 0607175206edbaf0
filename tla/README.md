# TuneForge in TLA+

TuneForge is a local-first practice application: it imports recordings, analyses
them (beats, chords, lyrics, stems), plays them back, and keeps the libraries of
several devices in step. This directory holds TLA+ models of the parts of it in
which threads, processes, callbacks and devices meet, the TLC configurations that
check them on small instances, and proofs for TLAPS.

Paths below are relative to the repository. "Line" always means a line of the
source file named with it; `PROJECT.json` maps each definition to its lines.

## 1. The system

### Components, their state and their operations

| Component | Where | State | Operations | In TLA+ |
|---|---|---|---|---|
| Desktop job runner | `apps/backend/app/services/jobs.py`, `main.py` | table `jobs`; in-memory queue, one worker thread, registered child processes | create (single, import, bulk, conversion batch), cancel, execute, stop, recover | `JobRunner`, `JobExecution` |
| Android processing queue | `src-tauri/src/mobile_backend/processing_queue.rs`, `audio.rs`, `lyrics.rs`, `storage.rs` | table `jobs`, saved results with a revision; FIFO with generations, active task, cancellation tokens | submit, drain, watch, publish, cancel, delete project, open | `MobileProcessing` |
| Android processing service | `ProcessingService.kt`, `MainActivity.kt` | companion fields, latch, wake lock, foreground state | `request` 0..4, `onStartCommand`, `onTimeout`, `onDestroy` | `ProcessingService`, `Protection` |
| Android power inhibition service | `PowerInhibitionService.kt`, `MainActivity.kt` | desired and confirmed masks of reasons, revisions, instance, wake lock, screen flag | `request`, service callbacks, activity attach and detach, screen posts | `PowerService` |
| Sync of result revisions | `services/sync_revisions.py`, `sync_manifest.py`, `sync_reconciliation*.py` | revisions with base, state, time and author; the result row | record, export, plan, apply | `ResultRevisions` (chords) |
| Reconciliation of projects, artifacts, tombstones | the same and `sync_tombstones.py` | rows, tombstones | delete, re-import, plan, apply | planned |
| Audio conversion and project storage | `jobs.py` (`_convert_artifact_audio`), `project_storage.py`, `artifacts.py`, the hooks of `db.py` | artifact rows, files on disk, per-session cleanup plans | convert in place, delete an artifact, clean files up on commit | `ProjectStorage` |
| Projects | `services/projects.py` | project rows, copied source file | import, update, delete | deletion, as it meets jobs |
| Processing services and engines | `services/*.py`, `engines/*.py` | none that outlives a call | compute a result | only as handlers that end |
| Sync identity, trust, bundles, staging | `services/sync_*.py` | keys, trust decisions, staged files | pair, sign, pack, unpack | no |
| Sync transport | `src-tauri/src/sync_transport.rs` | runs and their tokens, power leases, the scheduler's book, the credit window, streams, the backend write lane, staged content | run as either role, request, receive, stage, apply, interrupt, time out, exit | `SyncTransport` over `ArtifactBatch` |
| Power inhibition, native and web view | `power_inhibition.rs`, `lib/powerInhibition.ts` | owners per reason, status; operation sequence | acquire, release, poll | planned |
| Mobile storage, export, reconciliation | `mobile_backend/*.rs` | SQLite, staging directories | the backend's operations | what the queue touches |
| Native audio | `native_audio/*.rs` | playback and capture sessions, real-time buffers | play, seek, mix, record | no |
| Front end | `apps/desktop/src` | query caches, playback state | screens, job lifecycle | no |
| Music core, shared types, site, packaging, tools | `packages`, `apps/site`, `scripts`, `cli`, `benchmarks` | none | pure functions, build steps | no |

### How they interact

* The front end calls the backend over HTTP on a desktop, and Tauri commands on
  Android. Both store jobs in SQLite; the desktop executes them on one worker
  thread, Android on the drain thread of its queue.
* The Android queue owns the processing service: it starts it before the first
  task, turns its wake lock on and off around each task, and watches its health.
  The contract between them is the trait `Protection`; here it is a module of
  its own, used by both sides.
* The power inhibition service serves playback and sync and is independent of the
  processing service, but lives under the same system rules (a record, a
  main-thread mailbox, objects that are created and destroyed late).
* A device syncs by exporting a manifest, which the peer turns into a plan and
  applies action by action. Local edits, exports and jobs go on meanwhile.
* A run of the sync transport takes a power lease from the native manager, receives
  artifacts on several streams at once and hands them to one thread that calls
  the backend, which stages and applies them; suspends, network losses, the user
  and the platform's time limit end it from outside.
* Any commit of the desktop backend may clean up a project's files on its way.
* Deleting a project removes the rows of its jobs while they may wait or execute,
  on both platforms.

### What is hard

* A row is read in one statement and written back in another: cancellation, the
  worker and deletion overtake one another (`jobs.py`).
* Rows survive a crash, queues and threads do not (`jobs.py`, `storage.rs`).
* A thread of an earlier generation wakes up while the next one runs
  (`processing_queue.rs`).
* Android delivers starts, timeouts and destructions late and in its own order
  (`ProcessingService.kt`, `PowerInhibitionService.kt`).
* A plan is made from what was read and applied later, in commits of their own,
  between devices whose clocks are unrelated (`sync_reconciliation*.py`).

* Credit, streams, a bounded queue and the reports of a thread wait for one
  another; each may fail at any point, and every project needs one result
  (`sync_transport.rs`).
* What a commit is about to own is listed before it and used after it
  (`project_storage.py`).

`PROJECT.json` lists these as hazards, each at its line, with the properties
that would notice it going wrong. Three of them belong to parts that are not
modelled yet: tombstones, and two races of the web view.

### What makes the parts correct

* Jobs: no job is forgotten, run twice, or left running; a finished job stays
  finished; a cancel takes effect; the jobs of an import run in order; two
  conversion batches are never active together.
* Mobile queue: one active job per target, the service is held while and only
  while it is needed, one task executes, an older job never overwrites newer work.
* Services: nothing is left behind (wake lock, notification, object), no request
  is lost, a failure does not hit a newer request.
* Sync run: a project is reported once at most, and every one by a run that comes to its end; what is applied was staged; received
  files stay within the space they were granted; no lease outlives the transport or
  misses its time limit; the import comes to an end.
* Storage: the file that a row names is there.
* Revisions: what a device shows is its current revision, gives way to a newer
  one only, and devices that exchanged everything agree.

## 2. Modules

```
JobExecution <--implements-- JobRunner <--MCJobRunner (instances for TLC)
                                 ^--- JobRunner_proofs <--- JobRunnerOrder_proofs
Protection  <--implements-- ProcessingService <-- ProcessingService_proofs
     ^--used by-- MobileProcessing <--MCMobileProcessing
                         ^--- MobileProcessing_proofs
Lists <-- ArtifactBatch (one import) <-- SyncTransport (the run) <-- MCSyncTransport
                                               ^--- SyncTransport_proofs
PowerService     <-- PowerService_proofs
ResultRevisions  <-- ResultRevisions_proofs
ProjectStorage
```

`ListLemmas` has the facts about lists that the proofs share: what append, tail,
concatenation and splitting do to the members of a list, to their being distinct
and to their order, and what a fold and a filter return. The last two are about
`Lists`, which defines them as recursive functions for that purpose.

Each module that TLC runs has the form of state, actions in the order of the
code, `Next`, fairness, properties. An operator under a comment "Bug:" is a
plausible mistake in the definition after it; it is not part of the
specification, and `PROJECT.json` says which property notices it.

### JobRunner

One step is one database read, one commit, or one operation on the queue, of one
thread: request threads (`rpc`), cancel threads (`cpc`), the worker (`wpc`).

| Model | Code |
|---|---|
| `status`, `cancelRequested`, `createdAt` | columns of `Job`; "none" before the row, "deleted" after it |
| `queue`, `Poison` | `_queue` and the `None` of `stop()` |
| `RequestArrives`, `CheckBatch`, `CheckGroup`, `CommitGroup`, `Refresh`, `Enqueue` | `create_project_activity_job(s)`, `create_bulk_activity_jobs`, with `_CONVERSION_BATCH_CREATION_LOCK` |
| `Abort` | an error that is no `AppError` ends the request between its commits: the jobs committed before are not enqueued |
| `CancelRead`, `CancelWrite`, `CancelTerminate` | `cancel()` and `_terminate_registered_process` |
| `WorkerLoop` .. `WorkerUpdate` | `_worker`, `_execute_job`, `update_job` |
| `HandleDirect`, `HandleSpawn`, `HandleRegister`, `HandlePoll`, `HandleAfter` | a handler without a child process, or `run_ffmpeg_transform`: create, register, poll every so often, look at the outcome |
| `ReportRaises`, `IsCancelRequested` | a progress report raises, and the handler ends, with its process killed or left behind; `is_cancel_requested`, which says no of a deleted row |
| `Stop`, `GoDown`, `RecoverRunning`, `Start` | the lifespan of `main.py`, a crash, the two recoveries |
| `DeleteProject` | `projects.delete_project`, whose cascade takes the jobs |

A request's work is data: `Plan[r]` is its list of commits, each a list of jobs.
The worker thread ends for ever (`wpc = "dead"`) where the code raises outside a
`try`: a row deleted between the worker's read and its update. `JobsEnd` and
`CancelTakesEffect` name that exception. `Stranded` jobs are those of a request that
was aborted after it had committed them: they are pending and nobody has them until
the next start. `PendingAccounted` and `JobsEnd` except them by that name.

`JobExecution` is what the runner promises about handlers: they run for accepted
jobs, one at a time, each job at most once. `AtMostOnce` says that `JobRunner`
implements it, with `started <- ran` and `executing` from the worker's program
counter.

### MobileProcessing, Protection, ProcessingService

`MobileProcessing` has a submission per job (`spc`) under `PROCESSING_ADMISSION`,
the queue's `State` (`waiting`, `active`, `running`, `failed`, `generation`), and a
drain and a watch thread per generation (`dpc`, `watching`). A step is a critical
section of the queue's mutex, or one statement or transaction of the database.
The mutex is held while `start()` waits, so `EnqueueStart` and `EnqueueStarted`
enclose the wait. Native work is `Work`: it succeeds, fails, notices its token or
the row, or never ends. `Publish` is the transaction that compares the result's
revision with that of submission. `FailRows` is the fail closure: it opens the
database first, and gives up silently if it cannot; such jobs are in `unreported`.
`EndRows` is an end that the work writes itself: failed, or cancelled although nobody
asked for it, which is how the beat tracking takes a row that it cannot read.

`Protection` is the trait: start, acknowledge, fail, hold the CPU, stop.
`MobileProcessing` takes steps of it by `INSTANCE`, and `ProcessingService`
implements it: a service object is created, told of its start, timed out and
destroyed by a main thread that may be late (`mailbox`, `record`), while the queue's
thread calls `request`. The synchronized blocks of the companion are the steps.

### PowerService

The native thread's `request` is three steps (`RequestBegin`, `RequestRead`,
`RequestAct`), because it reads `instance` without a lock and acts on it later.
On the main thread, `ApplyRead`/`ApplyWrite`, `OnDestroy`/`Relaunch` and
`Show`/`ConfirmScreenProtection` are pairs for the same reason. An activity may be
attached in place of another. A mask of reasons
is a set. The notification permission and the reposting of the notification are
left out, as are the texts of `status()`.

`Settles` says what the service protects once nothing is under way. It has an
exception that the first attempt to prove it showed and no run with three requests
reached: a request that has read the instance before its destruction makes the
destroyed object apply, and when nothing is wanted by then, the older reasons of
that object stay in `confirmed`. This takes a fourth request; it is the same window as
that of finding 2.

### ResultRevisions

The chords of one project on several desktops. A revision is named by its time
and author, which is also its last-writer-wins key: its `updated_at` is never
changed, and a device does not write twice at one time. `revision` holds what is
the same everywhere, its content and its `Line`: the set of the revision itself, its
base, the base of that, and so on. `state` and `row` are what differs per device.

| Model | Code |
|---|---|
| `Write` | `_record_entity_revision`: superseding the current revision, new one on top |
| `Settle`, `RowOf` | `_hydrate_current_entity_revisions` |
| `ExportLook`, `ExportSelect`, `ExportWrite`, `ExportList` | `export_project_manifest` after `materialize_result_revisions`: the reads are selects in autocommit; the flush writes what they found, with a new read of the row in between that changes nothing; then the revisions are listed, in the same transaction if there was something to write |
| `Wanted` | which embedded current revision is missing or replaces the local one |
| `Plan`, `Chain`, `Gap`, `Actions` | planning the chain of the wanted revision, down as far as the manifest has its bases; `_divergent_local_revision` is `Rivals`, and a refused revision takes with it all that builds on it |
| `ImportNext` | one action of `apply_sync_reconciliation`; `BasesApplied` is the order of the plan, base first (`_sorted_remote_entity_revisions`) |
| `ImportFails` | an action that fails in its savepoint: it is marked, and the loop goes on with the next one; `failed` has the revisions of such actions |
| `Crash` | the backend ends between two actions |

Planning reads without a lock, and the savepoint of each action is released
outside a transaction, which makes SQLite commit it. So writes, exports and a
crash fall between the plan and its actions, and between the actions. A commit by
somebody else between an action's first read and its write is enough to make it fail.
No foreign key is enforced, so a revision whose base failed is still inserted.

A device does not always show its current revision: an export that was overtaken
by a write or an import between its reads and its flush puts the older content into
the row, or deletes it. `RowFollowsCurrent` says that no other step does that, and that
the next step on the device's revisions, or an export that was not overtaken, mends it.

Assumed: every device has imported the project; revisions are not deleted (only
the deletion of the project does that); a device's own clock runs forward
(`ClockMayRead`), while clocks of different devices are unrelated. Left out are the
first export of a row that has no revision yet, the edit of a tab, which reads the row
some time before it writes, and an export that fails because the row it would update
was deleted. With a clock
that is set back, or with a third device, a refused successor can leave a device
without a current revision; that case is not in a run.

### ArtifactBatch, SyncTransport

`ArtifactBatch` is the import of one run on the device that asks for artifacts, and
the peer that streams them. Its state is five records named for the code's
objects.

| Model | Code |
|---|---|
| `token` | `RunCancellationToken`: the flag and the reason, which are two stores |
| `book` | `IrohScheduledRemoteProject`: what each project still waits for |
| `window` | `IrohBatchCreditWindow`: requests waiting, granted, in flight, their bytes |
| `stream` | the receive threads and what they hand over |
| `lane` | `RemoteApplyWorker`: the bounded queue, the task in work, the reports, the results |
| `staged` | which artifact refers to the staged content, as `cleanup_staged_artifacts` counts it |
| `Plan`, `DiscoverOne`, `RequestBatch`, `GrantCredit`, `AcceptStream`, `HandleReceived`, `HandleFailed`, `TakeReports`, `ReadEnd`, `CloseBatch`, `EndBatch` | the session thread, from the manifest to the end of the pipeline |
| `LaneTake`, `LaneCollect`, `LaneDone`, `LaneStage`, `LaneApply`, `LaneReport` | the write thread: it takes a task, and more of those that apply a project as they come; it stages a file, or applies the projects of its tasks |
| `ApplyTasks`, `Call`, `CallEach` | one call for all, and when it fails, calls for fewer, down to single projects |
| `CleanupContext` | the manifests that go with a call, so that the backend keeps staged content that another project waits for |
| `Reported`, `LeftBehind`, `FinishImport` | `finish`: joins the lane and gives the projects without a result one |

`DiscoverOne` queues a deletion only if the plan names it, too (`named`). A stream whose
header cannot be read ("unread") breaks the batch, any other failure of a stream is that
of its artifact. `FinishImport(reporting)` keeps the results only of a run that came to its
end: a run that fails or is interrupted waits for the lane and drops them.

What the import takes for granted has a name. `OffersAreDistinct`: a manifest
lists a project, or its deletion, once. `RequestsAreOfProjects`: an artifact is of an
offered project, and sizes and the references left by earlier imports are of what is
listed. `CapsArePositive` and `BoundsAreNatural`: streams, queue and calls have
room for one. `Starts` has what is given when a run begins: its role, the sizes of the
artifacts, and what earlier imports left staged.

`SyncTransport` extends it with the run around the import: registration, the power
lease in the native manager and its reading of the timeout epoch, the watcher, the
phases of either role up to `Serve` and `Finish`, `LifecycleEvent` as the snapshot,
the interruption of each token and the abort of each connection, the platform's time
limit and `Exit`. It names a phase as the code does a stage of the run.

The code has four streams, a budget of 4 GiB, a queue of eight tasks and calls of at
most 24 projects (`sync_transport.rs:1662-1682`); these are `StreamCap`, `ByteBudget`,
`QueueCap` and `ApplyMax`. Sizes come in multiples of a unit; an artifact larger than the budget can never be
granted and breaks the batch, as in the code. Everything that may go wrong (a call, a stream, the peer, the
lane's thread, the network, an interruption, the time limit) counts as a
disturbance, of which a run has `MaxFaults`.

### ProjectStorage

One conversion of one project beside request sessions. A session is where it is, its
uncommitted rows (`draft`), its plan (`owned`) and its listing of the directory
(`found`). `Write` is the write lock of SQLite; reads and file operations need none,
which is what the module is about. `Commits` has `before_commit`, the commit and the
decision to clean up in one step, since the lock is held throughout; `List`,
`Unlink` and `Drained` are the cleanup after it. `Check` to `Finally` follow
`_convert_artifact_audio`.

## 3. What the runs check

All runs keep every interleaving; there are no state constraints, and every bound
is a guard of the action that it bounds. "Holds" lists distinct states.

| Run | Instance | Shows |
|---|---|---|
| `job_import` | import of two jobs (the first with a child process), one cancel, one deletion, two crashes; 36 000 | `RunningOwned`, `CancelledNotPending`, `StartOrder`, `TerminalStable`, `AtMostOnce`, `CancelTakesEffect`, `JobsEnd` |
| `job_conversions` | two conversion batches with one and two commits over two projects, a cancel, a crash, errors that abort a batch; 3.3 million | `ConversionsDisjoint`, `PendingAccounted` |
| `job_cancel_race` | the import without crashes | finding 1 |
| `mobile_queue` | three jobs, two of one target, one cancel, one lost report, service failures; 2.3 million | `ServiceKept`, `CpuFollowsWork`, `OneDrain`, `JobsAccounted`, `TerminalStable` |
| `mobile_life` | two jobs of one target, an edit, a cancel, a death of the process; 260 000 | `OneActivePerTarget`, `NewerWorkKept`, `FailureSignalled`, `JobsEnd`: what an edit or a restart could break |
| `service` | up to four starts, eight generations; 5 900 | `NothingLeftBehind`, `ImplementsProtection`, `ObjectsEnd` |
| `power_service` | four requests of two sets of reasons, two objects, two activities; 6.2 million | `Settles`, `ScreenFollows`, `NewerRequestKept` |
| `power_leak` | three requests of four sets of reasons | finding 2 |
| `revisions` | two desktops, three writes of two contents, one crash or failing action; 1.1 million | `RowFollowsCurrent`, `BasesKnown`, `KeepsCurrent`, `StaleReplayLoses` |
| `revisions_chain` | the same, and nothing fails | finding 3 |
| `sync_run` | one run of either role with two projects of three artifacts, two of which have one content, and a deletion that the plan may not name; two streams, room for two units, a queue for one task, calls of up to two, any two disturbances; 1.0 million | `AppliedIsStaged`, `ScratchBounded`, `OneResultEach`, `NoLeaseOutlives`, `TimeoutNoticed`, `Completes` |
| `storage_race` | two artifacts, a conversion of either, one request session, nothing fails | finding 4 |

Why the bounds are enough to be of interest:

* Two jobs of one request are what order needs, and the second waits while the
  first executes. Two crashes put one inside the recovery of the other. One
  cancel meets every step of the worker and of the request. Two cancels of one job
  are covered by the theorems about the runner, not by this run.
* `job_conversions` has the three shapes of overlap: before the lock, between the
  commits of one batch, and after a worker has taken a job of the first. It is also the run
  in which a batch is aborted between its commits, which an import, with its one
  commit, cannot be.
* Three mobile jobs make one active, one waiting and one being submitted at the
  same time; each generation needs a job, so up to three generations follow each
  other, of which one watches late. The report that the database refuses is in
  `mobile_queue`; in `mobile_life` none is lost, since there the end of the process takes
  its part.
* `MaxStarts = 4` lets an object be replaced while its destruction, its timeout and
  its successor's start are all under way.
* Four requests and two objects are a request before, during and after an
  object's end, and one that finds what the others left. The two sets want the screen
  only, which is nothing for the service, or everything: screen, service, wake lock, and
  a transfer that can time out and leave the playback without the lock; a failure leaves
  nothing. `power_leak` has the other classes that the masks tell apart, service only and
  the empty set, with three requests, and the theorems are about any sets.
* Three writes on two devices allow a chain of three, and a chain of two against a rival;
  three times allow every order of them, with ties between devices. The theorems are
  about any number of writes.
* Three artifacts and two streams leave one to be granted later, so that credit, the
  lane's queue and the reports wait for one another; the shared content makes the
  cleanup of one project matter to the other. There are
  four starts: every artifact fits, one of them only alone, or that one never does; the
  shared content is staged already or not; and the run is of either role. The import is
  the same in both, they differ in the phases around it. Two disturbances are a
  failure within the handling of another; with one the properties about a dead lane
  and an interruption could not meet.

`CHECK_DEADLOCK FALSE` is set where the system may come to rest: all requests made
and answered. In `sync_run` a run also rests when its lane has died after the
peer ended the batch: its loop turns without a change of state (see below).
`service` is checked for deadlock: the activity can always be shown
or hidden.

### Fairness

* `JobRunner`: request, cancel and worker threads run when they can (the operating
  system schedules them and no lock is held for ever), and a server that is down
  is started. A request need not arrive, a child process need not end. `JobsEnd`
  adds that it does, as its own premise; `CancelTakesEffect` needs it not,
  because the polling loop ends the process. An aborted request needs no fairness: it is
  what may happen, not what must.
* `MobileProcessing`: submissions, cancel signals, drain and watch threads; and
  that a start is answered, which `request` guarantees by its ten seconds.
  Native work need not end; `JobsEnd` takes it as its premise,
  `FailureSignalled` does not.
* `ProcessingService`: the main thread delivers starts and destructions.
* `SyncTransport`: one weak fairness on the steps that are no disturbance. They belong
  to a handful of threads and the peer, none of which waits for ever for a thing
  that only a disturbance brings, and they cannot go round in circles, so that
  fairness on each of them would say the same. `Completes` has a live lane as its
  premise.
* `PowerService`, `ResultRevisions` and `ProjectStorage` state safety only, and assume
  none.

### Findings

1. `job_cancel_race`: `cancel()` (`jobs.py:793`) decides on the status it read. If
   the worker commits running and calls the handler between the read and the write,
   the row says cancelled while the handler executes, and may say completed in the
   end. The test `test_cancelled_pending_job_does_not_execute` states that a
   cancelled pending job does not execute. `TerminalStable` excepts this race
   by name, and shows that it is the only one.
2. `power_leak`: `request` reads `instance` (`PowerInhibitionService.kt:322`), the
   main thread destroys it, and the posted `applyReasons` takes a wake lock on the
   destroyed object, which renews it. `docs/POWER_PROTECTION.md:23` says that
   shared protection releases after the final owner exits.
3. `revisions_chain`: a revision on the way to a wanted one is refused because a
   local sibling is newer, and the wanted one with it. Two devices stay different
   although `docs/ARCHITECTURE.md:231-233` says that imports select the higher
   revision.
4. `storage_race`: the plan of a cleanup is made before the commit
   (`project_storage.py:54`) and used after it. A conversion that takes the write
   lock in between and renames its output has it deleted, commits a row that names it,
   and then deletes the original in its own cleanup. The deletion of a stem or a
   practice mix is not refused during a conversion. The window between the commit
   and the reading of the directory is short; a project whose cleanup failed
   once is cleaned by every commit, which opens it more often.
   `test_project_storage.py:139` states that a cleanup keeps what a row names.

### Seen while modelling

The models have these behaviours of the code; no document promises otherwise.

* When an error other than an `AppError` aborts a bulk request (`jobs.py:381-386`: a
  commit that fails, the refresh of a job that was deleted meanwhile, a project that
  expired), the jobs it had committed stay pending without being enqueued until the next
  start. If they are conversions, further batches of conversions are refused until then.
* An export that a write overtakes leaves the older row, or none, under the newer current
  revision (`sync_manifest.py:1140-1209`). The manifest has the current revision.
* A failing import action leaves a revision without its base, or, when the base was
  superseded by the same plan and the successor failed, a device without a current
  revision; no crash is needed for that.
* A sync run that fails while it serves, after its import went well, reports no project
  results (`finish_staged_remote_import_for_failure`, `sync_transport.rs:7464-7471`).
* Sync transport: when the lane's thread dies while files are being staged and the peer
  has ended the batch, the loop of the pipeline has no stream, no credit and no
  report to wait for, and no watchdog.
* Between `cancelled` being raised and the reason being stored, the parts that ask for
  the flag skip projects while the run may still report success.
* A lifecycle event takes its list of connections before a run attaches its own, which
  is then not aborted; the role that answers does not look again.
* The comment at `sync_transport.rs:7140` speaks of one lane in order; the sequential
  path over TCP calls the backend on its own thread.
* When projects that share content are applied in separate calls, the reference of the
  first to the staged content stays until a later sync cleans it up.
* A cleanup by another session also deletes the temporary file of a conversion while it
  is being written, at any time during the encoding; the conversion then fails.
* A crash between the rename of a converted file and its commit leaves a file at the
  destination, and later conversions of the artifact are refused until a
  cleanup of the project removes it.

## 4. What is proved

### The desktop job runner

`JobRunner_proofs` proves, for every set of jobs, requests, cancels and projects,
every plan, and every number of crashes:

| Theorem | States |
|---|---|
| `TypeCorrect` | `Spec => []TypeOK` |
| `RunningIsOwned` | `Spec => []RunningOwned` |
| `CancelledIsNotPending` | `Spec => []CancelledNotPending` |
| `ExecutesAtMostOnce` | `Spec => AtMostOnce`: every step of the runner is a step of `JobExecution` or none of its business |

The assumptions are those that `JobRunner` names: the constants' types, that a
job is created in one place of one plan, that only bulk requests commit more than
once. TLC evaluates them in every run of the runner.

None of the four is inductive. That a handler is started once needs that the
worker takes a job whose handler was not started; that needs the queue to hold
only such jobs and each only once; that needs the lists of the requests to do
so and to be disjoint from the queue and from the worker's job; and that needs
the commits still to be made to be of jobs that do not exist. `IInv` is this
chain, read backwards:

* `PlanInv`: commits to be made (from `FirstLeft` on, of a request that is `Working`) are
  of jobs without a row;
* `CreatedInv`: a request's list has fresh jobs of its plan, each once, none of
  them in the queue or with the worker;
* `QueueInv`: the queue has fresh jobs, each once, and the poison only when the
  server stops;
* `WorkerInv`, `RanInv`: the worker's job exists, and is not pending once it has
  been written as running; a job that ran is neither new nor pending;
* `CancelInv`: a cancel that did not read pending can rely on it, as nothing
  becomes pending again;
* `DownInv`: a server that is down has no queue, no worker and no requests.

Each part has a lemma saying that a step keeps it, with a step of the proof per
action. `ListLemmas` has the facts about injective sequences under append, tail and
concatenation. Recovery needs no case of its own for jobs that had run: they are
running or finished when the server goes down, and recovery makes them failed.

`JobRunnerOrder_proofs` goes on from that invariant, from the same assumptions:

| Theorem | States |
|---|---|
| `NoJobForgotten` | `Spec => []PendingAccounted` |
| `StartsInOrder` | `Spec => []StartOrder` |
| `OneConversionAtATime` | `Spec => []ConversionsDisjoint` |
| `FinishedRowsStay` | `Spec => TerminalStable` |

`NoJobForgotten` is about every pending job but the `Stranded` ones, those of an aborted
request; that these exist is a behaviour of the code, and not an assumption.

`LifeInv` adds to `IInv` what a row can say while its job waits (`WaitInv`), and:

* `LockInv`: a conversion request holds the lock from its check to its end, and
  between its check and its last commit no other conversion has a live job. A row
  becomes active only by its creation, so that a worker which writes "running" over a
  cancelled row does not count: its cancel request stays. `FlagInv` says so.
* `OrderInv`, `CreatedAtInv`: a pending job is ahead of every later job of its plan,
  on the list of the request, in the queue, or in the worker's hands; and its time of
  creation is earlier, which is what the recovery sorts by. Before the restart and
  after it, the order is thus the same.

### The Android queue

`MobileProcessing_proofs` proves, for any number of jobs, targets, projects,
cancels, edits and deaths of the process:

| Theorem | States |
|---|---|
| `OneActive` | `Spec => []OneActivePerTarget` |
| `OneExecutor` | `Spec => []OneDrain` |
| `ServiceStays` | `Spec => []ServiceKept` |
| `ServiceForWork` | `Spec => []CpuFollowsWork` |
| `EndsAreFinal` | `Spec => TerminalStable` |
| `CompletesOnItsResult` | `Spec => NewerWorkKept` |
| `NoJobForgotten` | `Spec => []JobsAccounted` |
| `TypeCorrect` | `Spec => []TypeOK` |

from `MobileAssumption`: the constants' types, that there are finitely many jobs, and
that `NoJob` is no job. Two arguments meet in the invariant `IInv`:

* `AdmissionInv`: between the look for an active job and the end of a submission
  the admission is its own, so that no other one creates a row, and what it saw
  stays true. `RowStep` lists once and for all what a step can do to a row; only the
  creation makes one active, and it starts from no row, so ended rows stay ended.
* `QueueInv`: the mutex is held across a start only while no generation runs; so
  the generation that begins finds no drain thread, no active task and no CPU
  lock. A generation that has failed has let go of the service and runs on until
  its task is cleaned up, which keeps the next one out.

The last two theorems have an invariant of their own on top of it, `AllInv`.
`Accounts` follows the row of a job to its end: whatever drops a task (the failure
of a service, a native end, a token) has seen the row end or written its end, or the
database refused it (`Settled`); work is told to stop only then (`TokenInv`); and a
running row is that of a drain thread between the start and the end of a job
(`RunInv`). `GenerationInv` bounds the generations by the submissions that are done,
since each generation is begun by the end of one; there is so a thread for each.

### The Android service

`ProcessingService_proofs` proves, for any number of starts and requests
(`ServiceAssumption` says that the two bounds are numbers):

| Theorem | States |
|---|---|
| `TypeCorrect` | `Spec => []TypeOK` |
| `NothingIsLeftBehind` | `Spec => []NothingLeftBehind` |
| `ServiceImplementsProtection` | `Spec => ImplementsProtection` |

The invariant is about the order of what the main thread has yet to deliver.
Intents are in the mailbox in the order of their generations (`Ordered`), so an
intent that carries the current generation is the last one. When it brings an
object to the foreground there is none to come, and that object is the one the
system knows (`ReadyInv`); later messages are stops and ends, which the code
compares with the instance or the generation before it acts on them.

### The power service

`PowerService_proofs` proves, for any sets of reasons and any number of requests,
objects and activities (`PowerAssumption` says that the sets have reasons of the code,
and that the bounds are numbers):

| Theorem | States |
|---|---|
| `TypeCorrect` | `Spec => []TypeOK` |
| `LastRequestSettles` | `Spec => []Settles` |
| `WindowFollows` | `Spec => []ScreenFollows` |
| `StaleFailureIgnored` | `Spec => NewerRequestKept` |

The proof has three layers.

* The system's side, `ServiceInv`: its record names the youngest object; an object that
  the record names and that is not the instance has its creation and its start before
  it, and an instance that the record does not name has its destruction before it
  (`RecordInv`); and messages to an object are in the order of its life
  (`OrderInv`). A lemma, `StepKind`, sorts all steps into six kinds by what they do to the
  record and to the mailbox, so that these two are proved once per kind. What was posted
  to an object that was destroyed meanwhile finds an object that was created
  (`CreatedInv`), in the foreground no more (`ForegroundInv`).
* The service's side, `SettleInv`: while the desired reasons are those last asked for,
  either some step is owed that will read them (`Owed`: the caller's, a message to the
  recorded object, the destruction of another one, the method that the main thread is
  in) or they are applied (`Applied`). When nothing is under way nothing is owed.
  `AskedInv` and `NobodyInv` say what a failure and a late object leave behind.
* The window, `ScreenInv`: a post of the newest revision is under way to the attached
  activity, or has been shown and is to be confirmed, or is confirmed.

### Revisions of a result

`ResultRevisions_proofs` proves, for any number of devices, any contents, any clock
readings and bounds (`DevicesAndTimes`: both are ordered as numbers are;
`NoResultIsNoContent`; `FaultsAreCounted`):

| Theorem | States |
|---|---|
| `TypeCorrect` | `Spec => []TypeOK` |
| `ShowsCurrent` | `Spec => RowFollowsCurrent` |
| `BasesPresent` | `Spec => []BasesKnown` |
| `StaleReplayChangesNothing` | `Spec => StaleReplayLoses` |
| `CurrentIsKept` | `TwoDevices /\ Spec => []KeepsCurrent` |

The invariant is that everything that holds revisions is closed under bases: a device,
a manifest of whatever age, and a device together with what it plans to import, all but
for the revisions whose import failed there (`LineInv`, `DeviceInv`, `ManifestInv`, `TodoInv`,
`FailedInv`). A plan is closed because a refused base takes
with it what builds on it, and it stays so while its actions are applied base first,
or when a crash drops it as a whole. With `OneCurrent`, which is a part of the invariant, an
import finds at most one current revision and adds at most one; the newer of the two is
left (`WinnerOfTwo`), which is also why a stale replay changes nothing. `ExportInv` says
that what an export has read is one current revision at most, which the device still has,
as current or superseded. `RowFollowsCurrent` is then a statement about each kind of step
(`WriteFollows`, `ImportFollows`, `ExportFollows`). The actions of a
plan are a set with a rule about their order, since nothing but that rule matters.

`CurrentIsKept` is about two devices, for the reason given in section 2, and any number of
writes. It speaks of what holds until the first fault, so the parts of its invariant,
`CurrentInv`, that a fault can end are under `faults = 0` (`FaultFree`). It adds how the two
devices depend on each other:

* `NewestInv`: what a device has current is not older than anything the device wrote
  itself. A write is the newest of its author, and imports let the current revision give way
  to newer ones only. `SentInv` says the same of a manifest.
* `SeenInv`: what a device has of the other's revisions was in the last manifest; so,
  with `AuthorInv`, a revision that a device does not know was written by the other.
* `RunInv`: a device builds on a revision that the other does not know without a gap, one
  of its revisions after the other, since no import can take it back to there.

The plan is where it is decided (`NoneRefused`): if the plan supersedes what is current,
none of the revisions from there to the wanted one is refused, because a sibling that is
newer than one of them could neither be the device's own (`NewestInv`) nor the sender's
(`RunInv`). Thus the revision that replaces the current one is part of the plan, which
`KeepInv` carries through its actions, and which `TopInv` says comes last.

### A sync run and its import

`SyncTransport_proofs` proves, for any projects, tombstones, artifacts, owners and
contents, any sizes and references left from earlier imports, any caps and budget, and
any number of disturbances:

| Theorem | States |
|---|---|
| `LeaseEnds` | `Spec => []NoLeaseOutlives` |
| `WatcherSeesTimeout` | `Spec => []TimeoutNoticed` |
| `TypesHold` | `Spec => []TypeOK` |
| `ScratchStaysBounded` | `Spec => []ScratchBounded` |
| `EachHasOneResult` | `Spec => []OneResultEach` |
| `WhatIsAppliedIsStaged` | `Spec => []AppliedIsStaged` |

The assumptions are those that `ArtifactBatch` names, which TLC evaluates in `sync_run`.

The lease. `OtherSteps` says that whatever happens to the import leaves the variables of
the lease alone, and that the thread goes from one phase of the work to another or to its
end. `LeaseInv`: the lease is with the thread or in the table, not both, in the table no
longer than the run lasts and the table is open; and it is counted as long as it is in
either, unless the power state was cleared. `EpochInv`: the run read the epoch before
it acquired the lease, so that a timeout which hits the lease is a later one.

The import. The inductive invariant is `ImportInv`, with `ImportInductive` as
`Spec => []ImportInv`.

* `EarlyInv`, `UnqueuedInv`: before the batch there is no file and no work, and before
  it is closed the lane gets files only.
* `CreditInv`: what may still arrive has credit, and the files with credit together with
  those that wait to be staged fit the budget. `ScratchInv`: a file on disk is being
  received or waits to be staged, and when the batch is closed there is none. Both need
  `WorkInv` and `EventInv`: a file is staged once, and what the lane has reported is no
  longer on disk.
* `BookInv`, `JobsInv`, `ReportInv`, `IdleInv` follow a project to its result. It has one
  from planning, or it is in one place of the books; what the books have ready is
  enqueued, refused, or about to be, once; what was enqueued is in the lane or in its
  reports, unless the lane died. `finish` gives a result to exactly the rest. When the run
  is called off in the middle of this, projects may be lost from the books; so the parts
  that say that nothing is lost hold of a run that is not cancelled. `OneResultEach` has the
  same two halves: never more than one result, and one for every project and every
  deletion that the plan named when the run came to its end uninterrupted.
* `OffInv`: a batch that broke has called off the lane before it applies anything.
* `FetchedInv`: while files arrive, a project that was discovered needs nothing that is not
  staged, awaited or known to be lost. `OrderInv`: the tasks of the lane and of the session
  keep the order of the books. `WaitingInv`: a project that is still to be applied is not
  applied, and what it needs is staged.

The order is the point of `AppliedIsStaged`. A call to the backend deletes staged content
that no manifest in its cleanup context waits for. The context of a project is every project
that has no result and did not become ready before it; so it has every project that
still waits, because the lane applies them in the order of the books. `CallKeeps`
says so of one call, `ApplyTogether` of the tasks of a call, and `ApplyEach` of the single
projects it is split into when it fails.

Sums of sizes, folds over the projects of a call and filters of lists need induction. The
library's induction theorems take an operator as a parameter, which none of the provers
instantiates; so `NatInductionSet` and `FoldKeeps` (in `ListLemmas`) and the lemmas
on `Weight` state the induction about a set, and prove it from the least
counterexample (`WFMin`). This reaches recursive functions, and not recursive operators.

### Model-checked only

* All liveness (`JobsEnd`, `CancelTakesEffect`, `FailureSignalled`, `ObjectsEnd`,
  `Completes`): it needs fairness and `ENABLED`, which are out of this prover's reach.
* `ProjectStorage`, which is there for its finding, and the properties of the four findings,
  which do not hold.

No module with a proof reaches a recursive operator.

## 5. Not modelled, and why

* Engines and the musical content of results: numerical code without interleaving.
* Native audio: real-time threads with atomics; a model of its own would have to be
  about memory order and sample positions.
* Identity, trust, encryption, encodings of bundles: not a question for a model
  checker of small states.
* The front end: its races are in the order of answers in a query cache; the two
  that matter are listed as hazards.
* Stage, progress and payload of jobs; notification texts; the permission dialog.
* Exports, previews and transforms on Android, which do not use the queue.
* Sync transport: listening, discovery, pairing and authentication of sessions; the
  sequential path over TCP; the peer's own import, which is the same code again; status
  texts, metrics and heartbeats. The last two have a race (a late heartbeat
  can set the progress of a run that was removed) that concerns the display only.
* Android queue: `Protection.Stop` takes effect, while `AndroidProtection::stop` ignores a
  failing call into Java; the rows that the failure of a service ends are one step,
  though the closures write them one after the other while the mutex is held.
* Sync import: a failed call has no effect, so a call that was committed while its answer
  was lost, and is then repeated, is not modelled; a call of more than two projects is
  split into halves before single ones, in the model into single ones at once; a file
  to stage that ends the collecting of a call waits in the queue, not beside it.
* Storage: directories, symbolic links and result files below a project; the removal of
  a deleted project's directory; more than one project or format. A passing run about
  `ProjectStorage` alone (a conversion with failing calls and crashes, and no other
  session) is left out for the sake of the number of runs.
* Lyrics and analysis in `ResultRevisions`: their rule for a missing result
  differs from that of chords.

## 6. Plan

Order of the next modules, with the abstract statement each is to meet:

1. `Tombstones`: deletion and new import of a project against plans made before, on
   two devices. To hold: a deletion wins over older work only, and an imported
   project outlives its old tombstones.
2. `PowerOwners`: `power_inhibition.rs` with the leases of `SyncTransport`, composed with
   the interface of `PowerService`. To hold: a reason is requested while and only
   while it has an owner, also across shutdown.
3. In `ResultRevisions`, a third device, if its states allow.

Proofs:

1. `ProjectStorage`: what does hold of a conversion beside a request session, as an
   invariant without the window of finding 4.
2. `Tombstones` and `PowerOwners`, with them.
