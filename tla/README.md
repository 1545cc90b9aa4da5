# BananaFlow: verification of downloads, tag editing and updates

BananaFlow downloads music, matches Spotify tracks to YouTube, converts and tags
the files. This directory holds TLA+ models of the parts of it that are hardest
to test:

- what happens to a download between the click that starts it and the file in
  the output directory, when pool threads, the UI thread, rate limits, pauses,
  cancels, crashes and restarts meet;
- how a track gets its YouTube address, when jobs and the prefetcher ask for the
  same one and different tracks are offered the same video;
- what happens to media files when the tag editor writes and renames a batch of
  them, undoes it, and is interrupted, and what its list shows of files that
  other programs change meanwhile;
- what the next start loads when an update of the components is cut off, or
  races a second instance.

TLC checks the models on small instances, and TLAPS proves theorems about eight
of them for every instance.

Paths below are relative to `src/`. Lines are those of the commit the project
was written for; `PROJECT.json` gives the lines of every definition.

## 1. The system

The layers are `ui/` (Qt widgets), `ui/controllers/` (one controller per
feature, on the UI thread), `ui/workers/` (QThreads), `core/` (no Qt) and
`utils/`. Work flows down as calls and up as queued signals.

| Component | State it keeps | Operations | Talks to | What makes it correct |
|---|---|---|---|---|
| Download recovery coordinator, `core/download_recovery.py` | one rate incident (epoch, owner, deadline, canary flag), systemic streaks and pauses, resolution gate, conservative gate | wait to start, start, report, abandon, hand over, systemic failure and reset, gates | every pool thread and resolver of the process | nothing but canaries goes out during an incident; no flag, owner or gate is left behind by a cancelled thread |
| Download orchestrator, `core/download_orchestrator.py` | per batch: live requests, locks, outcome claims, cancel events, counters | `run_batch`, match, download, pause snapshot, cancel | coordinator, engine, aggregator, worker | each job has one outcome; pause and publish exclude each other; counters agree |
| Download engine, `core/downloader.py` | one request's progress, workspace, publish state | download, finalise, publish by rename or copy | yt-dlp, ffmpeg, orchestrator callbacks | a file is visible only complete, and only if the gate allowed it |
| Batch progress, `core/batch_progress.py` | state and progress of each job, ETA model | update, terminal transitions, sweep, snapshot | orchestrator, UI | terminal is final |
| Retry policy, `core/retry_policy.py` | attempt counter of one call | retry with backoff | orchestrator | bounded, stops when cancelled |
| Download controller, `ui/controllers/download_controller.py` and `ui/workers/download_worker.py` | batch worker, resume workers, paused requests, termination intent | start, pause, pause all, resume, resume all, cancel all, batch done, shutdown, startup | workers, paused store, window | what is paused is neither lost nor run twice; every worker can be reached |
| Paused store, `core/paused_batch_store.py` (+ `core/download_request_codec.py`) | one JSON file | save, clear, load, keep-set | controller | a crash at any step loses nothing that was paused |
| Paths, `utils/paths.py` | private workspaces on disk | make, remove, sweep | orchestrator, controller | never removes files somebody still needs |
| Queue persistence, `core/queue_persistence.py` | one JSON file | save, load | window | |
| Matching, `core/scraper.py`, `core/match_cache.py`, `core/match_prefetcher.py`, `core/search_engine.py` | cache rows, single-flight table, prefetch queue; per batch, the claims of videos | resolve, prefetch, invalidate, claim, rematch | coordinator, orchestrator | one match per question; a cancelled owner does not strand its waiters; two recordings never become one video |
| Tag editor apply and undo, `core/metadata_processor.py`, `core/operation_manifest.py`, `core/backup_manager.py`, `core/apply_plan.py`, `core/undo_applied_batch.py` | backups, manifest of a batch | apply, verify, undo, restore | metadata worker, file system | every changed file can be restored, also after a crash (`docs/architecture/tag-editor-safety.md`) |
| Change drafts and sets, `core/change_drafts.py`, `core/change_sets.py`, `ui/controllers/tag_editor_workspace_state.py` | staged edits, undo and redo stacks | stage, group, undo, redo | metadata controller | undo and redo invert each other |
| Tag editor controller, `ui/controllers/metadata_controller.py`, `ui/workers/metadata_worker.py` | selection, running operation | scan, look up, apply, cancel | workers | stale results are dropped |
| File refresh and monitoring, `core/file_refresh_service.py`, `core/filesystem_monitoring.py`, `ui/services/filesystem_watch_service.py`, `ui/workers/filesystem_refresh_worker.py`, `ui/controllers/incremental_workspace_updater.py` | what the watcher saw last, pending events, own operations, a plan | compare, coalesce, suppress, plan, apply | file system, controller | no change is lost, no own write is reported, no plan overrides a later edit |
| Updates, `core/component_overlay.py`, `core/component_updates.py`, `core/app_updates.py`, `core/app_update_helper.py`, `core/update_state.py` | bundles, staging directories, `active.json`, `control.json` | install, select, start, fall back | file system, next process, other instances | a crash leaves a version that starts |
| Converter, `core/converter_service.py` | one conversion | convert, cancel, publish | ffmpeg | no partial file is left |
| History, offline monitor, diagnostics, configuration, CLI, window | tables, flags, settings | | | sequential, or pure functions |

### What is hard in it

- **Interleaving.** One job's fate is decided by its pool thread, `run_batch`,
  the engine's callbacks and the UI thread; the locks are per job, per
  aggregator and per counter, and events cross them unlocked.
- **Two steps that belong together**: claim and rename, consume a resolver and
  commit its address, capture a paused request and set its cancel event, pop a
  paused request and start its worker, decide per job and remove per container.
- **Cancellation at any point** while a permit, a canary, a gate or the
  ownership of an incident is held.
- **Crash and restart** between memory, store and workspaces.
- **Order**: success after a stop, counters delivered late, progress after a
  pause, `all_finished` of several workers, a Qt signal still in the queue.
- **Liveness**: only the owner of an incident may end it, only the owner of a
  flight can answer those that joined it.
- **Something seen is used later**: a file is checked before the journal is
  written and overwritten after it; a plan is made in a worker and applied in the
  UI thread; a start reads two files that an install replaces one by one.
- **Own work and that of others** look alike to a watcher.

`PROJECT.json` lists every hazard at its line with the properties that cover it.

## 2. The modules

| Module | Models | Lines it follows |
|---|---|---|
| `DownloadRecovery` | the coordinator's operations, each an action on its variables, without callers | `DownloadRecoveryCoordinator` |
| `DownloadAdmission` | the pool threads that use it: match, conservative gate, attempt, retry, canary, rematch, cancel (EXTENDS `DownloadRecovery`) | `_acquire_attempt_permit`, `_attempt_body`, `_download_one_locked`, `resolve_track_to_youtube`, `retry_download` |
| `CircuitBreaker` | abstract: what may be on the wire in an incident | the promise in the coordinator's docstring |
| `DownloadAdmissionProofs` | theorems about `DownloadAdmission`, and that it implements `CircuitBreaker` | |
| `DownloadJobs` | one batch: `run_batch`, pool threads, outcome claims, publish gate, counters, and three clicks of the user | the orchestrator's job code, `_publish_to_final_location`, `_atomic_place`, the job states |
| `DownloadJobsProofs` | theorems about `DownloadJobs` | |
| `PausedBatch` | many batches: controller, workers, store, workspaces, crash, close, startup | `download_controller.py`, `paused_batch_store.py`, `utils/paths.py` |
| `PausedBatchProofs` | theorems about `PausedBatch` | |
| `MatchFlight` | how a track gets its address: cache rows, flights, prefetcher, claims, rematches | `resolve_track_to_youtube`, `match_cache.py`, `match_prefetcher.py`, the orchestrator's match and its target claims |
| `MatchFlightProofs` | theorems about `MatchFlight` | |
| `RenameGraph` | the rename planner: clashes, blocked moves, components, steps with detours | `plan_renames`, `_order_component_steps` |
| `TagApply` | one batch of the tag editor: journal, backup, tag writes, renames, crash, inspection, recovery (EXTENDS `RenameGraph`) | `metadata_worker.py`, `metadata_processor.py`, `operation_manifest.py`, the controller's ends of both workers |
| `TagApplyProofs` | theorems about `TagApply` | |
| `TagUndo` | Undo of a completed Apply, its cancel, and its recovery | `undo_applied_batch.py`, `execute_restore_recovery`, `execute_undo_recovery` |
| `TagUndoProofs` | theorems about `TagUndo` | |
| `FileRefresh` | watcher, coalescer, refresh worker, plans, and the list of the tag editor over a changing directory | `filesystem_watch_service.py`, `filesystem_monitoring.py`, `file_refresh_service.py`, `incremental_workspace_updater.py`, the controller's slots between them |
| `FileRefreshProofs` | theorems about `FileRefresh` | |
| `ComponentOverlay` | installs and starts of several instances over one overlay directory | `component_overlay.py`, `component_updates.py` |
| `ComponentOverlayProofs` | theorems about `ComponentOverlay` | |
| `MC*` | small instances for TLC | |

The three models of the download core look at one system at three grains. In `DownloadAdmission` a
job's download is a chain of permits and network calls, and how its file is
published does not matter. In `DownloadJobs` getting to the engine is one step,
and everything between the engine's return and the final state is split as far
as the locks allow. In `PausedBatch` a job's last look at its cancel event, its
claim and its rename are one step (`Publish`), as are a pause's claim and its
cancel event: what happens between them is `DownloadJobs`' subject, and
`PausedBatch` has several workers, a store and restarts in exchange.

### DownloadRecovery and DownloadAdmission

`blocked` is `_blocked_until` as the three cases the code tells apart: `"open"`
(zero), `"cooling"` (the deadline lies ahead) and `"expired"` (it has passed and
only the owner's canary may go). Time itself is not modelled: `CooldownExpires`
may happen whenever the incident cools. `epoch`, `owner`, `canaryInFlight`,
`streak`, `pauses`, `resolutionGate`, `conservativeGate`, `waiters` are the fields of the coordinator.

A thread is a program counter `pc` with the permit in its hand, the result of
its last attempt and its retry count. `Admit` is one round of `wait_to_start`,
`Start` and `GoRound` the second look at the permit after the gate,
`NetworkReturns` the end of the call with any answer (`Answers`), `Report` the
completion or abandonment of the attempt, `Settle` what `_download_one_locked`
makes of it. `CancelJob` may come at any time. Jobs that match the same Spotify
key share one flight in the code; here each job has a key of its own, and
`MatchFlight` has the sharing.

### CircuitBreaker

A gate, an incident number, a stop flag and the requests on the wire. Ordinary
traffic needs an open gate, a probe carries the number of the incident it was
sent in, a throttled request closes the gate and opens the next incident, and
only a returning probe of the current incident opens it. It says nothing about
owners, permits or queues. The breaker does not say that a probe is alone: the
code does not keep that (see `SoleCanary` in section 4).

### DownloadJobs

`outcome` is `_job_outcomes` (the first-writer-wins claim), `state` the
aggregator's `JobState`, `file` where the finished file is, `request` and
`resolving` the live request and its pre-resolve copy, `captured` the snapshot
the controller holds. The UI thread runs one click at a time (`click`, `todo`),
holding a job's lock between `SnapshotClaim` and `SnapshotTake` (`held`) and
having captured but not yet stopped a job in `taken`. The x-of-total counter is
computed (`Compute`) and delivered (`Deliver`) in two steps because the code
releases the lock between them. History variables: `refused`, `discarded`.

### PausedBatch

A worker is born by Download, Resume or Resume All; `phase` follows its QThread
and `run_batch`. Workers are numbered through all runs of the application, so
that the container a `run_batch` creates can be named by its worker; a workspace
is a pair of container and job. `posted` is the queue of `all_finished` signals
the UI thread has yet to handle; `waitingFor` blocks it while
`_release_paused_record` waits for a worker to enter `run()`. `paused` maps a
job to the container its paused request names. `store` is the file:
a record has the container, how much of the card it carries, and whether it can
be read. `Crash` clears the memory at any step; `Startup` loads, sweeps,
restores and saves as one step, since nothing else runs yet.

`published` and `owed` are history: what has been published since Download last
named the job, and what the user has paused (with files on disk) and neither
resumed nor cancelled. So are `replaced`, the workers that ran when Download was
clicked again, and `astray`, the jobs that were downloaded anew while they were
paused or running, or whose pause went to an older worker than their newest
(`_worker_for_key` asks the batch worker first).

Some clicks and accidents are legal but known to break promises (section 4).
`Ways` lists which of them a run lets happen:

| way | the guard it lifts |
|---|---|
| `early` | resuming a job waits for its old thread to leave |
| `again` | no Download while a batch worker exists |
| `restart` | no Download with a paused or still running card selected |
| `single` | no single Resume while the engine's cancel event is set |
| `twice` | a job is not paused through an older worker than the one that runs it |
| `slow` | a resumed worker enters `run()` within three seconds |
| `close` | the window is not closed (only crashes end the application) |
| `corrupt` | records stay readable |

These guards are restrictions of the run on the user and the machine, not code:
the code has none of them. `PausedEnds` lifts them all; `PausedCrash` asks more and
lifts only `early`, so what it shows holds as long as the other circumstances
stay away. Section 4 says what each of them costs.

### MatchFlight

A thread is a job of a batch or a task of the prefetcher. `cache` has the row of
each key, `table` the threads that own a flight in `_resolution_flights`, `on`
the owner a thread waits for, `ask` the question (a refresh or not, and the
addresses it excludes), `answer` what it was told. `Lookup` reads the row,
`Join` the table under its lock, `Search` asks the network with any outcome
(`Offers` says which videos a search may accept for a key, `Fallback` stands
for the free-text request), then the owner stores, publishes and unlinks, each
on its own. A job goes on to claim its video: a video another recording has
claimed sends it back with a refresh, up to `RefreshLimit` times, and an
unavailable one is replaced once. `Same` says which jobs are one recording
(jobs of one key are). `CancelJob` and `CancelPrefetch` may come at any time.
The score of a candidate, the order of the prefetch queue and the size of the
cache are left out.

### TagApply and RenameGraph

`at` says which file is at each path, `tags` whose tags a file carries and
whether they are the saved (`"old"`), the proposed (`"new"`) or somebody else's
(`"theirs"`), `stamp` who wrote the file last: the size and time by which
recovery knows a file. `manifest` and `binding` are the statuses of the backup
and of what its detached binding seals; the backup can be read when they agree.
`log` is the journal on disk, `mem` the one in the worker's memory; both have the
batch state, the state of each file, the files with a recorded identity, and the
ledger of moves. Every write to disk is a step, may fail (`Fault`), and may be
the last one before a `Crash`.

The worker's program counter follows `MetadataApplyWorker.run`: journal, backup
(manifest, then binding), `StartApplying`, per file `WriteTags` and `Note`, per
component `Intend`, `MoveFile`, `NoteMove` and, if something fails,
`RollBackMove` and `NoteRollback`; then `EndRenames`, `Close`, `RemoveJournal`,
and on the UI thread `FinalizeManifest` and `Seal`. Cancelled files are noted in
the journal one by one in the code and at once in `StopWriting`; the states in
between are the same to whoever reads the journal.

With no worker running, `Here`, `Pending` and `Reconcilable` are what
`inspect_recovery_journal` finds, and the user may recover, reconcile, forget
what never wrote anything, or wait. `BeginRecovery` resolves every owner,
weighs the evidence and plans the way back; the moves are the same transactions
as in Apply; `Restore` writes the saved tags; the journal is retired only when
every file is back (`Recovered`). Inspection and the user's answer to it are one
step. `Retire` may fail: the file cannot be removed, or the controller drops the
worker's result because another folder has been opened meanwhile.

`Look` is the worker's look at the two ends of a move (`Path.exists`), and
`MoveFile` or `RollBackMove` the `os.replace` a step later, or the refusal.
`Meddle` is another program: at any time it edits a file (a field of the batch,
or another one) or puts a file at a free name. What the code cannot see of this
is noted in history variables: `late`, the names that got a file between a look
and its move; `since`, the files edited since the worker began, as a recovery
weighs its evidence then and writes later. `torn` notes that a worker ended
before a move it had taken back was noted on disk. In some behaviours all files
are given the same values (`alike`, which never changes), as in a bulk edit of an
album or a year, so that their contents do not tell them apart; `Mistakable` is
`alike` and `torn` together, the one case in which recovery takes a file for
another (section 4).

In `RenameGraph` a batch of moves is a set; `Components` takes the smallest
closed sets of linked moves where the code uses union-find, `Steps` any free move
first where the code takes the first in dictionary order, and a detour over a
temporary name only in a cycle.

### TagUndo

It begins where `TagApply` ends well: every file has its new tags and its final
name, and the identity the manifest recorded (`stamp = "applied"`). `BeginUndo`
looks at all files and writes the journal of those that pass; per record there
are `NextRecord`, `Write` and `Note`, then `Close`, and each is a write to
disk. A journal has one entry per record, under the name its file had. A recovery
(`BeginRecovery`, `Look`, `Put`, `Record`) goes through all records of
the manifest, whether the journal has them or not, because the code does; then
it moves files back under the ledger (`Intend`, `LookBack`, `MoveBack`,
`NoteMove`). Other programs edit, move and put files at any time. `since` notes
the names they have touched since the worker's last look, `lost` whether a file
that no longer had its identity was overwritten without that excuse, and whether
the journal knew it, and `misled` the records written over another file than
theirs. Undo is asked to leave names alone, as its only caller does. One thing is
kept out: before Undo begins nobody takes a file back to a name that is another
file's new one, because the journal is a dictionary by name and would hold one
file's entry under the other's (`files.get(str(path))`,
`metadata_processor.py:1737`); the model keys entries by record.

### FileRefresh

One directory. `at` says which file is at each name, a file being an inode and
the time of its last write. A change by another program (`PutFile`,
`WriteInPlace`, `MoveFile`, `RemoveFile`, `Vanish`, `Return`) makes the system
notify the watcher (`dirty`), which in `DirectoryChanged` compares the directory
with `seen` and turns differences into one event per name; `Poll` is the timer
of the degraded mode. `Merge` is the coalescer, `Serve` what happens to a batch:
held back while paused, dropped while a disk operation runs, freed of the
application's own work (`Expected`, from the ledger `own`), and given to a
worker, which replaces the one before. `Look` is the worker's plan,
`AcceptPlan`, `PlanIsStale` and `PlanIsRefused` what the controller does with it.
The user edits, resolves conflicts, renames, recycles, and runs an Apply, whose
worker has its own copies of the items. `item` is what the list has of each
name: the file it was read from, what it shows, whether it has proposals, and
its state. `forgotten` is history: the names whose news the code drops at the
points listed in section 4.

The model leaves out subdirectories, placeholders and unreadable files, the
overflow of the coalescer and of the ledger, reuse of inodes, locating a moved
file by hand and the undo of a rebase. A worker reads the directory in one step,
several notifications are one, a rename of the user goes to a name without an
item, and the user leaves the items of a running Apply alone. A name has one item:
the code relocates two missing items that were both read from one file to its new
path (`file_refresh_service.py:328-333` looks at what a relocation has consumed
only afterwards), and both keep their proposals there. The model accepts no such
plan (`Apart`). It takes a second file, whose item has followed the first one's
to its name; with two names it cannot happen.

### ComponentOverlay

`final` and `staging` are the trees in `bundles/` and `staging/`, `pointer` is
`active.json` (the selection and the one before it), `control` is `control.json`
with its age, `channel` what the official manifest says. A start goes through
cleaning, reading the pointer, the control record (fetched when older than a
day) and loading with its fallbacks; an install through eligibility, extraction,
marking, health check, move, second check, selection, pointer, record. Each is a
step, any instance may be at any of them, and `Crash` ends one between two. An
install may fail at each of its own: a health check may take too long, a write
may be refused. Coarser than the code: a start takes its check of the record
(fetch, write, read again) in one step and its choice, its fallback and the load
in another, and a JSON file is replaced in one.
`DayPasses` makes the record old; `Upgrade` changes the version while nobody
runs; `Damage` breaks a tree where it lies.

## 3. What is checked, and holds

| Run | Instance | States | Asks |
|---|---|---|---|
| `AdmissionFast` | three downloads, one matched first; one scope of threshold 2; two incidents; no conservative gate; no retry | 1 896 283 | permits, canaries, owners, streaks, gates; refinement of `CircuitBreaker` |
| `AdmissionEnds` | two conservative downloads, one matched first, one retry; threshold 1; two incidents; fair | 47 647 | every job ends |
| `JobsRace` | two jobs, one matched first; two clicks of any kind; one engine and one publish retry | 1 834 967 | pause against publish, claims, counters, final states |
| `PausedCrash` | two tracks in one batch; three workers; any crashes; `early` | 743 657 | what is paused is kept and offered; memory and store agree |
| `PausedEnds` | two tracks in any batches; two workers; any crashes; all of `Ways` | 503 171 | every running worker is reachable and everything paused stopped, but for `replaced` and `astray`; a start spares what records name |
| `MatchDistinct` | jobs of two tracks, both offered the same two videos; two refreshes | 206 660 | one video for one recording; rows go only by proof |
| `MatchShared` | two jobs and a prefetch task of one track and one video; one refresh; fair | 724 101 | answers fit questions, flights have owners, everyone ends |
| `TagCrash` | three files: two swap names, one of them and a third get new tags, alike or not; two failing writes, two crashes, two recoveries, one act of another program | 3 475 915 | nothing lost, overwritten or half applied in silence; every write under journal and backup |
| `UndoCrash` | three files: two had swapped names, the third had got a new one; two acts of another program, one stop, one fault, two recoveries | 2 918 281 | nothing journalled is overwritten unseen; nothing is given up before it is back |
| `RefreshRace` | two names (interchangeable); three acts of anybody and two writes | 1 050 576 | no news is lost but where the code is seen to drop it; plans spare proposals |
| `OverlayRace` | two instances (interchangeable); a healthy bundle and one that is not, a version that both fit and one that only the second does; two changes, one damage, one crash | 420 976 | only sound bundles are loaded and selected, and only a selection switches |

### The properties

`DownloadAdmission`:
- `CanaryFlagHasHolder`: `_canary_in_flight` always has a permit behind it. A
  path that drops a canary's permit and leaves the flag would park every
  request of the process for good.
- `OwnerStillThere`: the owner of an incident is inside the chain that will
  bring its canary. Nobody else may send it.
- `PermitsFresh`: a thread has a permit exactly between admission and report;
  an ordinary one of the current epoch exists only while admission is open.
- `StoppedByStreak`: a scope is stopped exactly while its streak has reached the
  threshold, however late a success of an older track comes in.
- `GatesAccounted`: each gate's holder is a thread between acquire and release,
  and the waiter count is the length of the queue.
- `KeepsTheGate` (refinement): what is on the wire is a behaviour of
  `CircuitBreaker`.
- `EveryJobEnds` (liveness): no job waits for ever.

`DownloadJobs`:
- `PausedNotPublished`, `ResumeIsUnfinished`: pause and publish never both win,
  and no finished job is offered for Resume.
- `ClaimNotLeaked`: a claim outlives no commit that did not happen.
- `CapturedCanRun`: a snapshot taken in the middle of a match has its resolver.
- `CancelledOnlyIfRefused`: without Cancel All, a job ends cancelled only if a
  pause could not capture it.
- `CountsAgree`: claim, counter and state of a job are set under three locks, so
  a snapshot may fall between them; whenever no thread is between counter and
  state, the counters are the states.
- `OverIsOver` (steps): terminal is final, and "completed" means published.

`PausedBatch`:
- `StillThere`, `StillOffered`: what the user paused keeps its files through
  every clean-up and crash, and is in the store and, while the application runs,
  in memory or in the hands of a worker about to start.
- `StoreMatches`: memory and store agree whenever the UI thread is at rest.
- `PausedIsStopped`: a thread that still works on a paused job has been told to
  stop, unless the job is astray.
- `WorkersReachable`: every running worker is one that pause, cancel and
  shutdown address, or was replaced by a click on Download.
- `SweepSparesRecords` (steps): a start removes no workspace the store names,
  readable or not.

`TagApply`:
- `SilentMeansWhole`: when no worker runs and no recovery is offered, the batch
  has been applied to all its files or to none, whatever failed or crashed.
- `TagsAreOwn`: no file is ever given tags saved for another one.
- `BackupStands`: while there is something to restore, there is a backup, and it
  is readable unless its finalization was cut in half.
- `CompletedIsClosed`: a completed manifest, which Undo works from, belongs to a
  batch whose journal is gone or has nothing left to do.
- `ForeignKept`: recovery writes over no field of the batch that another program
  has changed before it began.
- `NothingOverwritten` (steps): every file of the batch is somewhere after every
  step, and a file of somebody else stays where it is, unless it came between
  the look and the move.
- `WrittenUnderJournal` (steps): a worker changes a media file only when the
  journal on disk says "applying" and the backup can be read; a recovery restores
  a file edited under it when the journal may say more.

`SilentMeansWhole`, `TagsAreOwn`, `ForeignKept` and the strangers of
`NothingOverwritten` are stated but for `Mistakable`, where section 4 shows the
first two to fail.

`MatchFlight`:
- `AnswersFit`: what a thread is answered by the cache, its own search or
  another's flight is offered for its key and not among what it excluded.
- `FlightsOwned`: one search at a time for a question, and whoever waits, waits
  for an owner that has still to publish.
- `DistinctTargets`: jobs of different recordings never download one video.
- `RowsGoByProof` (steps): a row goes only when a job of its key excludes what
  it held; a late failure deletes no newer match.
- `EveryMatchEnds` (liveness): no one is left waiting, whoever is cancelled.

`TagUndo`:
- `JournalledKept`: neither Undo nor its recovery writes over a file of the
  journal that somebody has changed, or put there, after the Apply and before
  the worker's look.
- `UndoneOrOffered`: an Undo that is not offered any more has put back every
  file it took on, but for those that were cancelled or edited, or whose name
  had another file when the tags were written.

`FileRefresh`:
- `UnseenIsUnderway`: of every name, the list shows what is on disk, or says that
  it is in doubt, or news is under way to it (a notification, an event, a worker,
  the pass after an Apply), or the code has been seen to drop the news at one of
  the points of section 4. In merging, sorting out, replacing and applying
  together nothing else goes missing.
- `ProposalsStand` (steps): a plan neither drops an item with proposals nor puts
  another file under them.

`ComponentOverlay`:
- `LoadedIsSound`: whatever crashed or raced before, an instance has loaded what
  it was shipped with or a healthy bundle that fits its version.
- `PointerInPlace`: what is selected is in place and was found healthy.
- `SwitchedBySelection` (steps): what the next start will load changes only by
  the selection of an install, a record, damage, another version, or a start
  whose view was out of date when it fell back.

Each component has a type invariant `TypeOK`, which is proved (section 5);
`TagCrash` also checks that of `TagApply`.

Every property is broken by a mutant of the code listed in `PROJECT.json` (a
dropped guard, a flag left behind, a record dropped too early, ...).

### Bounds, and why they are enough

- *Three jobs in `AdmissionFast`*: the owner of an incident, another canary, and
  a bystander that is admitted or stopped. One of them is matched first, so
  match keys and download keys both occur. Two incidents, so that a permit can be
  stale by one epoch while the next incident runs. The two jobs without a match
  are interchangeable (symmetry); the liveness run uses none.
- *Threshold 2*: a streak that is below, at and above its threshold.
- *Two jobs and two clicks in `JobsRace`*: the claims, locks and events of
  different jobs are disjoint, so two jobs show every interference between a
  job and the batch (counters, sweep, workspace); two clicks show a pause that
  is cancelled or followed by a pause of everything.
- *Two tracks and three workers in `PausedCrash`*: one that is paused or resumed
  and a sibling in its container; a batch, a resume, and a batch or resume after
  them or after a restart. The run selects the two tracks together; selecting
  any subset (`Anything`) was run once and changes nothing but the time.
- *Two workers in `PausedEnds`*, for the sake of all `Ways` and selections: a
  batch, and a resume or a second batch beside it or after a restart. Its three
  properties are proved for any number of workers.
- *Three files in `TagCrash`*: a swap is the smallest plan that needs a detour,
  so it has every kind of step; the third file is one without a rename. One file
  of the swap is renamed without new tags. A chain (`Chain2`) passes too. Two
  failures are needed for a failed move whose rollback fails, two crashes for one
  in Apply and one in its recovery, two recoveries for a retry. Three temporary
  names (interchangeable, symmetry) are enough for as many detours as the bounds
  allow; the code draws fresh random ones. The two tagged files are given the
  same values or values of their own. Two acts of another program (11 286 019
  states, values of their own) pass too.
- *Two tracks in `MatchDistinct`*: a collision needs two recordings and one
  video, a rematch a second video, and its second collision a second refresh.
  Jobs of one recording may share a video, so a third job adds only a sharer.
- *Two jobs and a prefetch of one track in `MatchShared`*: an owner, a waiter
  and somebody who comes when the flight has gone; any of them may be the one
  that is cancelled. Questions differ by the refresh and by what they exclude.
- *Three files in `UndoCrash`*: names that are each other's, where the file found
  at a record's name may be another record's, and one whose name is free. One
  stop cuts off Undo or recovery at any write; the second recovery goes on from
  what the first has left.
- *Two names in `RefreshRace`*: a move has two ends. Edits, disk operations,
  changes by others and losses of the directory draw on one budget of three.
  Three names with three acts (3.4 million states), and two names with four acts
  and one write (6.7 million), pass as well.
- *Two instances in `OverlayRace`*: an install against a start or another
  install. The unhealthy bundle is offered and refused, the version in which the
  healthy one does not fit comes by an upgrade or a downgrade.
- Retries are bounded by `MaxRetries`/`MaxTries`; the code's bound is 3, and the
  loop has no state but its counter.

### Fairness

`FairSpec` assumes weak fairness of each pool thread (threads are preemptive,
and `_acquire_attempt_permit` polls with a timeout, so no wake-up is needed), of
the two clocks, and of the user's answer to a systemic incident (without it the
batch waits by design; a closed window cancels the jobs instead). A network call ends
because the engine sets socket timeouts. Nothing obliges the user to cancel, and
no strong fairness is used. `FairSpec` of `MatchFlight` assumes weak fairness of
each thread's steps: a search ends, an owner publishes in a `finally`, and the
waiters poll.

## 4. What is checked, and does not hold

One run is a violation: `UndoRefused`, two files, one edited by another program
before the Undo. `undo_applied_batch` refuses the edited file and leaves it out of
its journal, as `docs/architecture/tag-editor-undo-rollback-guarantees.md:13`
promises; the Undo ends partial and is offered for recovery, which goes through
every record of the manifest, and for one the journal does not have compares no
identity (`core/metadata_processor.py:1752`): the edited file is overwritten by
its backup (`RefusedKept`). No crash is needed.

The models show more of the kind; no run is spent on these. The first group are properties of
`PausedBatch`, refuted on `PausedCrash.cfg` with one more of its `Ways` (two of
them without the exception they now make):

| Way | Property | What happens |
|---|---|---|
| `corrupt` | `StillThere` | the sweep is skipped for a record that cannot be read, the store's next save (a restore, a pause) writes only the readable ones, and the next start sweeps the workspace (`paused_batch_store.py:207`, `download_controller.py:1066`) |
| `slow` | `StillOffered` | a record kept for a worker that is slow to start (`download_controller.py:1198-1200`) is dropped by the next pause's save, before the worker has started |
| `again` | `WorkersReachable` without `replaced` | a change of the selection enables Download during a batch (`app_window.py:213-214`), `start_batch` has no guard, and the first worker is out of reach of pause, cancel and shutdown |
| `restart` | `PausedIsUnfinished` | a paused card selected for Download leaves its old request paused; Resume All runs it after the track has completed |
| `twice` | `PausedIsStopped` without `astray` | a track resumed while its first batch runs is paused through its old worker and goes on (`download_controller.py:704`) |
| `single` | `StillThere` | a single Resume after a pause of everything starts while the engine's cancel event is set, ends cancelled, and its files go |
| `close` | `StillOffered` | closing the window discards what was paused for later |
| `early` alone | `KeepsBusyWorkspaces` | Cancel All removes a container that a resumed sibling is using |
| `twice` | `PausedIsUnfinished` | a pause of everything asks the old worker of a resumed track that has just completed (its signal is queued), is granted the claim again and captures the finished track |

The second group are properties stated beside the others, which TLC refutes on
the instance of a run or on a smaller one:

| Property | What happens |
|---|---|
| `PausedStaysPaused` | a progress event that a stopped engine still fires turns PAUSED back into ACTIVE (`batch_progress.py:523`), where `live_request_snapshot` says the batch never ends holding a non-terminal job |
| `CounterEndsAtTotal` | `_emit_job_count` sums under a lock and delivers outside it: the x-of-total counter can end below total |
| `CapturedHasAddress` | a pause between a failed match and its settlement captures a request without resolver or address |
| `PauseLeavesNothing` | a pause of everything that meets jobs before their registration, or between claim and failing rename, cancels them |
| `PausedKeepsWorkspace` | a batch that drains between a pause's capture and its cancel event removes the captured job's files |
| `OneThreadPerWorkspace` (`early`) | Resume does not wait for the old thread: two engines in one workspace |
| `RecordsKeepCards` (selections `Anything`) | `start_batch` empties `_key_to_card`; paused jobs of an earlier batch are saved without the card they are to be rebuilt from |
| `AbandonedIsSwept` (selections `Anything`) | a cancelled resume that ends while a batch worker is set returns on the first line of `_on_batch_done`, and its workspace stays |
| `BackupReadable` (`TagCrash`) | `write_manifest` replaces the manifest, then its binding; a crash or a failing write in between leaves a manifest that `read_manifest` refuses, while the journal of a partial batch still needs it |
| `EditedKept` (`TagCrash`) | recovery takes the batch's own values in the changed fields as evidence and then writes all saved fields, so that an edit of another field since the crash is lost; `docs/architecture/tag-editor-safety.md` has the restore path refuse files that changed externally |
| `TagsAreOwn`, `SilentMeansWhole` without `Mistakable` (`TagCrash`) | a swap's rollback that a crash cuts off before it is noted makes recovery take each file for the other, when their proposed values are alike (`metadata_processor.py:1477`) |
| `SoleCanary` (`AdmissionFast`) | after the owner of an incident was handed over, a second canary joins the first (`download_recovery.py:556`) |
| `AbandonedIsNotPublished` (`JobsRace`) | Cancel All of a paused job races its thread, which publishes it all the same (`download_orchestrator.py:498`) |
| `RaceOnlyWastes` (`MatchShared` with jobs `{i}`, `KeyOf <- Alone`, `Same <- Single`) | a download joins the flight of a prefetch task; the prefetcher is cancelled, its flight answers with nothing, and the download goes on with a free-text search although nobody told it to stop; `core/match_prefetcher.py:26-28` says that racing "only wastes a lookup" |
| `KeepsLastGood` (`OverlayRace` with one instance and version, three healthy bundles, `FitsAll`, three changes) | an install whose own record revokes the active bundle writes that bundle as `previous` and drops an older valid one (`component_overlay.py:499-500`); `docs/security/threat-model.md:65` promises the previous valid selection |
| `NamesLeftAlone` (`UndoCrash`) | an Undo of tags alone that is cut off is recovered by moving the files back as well |

What the models had to be written around, because the code does it:

- *Undo.* A cancelled Undo is closed as completed. An edit between the look at a
  file and its write is lost, as no check follows the journal's write (`since`,
  `misled`). A recovery writes "completed" before the names are moved, so a
  crash in between leaves them. A file that was taken back to its original name
  is never found by recovery. With `restore_paths` (no caller sets it) a blocked
  move is ignored.
- *Apply.* Likewise an edit after a recovery has weighed its evidence is lost
  (`since`). "Never overwrite an existing dst" (`metadata_processor.py:1449`) is
  kept by a look, and `os.replace` follows without another: a file that comes in
  between is overwritten (`late`), also on the way back (1480-1485).
- *Overlay.* Nothing keeps instances apart: one start's cleaning guts what
  another install prepares (the health check catches it, unless what is missing
  is nothing it needs), and a control record may be overwritten by an older one.
  Two instances that write the same JSON file share its `.tmp`
  (`component_overlay.py:347-351`): one may move the other's unfinished file into
  place, which reads as no selection, and the other's replace then fails. The
  model leaves that out. A tree damaged after its check is passed
  over at every start, but no install repairs it.
- *File refresh, news that is dropped* (`forgotten`): a new batch cancels the
  running worker and its batch (`metadata_controller.py:1312-1314`); a batch that
  comes while a disk operation is marked active is dropped, and that may be
  the full pass that is to make up for it (1298-1303); a plan refused because a
  file has changed since is not made again (1344-1345); the merge of two events
  forgets an earlier name; an event explained by an own operation takes the news
  of its earlier name with it; an own operation whose result another program
  brings about again explains the second event as well (the ledger's docstring
  says "Suppression requires proof, never coincidence"); a file that appears for
  a full pass and goes before the watcher compares is never reported; a directory
  that is lost and back before the poll sees it, or whose watch the system
  removed, is not compared.
- *File refresh, other.* An item followed to a file's new name leaves a new file
  at its old name unlisted. A plan that started before the directory was lost
  may still remove items. A conflict shown as "moved" is gone at the next pass.
  The baseline of an Apply is read again in the UI slot, so that a change in
  between becomes the baseline (2434). A conflict over a file that was replaced
  meanwhile can be answered with Keep Local; only the dialog's disabled button
  prevents it.

## 5. What is proved

TLAPS checks every theorem and lemma below for all values of the constants that
satisfy the named assumptions.

| Module | Theorem | States | Under |
|---|---|---|---|
| `DownloadAdmissionProofs` | `TypeCorrect` | `Spec => []TypeOK` | |
| | `PermitsStayFresh` | `Spec => []PermitsFresh` | |
| | `CanaryFlagHeld` | `Spec => []CanaryFlagHasHolder` | |
| | `StopsFollowStreaks` | `Spec => []StoppedByStreak` | |
| | `OwnerStays` | `Spec => []OwnerStillThere` | |
| | `GatesGivenBack` | `Spec => []GatesAccounted` | |
| | `ImplementsBreaker` | `Spec => KeepsTheGate` | |
| `DownloadJobsProofs` | `JobTypes` | `Spec => []TypeOK` | |
| | `NoClaimLeaks` | `Spec => []ClaimNotLeaked` | |
| | `PauseExcludesPublish` | `Spec => []PausedNotPublished` | |
| | `ResumeUnfinished` | `Spec => []ResumeIsUnfinished` | |
| | `CapturedRuns` | `Spec => []CapturedCanRun` | |
| | `OverStays` | `Spec => OverIsOver` | |
| | `CountersAgree` | `Spec => []CountsAgree` | finite `Job` |
| | `OnlyRefusedCancelled` | `Spec => []CancelledOnlyIfRefused` | |
| `PausedBatchProofs` | `PausedTypes` | `Spec => []TypeOK` | |
| | `AllReached` | `Spec => []WorkersReachable` | |
| | `SweepSpares` | `Spec => SweepSparesRecords` | |
| | `StoreAgrees` | `Spec => []StoreMatches` | no `corrupt`, `slow` |
| | `PausedAreStopped` | `Spec => []PausedIsStopped` | |
| `MatchFlightProofs` | `Types` | `Spec => []TypeOK` | |
| | `Flights` | `Spec => []FlightsOwned` | |
| | `Answered` | `Spec => []AnswersFit` | |
| | `Distinct` | `Spec => []DistinctTargets` | |
| | `RowsGo` | `Spec => RowsGoByProof` | |
| `TagApplyProofs` | `TypeCorrect` | `Spec => []TypeOK` | |
| | `WritesUnderJournal` | `Spec => WrittenUnderJournal` | |
| | `BackupKept` | `Spec => []BackupStands` | |
| | `CompletedCloses` | `Spec => []CompletedIsClosed` | |
| | `TagsStayOwn` | `Spec => []TagsAreOwn` | |
| | `ForeignStays` | `Spec => []ForeignKept` | |
| | `NothingLost` | `Spec => NothingOverwritten` | |
| | `SilenceIsWhole` | `Spec => []SilentMeansWhole` | |
| `TagUndoProofs` | `UndoTypes` | `Spec => []TypeOK` | |
| | `UndoKeeps` | `Spec => []JournalledKept` | |
| | `UndoCloses` | `Spec => []UndoneOrOffered` | |
| `FileRefreshProofs` | `RefreshTypes` | `Spec => []TypeOK` | finite `Name` |
| | `NewsArrives` | `Spec => []UnseenIsUnderway` | finite `Name` |
| | `ProposalsKept` | `Spec => ProposalsStand` | finite `Name` |
| `ComponentOverlayProofs` | `OverlayTypes` | `Spec => []TypeOK` | |
| | `OverlaySound` | `Spec => []LoadedIsSound` | |
| | `OverlayInPlace` | `Spec => []PointerInPlace` | |
| | `OverlaySwitched` | `Spec => SwitchedBySelection` | |

The assumptions are those the modules name: special values are no members of the
sets they stand beside, bounds are naturals, names are distinct. No set is assumed
finite but the jobs whose states `CountsAgree` counts and the names of
`FileRefresh`, of which an Apply makes a list. In `PausedBatch` only `StoreAgrees`
leaves out two of `Ways`, the ones section 4 shows to break what is saved; the
other four theorems hold with all of them allowed at once. `StillThere` and
`StillOffered` are not proved: they hold only while most of `Ways` stay away, and
TLC checks them so (`PausedCrash`).

### DownloadAdmission

*Assumptions*: `NoOwner` is no key and `NoPermit` no
permit; thresholds are positive numbers; the keys are one match key and one
download key per job (`JobAssumption`), so two jobs never share a key.

*Argument.* `TypeOK` is inductive on its own. `PermitsFresh` is inductive given
the types: a permit is issued with the current epoch, epochs only grow, and
admission closes only together with a new epoch, so a permit of the current
epoch from before the closing cannot exist. That fact is what the other
invariants need, because the code checks a permit long after issuing it.
`CanaryFlagHasHolder` then holds because every action that drops a canary's
permit clears the flag, and `OwnerStillThere` because the owner's thread keeps
its key and its place until it reports, hands over or gives up. `GatesAccounted` goes gate by
gate: the key in a gate is the key of the one job between acquire and release
(`ResolutionHeld`, `ConservativeHeld`), and a thread that joins or leaves the
queue changes the counter by one (`QueueCounted`, with the library's facts on
cardinalities; the queue is finite because it starts empty). The refinement
maps `blocked` to an open or closed gate, the epoch to the incident, the pauses
to the stop flag, and each thread's program counter and permit to what is on the
wire; each step of the model is a step of the breaker or a stutter. The guard of
`Start` (`is_start_permit_valid`) is what makes an ordinary send meet an open
gate, and `PermitsFresh` what makes that guard enough. The proof of each lemma
has one step per action.

### DownloadJobs

Everything follows the owner of a job's outcome claim. Whoever is past the
publish gate owns "terminal" (`Gated`); a published file is there only while its
thread is on the way from the gate to the report, or when the job is over
(`Filed`); what has been or is being captured, "paused" owns (`Holding`). Two
owners of one claim do not exist, so a captured job has no published file.
`Early` says that no click and no thread gets at a job before `run_batch` has
registered all of them, `Requested` that the live request follows the match.
`Inv` gathers these with `ClaimNotLeaked`, `CapturedCanRun` and
`PausedNotPublished`. The counters need cardinalities (`Counted`): a terminal
mark moves one job from one set to another. `Accounted` adds that a thread that
was told to stop belongs to a job that is captured, over, or was refused.

### PausedBatch

`Sound` is the type invariant with two facts it needs: a thread has a container to
work in, and `all_finished` comes from a worker whose run is over. `AllReached`
is inductive by itself: the only worker a step takes from the controller while it
runs is the one a click on Download replaces. `SweepSpares` holds step by step. `StoreAgrees` carries
the legibility of all records along. `PausedAreStopped` is the hard one, because
a pause asks one worker, and several may have had the job: `Superseded` says that
a thread whose job has gone to a newer worker was told to stop when it went,
`Awaited` that a worker that is about to run has no job that is paused or has a
newer worker, `Halted` that a thread of a paused job was told by the job's own
cancel event (the engine's is reset by the next batch). So stopping the newest
worker of a job stops all its threads. An astray job is left out of
all three from then on; every other one keeps them whatever happens to the astray.

### MatchFlight

Every row and every published answer is offered for its key and not excluded by
the question it answers, which the flight's key contains (`RowsOffered`,
`ResultsFit`); claims of one video are claims of one recording, and a job
downloads what it has claimed (`ClaimsApart` and what follows it). The relation
of recordings and the offers are arbitrary.

### TagApply

*Assumptions*: original names are distinct, proposed names are distinct, none of
them is a temporary name, and what `Located` answers for a file it cannot place
is no name (the code answers with a status beside the path); bounds are naturals.
The set of files, the renames
(with any chains, cycles and detours) and the bounds are arbitrary.

*Argument.* Four invariants, each resting on the one before.

- `Typed` has, besides the types, that nothing of a component is in hand between
  two of them, and that a file's stamp says who wrote its tags.
- `Phases` says for each place of the worker what is on disk: nothing is touched
  before the journal says "applying" (`Unwritten`), which it says only with
  manifest and binding in place (`InSetup`, `InApply`); a recovery runs under a
  backup it could read and what the journal said (`InRecovery`). `Crash` leaves
  the disk alone, so what is on disk is what the next inspection meets:
  `WrittenUnderJournal` and `BackupStands`. `Covered` and `Closing` follow the
  files that are to be renamed through the plan: each waits in a component, is
  under way, counts as complete in the journal, or has not succeeded
  (`ComponentCovers`: every move is in some component of the planner). So the
  worker ends clean only with a closed journal: `CompletedIsClosed`.
- `Places` says where files are: a planned move starts at its owner, and no file
  is in two components (`PlanSound`, `ComponentsDisjoint`); a move under way
  starts at its owner or where the detour noted last takes it (`Underway`); a
  move that was done left its owner where the ledger says, so a rollback moves
  members of the component only (`Ledgers`); a component that ends well has its
  members in their places (`Ending`); a file that recovery counts as good is back
  or on its way back, with no tags of others (`Returning`). What holds of the file at
  a name then follows from `Single`: a file is at one name, with its own tags.
- `Told` says what the journals tell of each file, and gives `SilentMeansWhole`.
  Until a recovery begins (`Fresh`) they can be believed: a file that counts as
  written was written and has its stamp (`Accounts`); one that counts as complete
  is at its new name, and one without a rename at its old one (`Standing`); the
  last entry of a file that has come to its new name is the move that brought it
  there, and it has not been rolled back, though it may be unresolved or not yet
  noted as done (`Noting`, `Arrivals`). For this, no temporary name serves two
  files (`Temporary`), and what Apply renames it takes from its home or from a
  detour (`Outset`). So Apply ends clean, or a journal has nothing pending, only
  if all of the batch has been applied (`Finishing`, `NothingPending`).
  Once a recovery has begun the ledger no longer shows this, since recovery's own
  moves are in it. What stays true is `Tried`: some file is `Hopeless`, short of
  what a journal with nothing pending would need, and remains so whatever
  recoveries, rollbacks and others do. It was not written, or lost its stamp; or
  it is not at its new name, and no rollback will take it there (`Away`); or it is
  stuck there, where the ledger cannot place it (`Jammed`). The first recovery
  begins because there is such a file (`FirstRecovery`), so after it the journal
  goes only with `EndRecovery`, when every file is back with its old tags
  (`Returning`, `Restored`), and is never reconciled away.

Recovery takes a file for the one it looks for if it has its identity, or the
batch's values. Where the values do not tell files apart, the ledger has to:
`Traced` says that the last entry of each file tells where it is, but for moves
the worker has taken back and not yet noted (`Untold`). A worker that ends then
breaks it for good, and nothing else does (`torn`). So `Places` and what rests on
it are proved on condition of `~Mistakable`, for bulk edits as for others; the
other half, that files with values of their own are never taken for one another
whatever the ledger says, is in the lemma on what recovery finds.

### TagUndo

`Inv` says that the journal on disk and the one in memory tell the truth
(`JournalsTrue`: a closed journal has put back what it took on), that the worker
is where its journal says (`WorkerSound`), and that a file about to be written
has passed its look or was touched since (`Aimed`). A file has one name
(`Single`), so writing one record's tags leaves what the others are aimed at.

### FileRefresh

*Assumptions*: `Name` is finite, no name is the inode of a later file, and
`Nobody` and `NoItem` are none of the values they stand beside.

`UnseenIsUnderway` is not inductive: a notification may be taken while an event
about the lost directory waits, and then everything else in the queue goes. The
invariant `Accounted` says more exactly why news of a name will come (`Reason`).
The timer sees a difference, or a gone directory. Or the queue has it: an event
the worker will look at, a sweep, a restored directory. Or news of a loss waits,
which goes alone, and reaches the names that have items. Or, only if it does not
wait, a notification, an Apply, or a worker, whose plan, once made, has found what
is there now. It stands on the rest of `IInv`:

- `Wired`: a watched directory is there and was seen.
- `Stamped`, `Distinct`: times and inodes are of the past, and no file is at two
  names, so a comparison sees every change and a move has one origin.
- `Jobs`: the files an Apply has left have items of their own, with proposals.
- `Workers`: what a current worker knows of items and proposals is still so,
  because every change of either makes it outdated.
- `Bases`: an item that was read from no file is not taken for a current one, so
  a full plan has a result for it and it is checked again.
- `Lost`: while the watch has outlived a loss nobody has read yet, no worker
  runs, and what had a file when the directory was last seen has an item, or is
  in `forgotten`.

The steps are proved by kind: draining the queue (`ServeAccounts`, for any root
event, in any of the six actions that do it), a comparison (`CompareAccounts`,
where a name that two events merge away is an event's prior name or in
`forgotten`), an accepted plan (`PlanAccounts`: after it an item is right, marked,
or one the plan had nothing for), an Apply, and changes by others
(`NoticeAccounts`). `ProposalsKept` follows from `Workers` and `PlanKeeps`: each
item with proposals stays, is marked, or moves with its file.

### ComponentOverlay

A tree is in place only if an install moved it there after its health check
(`Trees`); what an install selects is in place (`Targets`); what is selected, or
has been read as selected, is in place (`Selected`); what is loaded was checked
when it was (`Loaded`). A crash leaves no place an install could be in that these
do not cover.

### What is only model-checked

Every invariant and action property of the passing runs is stated by a theorem,
but for `StillThere` and `StillOffered` of `PausedBatch`; what else is left to TLC
is liveness (`EveryJobEnds`, `EveryMatchEnds`), which is out of the prover's
reach, and every violation. No module uses a recursive definition.

## 6. What is not modelled

- The clock: deadlines expire when they like. Backoff lengths, stagger and ETA
  arithmetic are left to their unit tests.
- In the coordinator: `RecoveryIncident`, the object through which the UI
  publishes a user's decision. In the orchestrator: the look-ahead window of
  resolvers, phases, heartbeat.
- Conversion, tagging, yt-dlp and ffmpeg: they succeed, fail or are stopped.
- In matching: the scoring of candidates, eviction of rows, the order of the
  prefetch queue.
- In the controller: the failure retry batch, the prompts for a failed track,
  the duplicate dialog (`StartBatch` gets the jobs that are left after it).
- A write of the paused store that fails: the code logs it and goes on, so that
  the store keeps saying what it said. The model's writes succeed.
- `cancel()` iterating over a dictionary that `run_batch` still fills.
- In the tag editor: Restore of a chosen backup, renames that change only the
  case of a name, name rules, a discard the user forces, two batches over the
  same files, backups of older schemas. The content of tags is whose they are;
  reading and writing containers succeeds or fails as a whole. What `FileRefresh`
  leaves out is listed with it.
- Updates of the application itself and its helper, which replace the whole
  installation from another process, signatures, and updates of components in a
  development setup.
- Change drafts, queue persistence, converter: see the plan.
- History database, offline monitor, diagnostics, configuration, command line,
  widgets, translations, themes, build: one transaction at a time, or pure
  functions, or pure I/O. They are most of the source's lines.

## 7. Plan

Order: the most important behaviour first. Done: 1 to 7.

1. `DownloadRecovery`, `DownloadAdmission`, `CircuitBreaker` and their theorems.
2. `DownloadJobs` and its theorems.
3. `PausedBatch` and its theorems.
4. `RenameGraph`, `TagApply`, `TagUndo` and their theorems.
5. `ComponentOverlay` and its theorems.
6. `MatchFlight`, with the claims of Spotify targets, and its theorems.
7. `FileRefresh` and its theorems.
8. Two batches over the same files: a cancelled Apply keeps its journal, a later
   one completes the same files.
9. `ChangeSets`: undo and redo stacks over staged edits against a reference
   definition of the edit history.
10. `ResolverWindow`: the look-ahead of `run_batch`.
11. `RecoveryIncident` and the failure retry batch, with the UI's decisions.
12. `QueuePersistence` and `Converter`.

Theorems to come: an abstract disposition of a job (open, then exactly one of
published, given up or kept for Resume) that `DownloadJobs` refines.
