---------------------------- MODULE PausedBatch ----------------------------
(***************************************************************************)
(* Pausing, resuming and restarting: the DownloadController of             *)
(* ui/controllers/download_controller.py with its workers (one thread per  *)
(* batch or per resumed track), the store of paused requests               *)
(* (core/paused_batch_store.py), the private workspaces on disk            *)
(* (utils/paths.py) and crashes.                                           *)
(*                                                                         *)
(* DownloadJobs looks inside one batch; here a batch is coarse: a pause's  *)
(* claim and its cancel event are one step, and so is a job's last look,   *)
(* its claim and its publication.                                          *)
(*                                                                         *)
(* A workspace is named by the worker whose run_batch created its          *)
(* container and by the job it belongs to.                                 *)
(***************************************************************************)
EXTENDS Naturals, FiniteSets, Sequences

CONSTANTS
    Job,         \* the cards of the queue
    Selections,  \* what may be selected when Download is clicked
    MaxWorkers,  \* bound: workers over all runs of the application
    Ways         \* circumstances a run lets happen, see below

(* "early"    a track is resumed while its old thread still winds down     *)
(* "again"    Download is clicked while a batch runs                       *)
(* "restart"  Download is clicked with a paused or running card selected   *)
(* "single"   one track is resumed after a pause of everything             *)
(* "twice"    a resumed track is paused again while its first batch runs   *)
(* "slow"     a resumed worker does not start within three seconds         *)
(* "close"    the window is closed                                         *)
(* "corrupt"  a record of the store becomes unreadable                     *)
AllWays == {"early", "again", "restart", "single", "twice", "slow", "close",
            "corrupt"}

ASSUME SelectionsAssumption == Selections \subseteq SUBSET Job
ASSUME MaxWorkersAssumption == MaxWorkers \in Nat
ASSUME WaysAssumption == Ways \subseteq AllWays

Worker == 1 .. MaxWorkers
None == 0                     \* no worker, and no workspace

VARIABLES
    phase,       \* each worker: "unborn", "scheduled", "running", "ended", "over"
    jobsOf,      \* worker._jobs
    dir,         \* request.workspace_dir of its jobs: the container
    thread,      \* what its pool does with each job: "off", "waiting", "busy"
    fate,        \* what its orchestrator has made of each job
    stop,        \* its orchestrator's _cancel_events
    report,      \* the outcome its run_batch returned
    engineStop,  \* engine._cancel_event
    dl,          \* _dl_worker
    side,        \* _resume_workers
    posted,      \* all_finished signals on their way to the UI thread
    intent,      \* _termination_intent
    paused,      \* _paused_requests: the container of each paused request
    known,       \* keys of _key_to_card
    waitingFor,  \* the worker _release_paused_record waits for
    closing,     \* closeEvent has asked the workers to stop
    up,          \* the application runs
    store,       \* the records of the paused store
    disk,        \* the workspaces that exist
    published,   \* (history) jobs published since Download last named them
    owed,        \* (history) jobs the user paused and has not taken back
    replaced,    \* (history) workers that ran when Download was clicked again
    astray       \* (history) jobs with a thread that no pause may stop

workerVars == <<phase, jobsOf, dir, thread, fate, stop, report>>
batchVars == <<dl, side, posted, intent>>
memoryVars == <<paused, known, waitingFor, closing, up>>
historyVars == <<published, owed, replaced, astray>>
vars == <<workerVars, engineStop, batchVars, memoryVars, store, disk, historyVars>>

Container == 0 .. MaxWorkers
NoRecord == [dir |-> None, card |-> "none", readable |-> TRUE]

(* Every variable keeps its type, and only a worker inside run_batch has   *)
(* threads that work on its jobs.                                          *)
TypeOK ==
    /\ phase \in [Worker -> {"unborn", "scheduled", "running", "ended", "over"}]
    /\ jobsOf \in [Worker -> SUBSET Job]
    /\ dir \in [Worker -> [Job -> Container]]
    /\ thread \in [Worker -> [Job -> {"off", "waiting", "busy"}]]
    /\ fate \in [Worker -> [Job -> {"none", "open", "paused", "completed",
                                    "failed", "cancelled"}]]
    /\ stop \in [Worker -> SUBSET Job]
    /\ report \in [Worker -> {"none", "completed", "cancelled"}]
    /\ engineStop \in BOOLEAN
    /\ dl \in Container /\ side \in SUBSET Worker
    /\ posted \in Seq(Worker)
    /\ intent \in {"none", "pause", "cancel"}
    /\ paused \in [Job -> Container]
    /\ known \in SUBSET Job
    /\ waitingFor \in Container
    /\ closing \in BOOLEAN /\ up \in BOOLEAN
    /\ store \in [Job -> [dir : Container, card : {"none", "full", "bare"},
                          readable : BOOLEAN]]
    /\ disk \in SUBSET (Worker \X Job)
    /\ published \in SUBSET Job /\ owed \in SUBSET Job
    /\ replaced \in SUBSET Worker /\ astray \in SUBSET Job
    /\ \A w \in Worker, j \in Job :
          thread[w][j] # "off" => phase[w] = "running" /\ j \in jobsOf[w]

NoJobs == [j \in Job |-> None]

Init ==
    /\ phase = [w \in Worker |-> "unborn"]
    /\ jobsOf = [w \in Worker |-> {}]
    /\ dir = [w \in Worker |-> NoJobs]
    /\ thread = [w \in Worker |-> [j \in Job |-> "off"]]
    /\ fate = [w \in Worker |-> [j \in Job |-> "none"]]
    /\ stop = [w \in Worker |-> {}]
    /\ report = [w \in Worker |-> "none"]
    /\ engineStop = FALSE
    /\ dl = None /\ side = {} /\ posted = <<>> /\ intent = "none"
    /\ paused = NoJobs /\ known = {} /\ waitingFor = None
    /\ closing = FALSE /\ up = TRUE
    /\ store = [j \in Job |-> NoRecord]
    /\ disk = {} /\ published = {} /\ owed = {}
    /\ replaced = {} /\ astray = {}

-----------------------------------------------------------------------------
Running == {w \in Worker : phase[w] \in {"scheduled", "running"}}
Current == (IF dl = None THEN {} ELSE {dl}) \cup side
Live(w, j) == thread[w][j] # "off"
LiveIn(j) ==
    {w \in Worker : Live(w, j) \/ (phase[w] = "scheduled" /\ j \in jobsOf[w])}
UIFree == up /\ ~closing /\ waitingFor = None

(* _worker_for_key: the batch worker first, then the resumes in order. *)
WorkerForKey(j) ==
    LET have == {w \in Current : j \in jobsOf[w]}
    IN IF have = {} THEN None
       ELSE IF dl \in have THEN dl
       ELSE CHOOSE w \in have : \A v \in have : w <= v

(* The worker of the batch that took the job last. *)
Newest(j) ==
    LET have == {w \in Worker : j \in jobsOf[w]}
    IN IF have = {} THEN None ELSE CHOOSE w \in have : \A v \in have : v <= w

(* Whether live_request_snapshot hands out a request of the worker. *)
CanSnapshot(w, j) ==
    /\ w # None
    /\ phase[w] \in {"running", "ended"}
    /\ fate[w][j] \in {"open", "paused"}

(* The worker that ran the job last has finished it: its card says so, or  *)
(* will once a queued signal has been handled.                             *)
CardOver(j) ==
    \E w \in Worker :
        /\ fate[w][j] \in {"completed", "failed", "cancelled"}
        /\ \A v \in Worker : v > w => j \notin jobsOf[v]

(* _persist_paused_state *)
Persisted(requests, cards) ==
    [j \in Job |->
        IF requests[j] = None THEN NoRecord
        ELSE [dir |-> requests[j], card |-> IF j \in cards THEN "full" ELSE "bare",
              readable |-> TRUE]]

Within(containers) == {d \in disk : d[1] \in containers}

(* A worker is created and its thread scheduled. *)
Launch(w, jobs, where) ==
    /\ w \in Worker /\ phase[w] = "unborn"
    /\ \A v \in Worker : v < w => phase[v] # "unborn"
    /\ phase' = [phase EXCEPT ![w] = "scheduled"]
    /\ jobsOf' = [jobsOf EXCEPT ![w] = jobs]
    /\ dir' = [dir EXCEPT ![w] = where]
    /\ fate' = [fate EXCEPT ![w] = [j \in Job |-> IF j \in jobs THEN "open" ELSE "none"]]
    /\ UNCHANGED <<thread, stop, report>>

-----------------------------------------------------------------------------
(* The workers. *)

RunStarts(w) ==
    /\ phase[w] = "scheduled"
    /\ IF engineStop
       THEN /\ phase' = [phase EXCEPT ![w] = "ended"]
            /\ fate' = [fate EXCEPT ![w] = [j \in Job |->
                           IF j \in jobsOf[w] THEN "cancelled" ELSE "none"]]
            /\ report' = [report EXCEPT ![w] = "cancelled"]
            /\ posted' = Append(posted, w)
            /\ UNCHANGED <<dir, thread, disk, owed>>
       ELSE /\ phase' = [phase EXCEPT ![w] = "running"]
            /\ thread' = [thread EXCEPT ![w] = [j \in Job |->
                             IF j \in jobsOf[w] THEN "waiting" ELSE "off"]]
            /\ dir' = [dir EXCEPT ![w] = [j \in Job |->
                          IF j \in jobsOf[w] /\ @[j] = None THEN w ELSE @[j]]]
            /\ disk' = disk \cup {<<w, j>> : j \in {i \in jobsOf[w] : dir[w][i] = None}}
            /\ owed' = owed \ jobsOf[w]
            /\ UNCHANGED <<fate, report, posted>>
    /\ UNCHANGED <<jobsOf, stop, engineStop, dl, side, intent, memoryVars,
                   store, published, replaced, astray>>

Stopped(w, j) == engineStop \/ j \in stop[w]

Becomes(w, j, t, f) ==
    /\ thread' = [thread EXCEPT ![w][j] = t]
    /\ fate' = [fate EXCEPT ![w][j] = f]
    /\ UNCHANGED <<phase, jobsOf, dir, stop, report, engineStop, batchVars,
                   memoryVars, store>>

Begin(w, j) ==
    /\ thread[w][j] = "waiting" /\ ~Stopped(w, j)
    /\ Becomes(w, j, "busy", fate[w][j])
    /\ disk' = disk \cup {<<dir[w][j], j>>}
    /\ UNCHANGED historyVars

Publish(w, j) ==
    /\ thread[w][j] = "busy" /\ ~Stopped(w, j)
    /\ Becomes(w, j, "off", "completed")
    /\ disk' = disk \ {<<dir[w][j], j>>}
    /\ published' = published \cup {j}
    /\ UNCHANGED <<owed, replaced, astray>>

Error(w, j) ==
    /\ thread[w][j] = "busy"
    /\ Becomes(w, j, "off", IF fate[w][j] = "open" THEN "failed" ELSE fate[w][j])
    /\ UNCHANGED <<disk, historyVars>>

Quit(w, j) ==
    /\ Live(w, j) /\ Stopped(w, j)
    /\ Becomes(w, j, "off", IF fate[w][j] = "open" THEN "cancelled" ELSE fate[w][j])
    /\ UNCHANGED <<disk, historyVars>>

(* The end of run_batch: it removes its own container only if nothing in   *)
(* it was stopped.                                                         *)
RunEnds(w) ==
    /\ phase[w] = "running"
    /\ phase' = [phase EXCEPT ![w] = "ended"]
    /\ report' = [report EXCEPT ![w] = IF engineStop THEN "cancelled" ELSE "completed"]
    /\ posted' = Append(posted, w)
    /\ disk' = IF engineStop \/ stop[w] # {} THEN disk ELSE disk \ Within({w})
    /\ UNCHANGED <<jobsOf, dir, thread, fate, stop, engineStop, dl, side, intent,
                   memoryVars, store, historyVars>>

(* A pool that is not waited for. *)
NotWaited(w) == TRUE

(* The pool has been drained. *)
PoolDrained(w) == \A j \in Job : ~Live(w, j)

Drain(w) == PoolDrained(w) /\ RunEnds(w)

-----------------------------------------------------------------------------
(* Starting, pausing and resuming, all on the UI thread. *)

StartBatch(S) ==
    /\ UIFree /\ S \in Selections /\ S # {}
    /\ dl = None \/ "again" \in Ways
    /\ \/ "restart" \in Ways
       \/ \A j \in S : paused[j] = None /\ LiveIn(j) = {}
    /\ \E w \in Worker : Launch(w, S, NoJobs) /\ dl' = w
    /\ engineStop' = FALSE
    /\ intent' = "none"
    /\ known' = S
    /\ published' = published \ S
    /\ replaced' = IF dl \in Running THEN replaced \cup {dl} ELSE replaced
    /\ astray' = astray \cup {j \in S : paused[j] # None \/ LiveIn(j) # {}}
    /\ UNCHANGED <<side, posted, paused, waitingFor, closing, up, store, disk, owed>>

(* Of the jobs paused now, those whose pause went to an older worker than  *)
(* the one that has them by now are astray.                                *)
Owe(jobs) ==
    /\ owed' = IF intent = "cancel" THEN owed
               ELSE owed \cup {j \in jobs : <<dir[WorkerForKey(j)][j], j>> \in disk}
    /\ astray' = astray \cup {j \in jobs : WorkerForKey(j) # Newest(j)}
    /\ UNCHANGED replaced

(* A pause that takes the snapshot and leaves the job running. *)
CancelNothing(extra) == UNCHANGED stop

(* worker.cancel_track of each worker's paused jobs. *)
CancelTracks(extra) == stop' = [w \in Worker |-> stop[w] \cup extra[w]]

Only(w, j) == [v \in Worker |-> IF v = w THEN {j} ELSE {}]

(* pause_track without the write to the store. *)
PauseUnsaved(j) ==
    LET w == WorkerForKey(j)
    IN /\ UIFree
       /\ \E v \in Worker : thread[v][j] = "busy" /\ fate[v][j] = "open"
       /\ CanSnapshot(w, j)
       /\ w = Newest(j) \/ "twice" \in Ways
       /\ fate' = [fate EXCEPT ![w][j] = "paused"]
       /\ CancelTracks(Only(w, j))
       /\ paused' = [paused EXCEPT ![j] = dir[w][j]]
       /\ Owe({j})
       /\ UNCHANGED <<phase, jobsOf, dir, thread, report, engineStop, batchVars,
                      known, waitingFor, closing, up, store, disk, published>>

PauseTrack(j) ==
    LET w == WorkerForKey(j)
    IN /\ UIFree
       /\ \E v \in Worker : thread[v][j] = "busy" /\ fate[v][j] = "open"
       /\ CanSnapshot(w, j)
       /\ w = Newest(j) \/ "twice" \in Ways
       /\ fate' = [fate EXCEPT ![w][j] = "paused"]
       /\ CancelTracks(Only(w, j))
       /\ paused' = [paused EXCEPT ![j] = dir[w][j]]
       /\ store' = Persisted(paused', known)
       /\ Owe({j})
       /\ UNCHANGED <<phase, jobsOf, dir, thread, report, engineStop, batchVars,
                      known, waitingFor, closing, up, disk, published>>

(* worker.cancel() of every running worker. *)
StopAll(extra) ==
    /\ engineStop' = TRUE
    /\ stop' = [w \in Worker |->
                  stop[w] \cup extra[w]
                  \cup (IF w \in Current /\ phase[w] = "running" THEN jobsOf[w] ELSE {})]

(* late: the cards whose last status is still a queued signal. *)
GlobalPause(late) ==
    LET workers == Current \cap Running
        seen == {j \in UNION {jobsOf[w] : w \in workers} :
                    j \in late \/ ~(j \in known /\ CardOver(j))}
        taken == {j \in seen : CanSnapshot(WorkerForKey(j), j)}
        takenIn == [w \in Worker |-> {j \in taken : WorkerForKey(j) = w}]
    IN /\ UIFree
       /\ workers # {}
       /\ \A j \in seen : WorkerForKey(j) = Newest(j) \/ "twice" \in Ways
       /\ intent' = IF intent = "none" THEN "pause" ELSE intent
       /\ paused' = [j \in Job |-> IF j \in taken THEN dir[WorkerForKey(j)][j] ELSE paused[j]]
       /\ fate' = [w \in Worker |-> [j \in Job |->
                     IF j \in takenIn[w] THEN "paused" ELSE fate[w][j]]]
       /\ StopAll(takenIn)
       /\ store' = Persisted(paused', known)
       /\ Owe(taken)
       /\ UNCHANGED <<phase, jobsOf, dir, thread, report, dl, side, posted,
                      known, waitingFor, closing, up, disk, published>>

ResumeTrack(j) ==
    /\ UIFree /\ paused[j] # None
    /\ LiveIn(j) = {} \/ "early" \in Ways
    /\ ~engineStop \/ "single" \in Ways
    /\ \E w \in Worker :
          /\ Launch(w, {j}, [NoJobs EXCEPT ![j] = paused[j]])
          /\ side' = side \cup {w}
          /\ waitingFor' = w
    /\ paused' = [paused EXCEPT ![j] = None]
    /\ known' = known \cup {j}
    /\ UNCHANGED <<engineStop, dl, posted, intent, closing, up, store, disk,
                   historyVars>>

(* resume_all that stacks a second batch. *)
NeverRunning == FALSE

BatchRunning == dl \in Running

ResumeAll ==
    LET jobs == {j \in Job : paused[j] # None}
    IN /\ UIFree /\ jobs # {}
       /\ ~BatchRunning
       /\ \A j \in jobs : LiveIn(j) = {} \/ "early" \in Ways
       /\ \E w \in Worker :
             /\ Launch(w, jobs, paused)
             /\ dl' = w
             /\ waitingFor' = w
       /\ paused' = NoJobs
       /\ engineStop' = FALSE
       /\ intent' = "none"
       /\ UNCHANGED <<side, posted, known, closing, up, store, disk, historyVars>>

(* Dropping the record on the strength of start() alone. *)
ReleaseAtOnce ==
    /\ waitingFor # None
    /\ waitingFor' = None
    /\ store' = Persisted(paused, known)
    /\ UNCHANGED <<workerVars, engineStop, batchVars, paused, known, closing, up,
                   disk, historyVars>>

(* _release_paused_record: the record goes once the worker has entered     *)
(* run(), and stays if that takes too long.                                *)
Release ==
    /\ waitingFor # None
    /\ phase[waitingFor] # "scheduled"
    /\ waitingFor' = None
    /\ store' = Persisted(paused, known)
    /\ UNCHANGED <<workerVars, engineStop, batchVars, paused, known, closing, up,
                   disk, historyVars>>

ReleaseTimesOut ==
    /\ "slow" \in Ways
    /\ waitingFor # None
    /\ waitingFor' = None
    /\ UNCHANGED <<workerVars, engineStop, batchVars, paused, known, closing, up,
                   store, disk, historyVars>>

-----------------------------------------------------------------------------
(* Cancelling everything, and the end of a worker. *)

DiscardAndStop ==
    LET held == {j \in Job : paused[j] # None}
        revoked == {j \in held : CanSnapshot(WorkerForKey(j), j)
                                 /\ fate[WorkerForKey(j)][j] = "paused"}
        unowned == {j \in held : WorkerForKey(j) \notin Running}
    IN /\ fate' = [w \in Worker |-> [j \in Job |->
                     IF j \in revoked /\ WorkerForKey(j) = w THEN "cancelled"
                     ELSE fate[w][j]]]
       /\ intent' = "cancel"
       /\ paused' = NoJobs
       /\ store' = IF held = {} THEN store ELSE Persisted(paused', known)
       /\ disk' = disk \ Within({paused[j] : j \in unowned})
       /\ StopAll([w \in Worker |-> {}])

CancelAll ==
    /\ UIFree
    /\ DiscardAndStop
    /\ owed' = {}
    /\ UNCHANGED <<phase, jobsOf, dir, thread, report, dl, side, posted, known,
                   waitingFor, closing, up, published, replaced, astray>>

(* The intent is forgotten by whichever worker ends first. *)
FirstForgetsIntent(w) == TRUE

(* No other worker is active: the whole download is over. *)
LastWorker(w) == dl \in {None, w} /\ side \subseteq {w}

(* _on_batch_done, then _finish_resume_worker. *)
BatchDone ==
    LET w == Head(posted)
        current == w = dl \/ (dl = None /\ w \in side)
        outcome == IF intent = "none" THEN report[w]
                   ELSE IF intent = "cancel" THEN "cancelled" ELSE "paused"
        abandon == current /\ outcome = "cancelled"
        dropped == {j \in jobsOf[w] : paused[j] # None}
    IN /\ up /\ waitingFor = None /\ posted # <<>>
       /\ posted' = Tail(posted)
       /\ phase' = [phase EXCEPT ![w] = "over"]
       /\ dl' = IF w = dl THEN None ELSE dl
       /\ side' = side \ {w}
       /\ intent' = IF current /\ LastWorker(w) THEN "none" ELSE intent
       /\ IF abandon
          THEN /\ paused' = [j \in Job |-> IF j \in dropped THEN None ELSE paused[j]]
               /\ store' = IF dropped = {} THEN store ELSE Persisted(paused', known)
               /\ disk' = disk \ Within({dir[w][j] : j \in jobsOf[w]})
          ELSE UNCHANGED <<paused, store, disk>>
       /\ UNCHANGED <<jobsOf, dir, thread, fate, stop, report, engineStop, known,
                      waitingFor, closing, up, historyVars>>

-----------------------------------------------------------------------------
(* The end of the application and its next start. *)

Dies ==
    /\ phase' = [w \in Worker |-> IF phase[w] = "unborn" THEN "unborn" ELSE "over"]
    /\ thread' = [w \in Worker |-> [j \in Job |-> "off"]]
    /\ jobsOf' = [w \in Worker |-> {}]
    /\ dir' = [w \in Worker |-> NoJobs]
    /\ fate' = [w \in Worker |-> [j \in Job |-> "none"]]
    /\ stop' = [w \in Worker |-> {}]
    /\ report' = [w \in Worker |-> "none"]
    /\ engineStop' = FALSE
    /\ dl' = None /\ side' = {} /\ posted' = <<>> /\ intent' = "none"
    /\ paused' = NoJobs /\ known' = {} /\ waitingFor' = None
    /\ closing' = FALSE /\ up' = FALSE
    /\ replaced' = {} /\ astray' = {}
    /\ UNCHANGED <<store, disk, published, owed>>

Crash == up /\ Dies

(* closeEvent: request_shutdown cancels everything and is asked again      *)
(* until no worker runs.                                                   *)
Close ==
    /\ "close" \in Ways /\ UIFree
    /\ DiscardAndStop
    /\ closing' = TRUE
    /\ UNCHANGED <<phase, jobsOf, dir, thread, report, dl, side, posted, known,
                   waitingFor, up, historyVars>>

Exit == closing /\ Current \cap Running = {} /\ Dies

Corrupt(j) ==
    /\ "corrupt" \in Ways
    /\ ~up /\ store[j].dir # None
    /\ store' = [store EXCEPT ![j].readable = FALSE]
    /\ UNCHANGED <<workerVars, engineStop, batchVars, memoryVars, disk, historyVars>>

Recorded == {j \in Job : store[j].dir # None}
Readable == {j \in Recorded : store[j].readable}

(* The sweep that takes a file it could not read in full for an empty one. *)
SweepAnyway == Within({store[j].dir : j \in Readable})

(* sweep_stale_workspaces, skipped when a record could not be read. *)
Swept == IF Recorded = Readable THEN Within({store[j].dir : j \in Readable}) ELSE disk

(* restore_paused_on_startup: sweep, restore, and if anything could be     *)
(* read save what was restored.                                            *)
Startup ==
    LET back == {j \in Readable : <<store[j].dir, j>> \in Swept}
    IN /\ ~up
       /\ up' = TRUE
       /\ disk' = Swept
       /\ paused' = [j \in Job |-> IF j \in back THEN store[j].dir ELSE None]
       /\ known' = {j \in back : store[j].card = "full"}
       /\ store' = IF Readable = {} THEN store ELSE Persisted(paused', known')
       /\ UNCHANGED <<workerVars, engineStop, batchVars, waitingFor, closing,
                      historyVars>>

-----------------------------------------------------------------------------
WorkerStep(w) ==
    \/ RunStarts(w) \/ Drain(w)
    \/ \E j \in jobsOf[w] : Begin(w, j) \/ Publish(w, j) \/ Error(w, j) \/ Quit(w, j)

Next ==
    \/ \E w \in Worker : WorkerStep(w)
    \/ \E S \in Selections : StartBatch(S)
    \/ \E j \in Job : PauseTrack(j) \/ ResumeTrack(j) \/ Corrupt(j)
    \/ \E late \in SUBSET {j \in Job : CardOver(j)} : GlobalPause(late)
    \/ ResumeAll \/ Release \/ ReleaseTimesOut
    \/ CancelAll \/ BatchDone
    \/ Crash \/ Close \/ Exit \/ Startup

Spec == Init /\ [][Next]_vars

-----------------------------------------------------------------------------
(* Properties.                                                             *)

(* What the user paused keeps its files: until it is resumed or cancelled, *)
(* its workspace is on disk through every clean-up, crash and sweep.       *)
StillThere ==
    \A j \in owed \ published : \E w \in Worker : <<w, j>> \in disk

(* What the user paused is offered again: in memory while the application  *)
(* runs - or in the hands of a worker about to run it - and in the store,  *)
(* so that a crash at any moment restores it.                              *)
StillOffered ==
    \A j \in owed \ published :
        /\ store[j].dir # None
        /\ up => paused[j] # None \/ \E w \in Worker :
                                      phase[w] = "scheduled" /\ j \in jobsOf[w]

(* "A PARTIAL keep-set is just as dangerous as an empty one"               *)
(* (restore_paused_on_startup): no start removes a workspace that a record *)
(* of the store names, readable or not.                                    *)
SweepSparesRecords ==
    [][up' /\ ~up => \A j \in Recorded :
          <<store[j].dir, j>> \in disk => <<store[j].dir, j>> \in disk']_vars

(* The store and the memory agree whenever the UI thread is at rest, and a *)
(* record names the workspace the paused request really uses.              *)
StoreMatches ==
    up /\ waitingFor = None => \A j \in Job : store[j].dir = paused[j]

(* "Covers every running worker" (global_pause): every worker that runs is *)
(* one that pause, cancel and shutdown can reach.                          *)
WorkersReachable == Running \subseteq Current \cup replaced

(* "A card reading 'paused' over a download that is still running"         *)
(* (pause_track) never happens: whatever thread still works on a paused    *)
(* job has been told to stop.                                              *)
PausedIsStopped ==
    \A j \in Job \ astray : paused[j] # None =>
        \A w \in Worker : thread[w][j] = "busy" => Stopped(w, j)

(* "two parallel jobs ... never collide in temporary or intermediate       *)
(* storage" (run_batch): no two threads work in one workspace.             *)
OneThreadPerWorkspace ==
    \A w, v \in Worker, j \in Job :
        thread[w][j] = "busy" /\ thread[v][j] = "busy" /\ dir[w][j] = dir[v][j]
        => w = v

(* "deleting a .part file out from under a job that is still shutting down *)
(* is the one thing this must not do" (_discard_paused_requests).          *)
KeepsBusyWorkspaces ==
    [][\A w \in Worker, j \in Job :
          thread[w][j] = "busy" /\ thread'[w][j] = "busy" => <<dir[w][j], j>> \in disk']_vars

(* "an early-finishing resume that was itself cancelled ... must have its  *)
(* own abandoned workspace swept immediately" (_on_batch_done).            *)
AbandonedIsSwept ==
    [][posted # <<>> /\ posted' = Tail(posted) /\ up' /\ intent = "cancel"
          /\ Head(posted) \in side =>
          \A j \in jobsOf[Head(posted)] : <<dir[Head(posted)][j], j>> \notin disk']_vars

(* A record is "everything needed to rebuild" the card and its resolver    *)
(* (core/paused_batch_store.py, _card_to_dict).                            *)
RecordsKeepCards ==
    \A j \in Job : store[j].card # "bare"

(* "Completed ... cards were never captured ..., so they are not re-run"   *)
(* (resume_all).                                                           *)
PausedIsUnfinished ==
    \A j \in Job : paused[j] # None => j \notin published
=============================================================================
