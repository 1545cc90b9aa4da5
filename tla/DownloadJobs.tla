---------------------------- MODULE DownloadJobs ----------------------------
(***************************************************************************)
(* How the jobs of one batch are disposed of: the pool threads, run_batch  *)
(* and the UI thread of core/download_orchestrator.py racing for the       *)
(* outcome of each job, with the publish step of core/downloader.py and    *)
(* the job states of core/batch_progress.py.                               *)
(*                                                                         *)
(* A job ends completed, failed, cancelled or paused.  Who decides is      *)
(* settled by a first-writer-wins claim under the job's own lock.  The UI  *)
(* pauses a track, pauses everything, or cancels everything (the methods   *)
(* of ui/controllers/download_controller.py); a job that was paused is     *)
(* captured as a request that a later Resume can run again.                *)
(*                                                                         *)
(* A report of an outcome is three steps under three locks: the claim (the *)
(* job's lock), the counter (_progress_lock) and the state (the            *)
(* aggregator's lock); other threads come between any two of them.         *)
(*                                                                         *)
(* Admission to the network is DownloadAdmission's subject: here a thread  *)
(* simply gets to its engine or is stopped before it.                      *)
(***************************************************************************)
EXTENDS Naturals, FiniteSets

CONSTANTS
    Job,        \* the keys of the batch
    Lazy,       \* jobs whose request still carries a url_resolver
    NoJob,      \* no job lock is held by the UI thread
    MaxClicks,  \* bound: how often the user pauses or cancels
    MaxTries    \* engine attempts and publish attempts of one job

ASSUME JobAssumption == IsFiniteSet(Job)
ASSUME LazyAssumption == Lazy \subseteq Job
ASSUME NoJobAssumption == NoJob \notin Job
ASSUME BoundAssumption == MaxClicks \in Nat /\ MaxTries \in Nat

VARIABLES
    main,       \* how far run_batch is
    swept,      \* what cancel_outstanding returned to it
    workspace,  \* the batch container, with every unfinished download, exists
    pc,         \* where each job's pool thread is
    tries,      \* attempts the thread has used up
    request,    \* _active_requests[key]: what the live request can run from
    resolving,  \* _resolving_keys, each with its pre-resolve copy
    outcome,    \* _job_outcomes
    state,      \* the aggregator's JobState
    file,       \* where the job's finished file is
    jobStop,    \* _cancel_events
    engineStop, \* engine._cancel_event
    completed, failed, cancelled,  \* the counters of the BatchResult
    owed,       \* states run_batch or the UI has set and not yet counted
    due,        \* who is about to compute the x-of-total counter
    saying,     \* computed counters on their way to the UI
    shown,      \* the last counter the UI was given
    click,      \* what the UI thread is busy with
    todo,       \* the jobs it still has to visit
    held,       \* the job whose lock it holds inside live_request_snapshot
    taken,      \* the job it has just captured and is about to stop
    captured,   \* _paused_requests: what each paused snapshot can run from
    refused,    \* (history) jobs alive when a pause was refused
    discarded,  \* (history) the user has cancelled everything
    clicks

batchVars == <<main, swept, workspace>>
threadVars == <<pc, tries, file>>
requestVars == <<request, resolving>>
stopVars == <<jobStop, engineStop>>
countVars == <<completed, failed, cancelled>>
tellVars == <<owed, due, saying, shown>>
uiVars == <<click, todo, held, taken, captured, refused, discarded, clicks>>
vars == <<batchVars, threadVars, requestVars, outcome, state, stopVars,
          countVars, tellVars, uiVars>>

Terminal == {"COMPLETED", "FAILED", "CANCELLED"}
States == Terminal \cup {"QUEUED", "ACTIVE", "PAUSED"}
PCs == {"queued", "matching", "unmatched", "ready", "engine", "publishing",
        "checked", "gated", "copying", "copied", "regated", "published",
        "finishing", "completing", "returned", "erred",
        "failing", "losing", "lost", "stopping", "cancelling", "leaving", "done"}
Requests == {"resolver", "consumed", "unmatched", "url"}
Teller == Job \cup {"main", "ui"}

TypeOK ==
    /\ main \in {"starting", "preparing", "running", "sweeping", "cleaning",
                "finished"}
    /\ swept \in SUBSET Job
    /\ workspace \in BOOLEAN
    /\ pc \in [Job -> PCs]
    /\ tries \in [Job -> 0 .. MaxTries]
    /\ request \in [Job -> Requests]
    /\ resolving \in SUBSET Job
    /\ outcome \in [Job -> {"none", "paused", "terminal"}]
    /\ state \in [Job -> States]
    /\ file \in [Job -> {"workspace", "published"}]
    /\ jobStop \in SUBSET Job
    /\ engineStop \in BOOLEAN
    /\ completed \in Nat /\ failed \in Nat /\ cancelled \in Nat
    /\ owed \in SUBSET [by : {"main", "ui"}, what : Terminal]
    /\ due \in SUBSET Teller
    /\ saying \in SUBSET [by : Teller, count : Nat]
    /\ shown \in Nat
    /\ click \in {"none", "pause", "pauseAll", "cancelAll"}
    /\ todo \in SUBSET Job
    /\ held \in Job \cup {NoJob}
    /\ taken \in Job \cup {NoJob}
    /\ captured \in [Job -> Requests \cup {"none"}]
    /\ refused \in SUBSET Job
    /\ discarded \in BOOLEAN
    /\ clicks \in Nat

Init ==
    /\ main = "starting" /\ swept = {} /\ workspace = TRUE
    /\ pc = [j \in Job |-> "queued"]
    /\ tries = [j \in Job |-> 0]
    /\ request = [j \in Job |-> IF j \in Lazy THEN "resolver" ELSE "url"]
    /\ resolving = {}
    /\ outcome = [j \in Job |-> "none"]
    /\ state = [j \in Job |-> "QUEUED"]
    /\ file = [j \in Job |-> "workspace"]
    /\ jobStop = {} /\ engineStop = FALSE
    /\ completed = 0 /\ failed = 0 /\ cancelled = 0
    /\ owed = {} /\ due = {} /\ saying = {} /\ shown = 0
    /\ click = "none" /\ todo = {} /\ held = NoJob /\ taken = NoJob
    /\ captured = [j \in Job |-> "none"]
    /\ refused = {} /\ discarded = FALSE /\ clicks = 0

-----------------------------------------------------------------------------
(* The aggregator: a terminal state is never left. *)

Becomes(j, s) ==
    state' = [state EXCEPT ![j] = IF @ \in Terminal THEN @ ELSE s]

(* complete() that overwrites whatever was there. *)
BecomesAnyway(j, s) == state' = [state EXCEPT ![j] = s]

CompletesAnyway(j) == BecomesAnyway(j, "COMPLETED")
Completes(j) == Becomes(j, "COMPLETED")

(* A progress event of any kind, the final CANCELLED one included, reaches *)
(* update().                                                               *)
Ticks(j) == Becomes(j, "ACTIVE")

(* cancel_outstanding. *)
Outstanding == {j \in Job : state[j] \notin Terminal \cup {"PAUSED"}}

-----------------------------------------------------------------------------
(* _claim_job_outcome: first writer wins, idempotent per outcome.          *)

CanClaim(j, o) == outcome[j] \in {"none", o}
Claim(j, o) == outcome' = [outcome EXCEPT ![j] = o]
Unlocked(j) == held # j

(* A failed commit that keeps the claim. *)
KeepClaim(j) == UNCHANGED outcome

(* _release_job_outcome, called by whoever owns "terminal". *)
Release(j) ==
    outcome' = [outcome EXCEPT ![j] = IF @ = "terminal" THEN "none" ELSE @]

Stopped(j) == j \in jobStop \/ engineStop

(* _emit_job_count: computed under the progress lock, delivered after it.  *)
Tell(who) == due' = due \cup {who}
Owes(who, s) == owed' = owed \cup {[by |-> who, what |-> s]}
Busy(who) == who \in due \/ \E m \in saying \cup owed : m.by = who

(* One more of a kind, under the progress lock.                            *)
Count(s) ==
    /\ completed' = IF s = "COMPLETED" THEN completed + 1 ELSE completed
    /\ failed' = IF s = "FAILED" THEN failed + 1 ELSE failed
    /\ cancelled' = IF s = "CANCELLED" THEN cancelled + 1 ELSE cancelled

At(j, loc) == pc[j] = loc /\ ~Busy(j)
GoTo(j, loc) == pc' = [pc EXCEPT ![j] = loc]

-----------------------------------------------------------------------------
(* A cancellation that does not look whether the job is over already. *)
MarkAnyway(j) ==
    /\ GoTo(j, "stopping")
    /\ UNCHANGED <<tries, file, requestVars, outcome, state, countVars, tellVars>>

(* _mark_cancelled: a look at the state, then the claim. *)
MarkCancelled(j) ==
    /\ GoTo(j, IF state[j] \in Terminal THEN "done" ELSE "stopping")
    /\ UNCHANGED <<tries, file, requestVars, outcome, state, countVars, tellVars>>

ClaimCancelled(j) ==
    /\ At(j, "stopping") /\ Unlocked(j)
    /\ IF CanClaim(j, "terminal")
       THEN Claim(j, "terminal") /\ GoTo(j, "cancelling")
       ELSE UNCHANGED outcome /\ GoTo(j, "done")
    /\ UNCHANGED <<batchVars, tries, file, requestVars, state, stopVars,
                   countVars, tellVars, uiVars>>

(* The job's counter goes up, and then the thread is at "to". *)
CountAt(j, from, s, to) ==
    /\ At(j, from)
    /\ Count(s)
    /\ GoTo(j, to)
    /\ UNCHANGED <<batchVars, tries, file, requestVars, outcome, state,
                   stopVars, owed, saying, shown, uiVars>>

(* The aggregator is told, and then the thread is at "to". *)
SettleAt(j, from, to) ==
    /\ At(j, from)
    /\ GoTo(j, to)
    /\ UNCHANGED <<batchVars, tries, file, requestVars, outcome, stopVars,
                   countVars, owed, saying, shown, uiVars>>

(* A cancelled job is settled first and counted second. *)
SettleCancelled(j) ==
    SettleAt(j, "cancelling", "leaving") /\ Becomes(j, "CANCELLED") /\ UNCHANGED due
CountCancelled(j) == CountAt(j, "leaving", "CANCELLED", "done") /\ Tell(j)

(* The points at which a thread looks at its cancel events. *)
Polls == {"queued", "matching", "ready", "returned", "erred"}

NoticeStop(j) ==
    /\ main = "running"
    /\ \E loc \in Polls : At(j, loc)
    /\ j \notin resolving
    /\ Stopped(j)
    /\ MarkCancelled(j)
    /\ UNCHANGED <<batchVars, stopVars, uiVars>>

(* A queued job of a stopped batch that is never submitted at all. *)
NeverSubmitted(j) ==
    /\ main = "running" /\ At(j, "queued") /\ engineStop
    /\ GoTo(j, "done")
    /\ UNCHANGED <<batchVars, tries, file, requestVars, outcome, state,
                   stopVars, countVars, tellVars, uiVars>>

-----------------------------------------------------------------------------
(* Matching a lazy request. *)

Begin(j) ==
    /\ main = "running" /\ At(j, "queued") /\ ~Stopped(j)
    /\ Unlocked(j)
    /\ IF request[j] = "resolver"
       THEN /\ request' = [request EXCEPT ![j] = "consumed"]
            /\ resolving' = resolving \cup {j}
            /\ GoTo(j, "matching")
       ELSE /\ GoTo(j, "ready")
            /\ UNCHANGED requestVars
    /\ UNCHANGED <<batchVars, tries, file, outcome, state, stopVars, countVars,
                   tellVars, uiVars>>

(* The resolver comes back: with an address, or without one because it was *)
(* stopped, found nothing, or raised an error that the batch's own thread  *)
(* will settle.  Either way the pre-resolve copy is thrown away.           *)
MatchReturns(j) ==
    /\ At(j, "matching") /\ j \in resolving /\ Unlocked(j)
    /\ resolving' = resolving \ {j}
    /\ \E found \in {"url", "unmatched"} :
        /\ request' = [request EXCEPT ![j] = found]
        /\ GoTo(j, IF Stopped(j) THEN "matching"
                   ELSE IF found = "url" THEN "ready" ELSE "unmatched")
    /\ UNCHANGED <<batchVars, tries, file, outcome, state, stopVars, countVars,
                   tellVars, uiVars>>

(* An empty result is replaced by a search request. *)
RepairMatch(j) ==
    /\ At(j, "unmatched")
    /\ request' = [request EXCEPT ![j] = "url"]
    /\ GoTo(j, "ready")
    /\ UNCHANGED <<batchVars, tries, file, resolving, outcome, state, stopVars,
                   countVars, tellVars, uiVars>>

(* _settle_unhandled_exception. *)
SettleUnmatched(j) ==
    /\ At(j, "unmatched")
    /\ IF Stopped(j)
       THEN MarkCancelled(j)
       ELSE /\ GoTo(j, "failing")
            /\ UNCHANGED <<tries, file, requestVars, outcome, state, countVars,
                           tellVars>>
    /\ UNCHANGED <<batchVars, stopVars, uiVars>>

-----------------------------------------------------------------------------
(* The engine. *)

StartEngine(j) ==
    /\ At(j, "ready") /\ ~Stopped(j)
    /\ Ticks(j)
    /\ GoTo(j, "engine")
    /\ UNCHANGED <<batchVars, tries, file, requestVars, outcome, stopVars,
                   countVars, tellVars, uiVars>>

(* A progress event while bytes move or a file is processed. *)
Progress(j) ==
    /\ At(j, "engine")
    /\ Ticks(j)
    /\ UNCHANGED <<batchVars, threadVars, requestVars, outcome, stopVars,
                   countVars, tellVars, uiVars>>

(* The engine gives up because it was stopped, or because the publish gate *)
(* refused; the CANCELLED event it fires is a progress event too.          *)
Aborts(j) ==
    /\ Ticks(j)
    /\ GoTo(j, "returned")
    /\ UNCHANGED outcome

EngineStops(j) ==
    /\ At(j, "engine") \/ At(j, "publishing") \/ At(j, "copying")
    /\ Stopped(j)
    /\ Aborts(j)
    /\ UNCHANGED <<batchVars, tries, file, requestVars, stopVars, countVars,
                   tellVars, uiVars>>

(* yt-dlp, the processing or the staging of a cross-volume copy fails.     *)
EngineFails(j) ==
    /\ At(j, "engine") \/ At(j, "copying")
    /\ GoTo(j, "erred")
    /\ UNCHANGED <<batchVars, tries, file, requestVars, outcome, state,
                   stopVars, countVars, tellVars, uiVars>>

(* The file is complete and processed; the last look at the events. *)
Advance(j, from, to) ==
    /\ At(j, from) /\ ~Stopped(j)
    /\ GoTo(j, to)
    /\ UNCHANGED <<batchVars, tries, file, requestVars, outcome, state,
                   stopVars, countVars, tellVars, uiVars>>

FileReady(j) == Advance(j, "engine", "publishing")
CheckStop(j) == Advance(j, "publishing", "checked")
CopyEnds(j) == Advance(j, "copying", "copied")

(* The gate: the claim that has to precede the rename. *)
PassAnyGate(j, gated) == GoTo(j, gated) /\ UNCHANGED <<outcome, state>>

PassGate(j, gated) ==
    \/ /\ CanClaim(j, "terminal")
       /\ Claim(j, "terminal")
       /\ GoTo(j, gated)
       /\ UNCHANGED state
    \/ /\ ~CanClaim(j, "terminal")
       /\ Aborts(j)

AskGate(j) ==
    /\ Unlocked(j)
    /\ \/ At(j, "checked") /\ PassGate(j, "gated")
       \/ At(j, "copied") /\ PassGate(j, "regated")
    /\ UNCHANGED <<batchVars, tries, file, requestVars, stopVars, countVars,
                   tellVars, uiVars>>

Rename(j) ==
    /\ At(j, "gated") \/ At(j, "regated")
    /\ file' = [file EXCEPT ![j] = "published"]
    /\ GoTo(j, "published")
    /\ UNCHANGED <<batchVars, tries, requestVars, outcome, state, stopVars,
                   countVars, tellVars, uiVars>>

(* The rename commits nothing: another volume, a locked target that is     *)
(* tried again, or an error.                                               *)
RenameFails(j) ==
    /\ Unlocked(j)
    /\ \/ At(j, "gated") /\ GoTo(j, "copying") /\ UNCHANGED tries
       \/ /\ At(j, "gated") \/ At(j, "regated")
          /\ tries[j] < MaxTries
          /\ tries' = [tries EXCEPT ![j] = @ + 1]
          /\ GoTo(j, "publishing")
       \/ /\ At(j, "gated") \/ At(j, "regated")
          /\ GoTo(j, "erred")
          /\ UNCHANGED tries
    /\ Release(j)
    /\ UNCHANGED <<batchVars, file, requestVars, state, stopVars, countVars,
                   tellVars, uiVars>>

-----------------------------------------------------------------------------
(* on_finished, on_error and the loop around the engine. *)

OnFinished(j) ==
    /\ At(j, "published") /\ Unlocked(j)
    /\ IF CanClaim(j, "terminal")
       THEN Claim(j, "terminal") /\ GoTo(j, "finishing")
       ELSE UNCHANGED outcome /\ GoTo(j, "returned")
    /\ UNCHANGED <<batchVars, tries, file, requestVars, state, stopVars,
                   countVars, tellVars, uiVars>>

(* A finished job is counted first and settled second. *)
CountFinished(j) == CountAt(j, "finishing", "COMPLETED", "completing") /\ UNCHANGED due
SettleFinished(j) ==
    SettleAt(j, "completing", "returned") /\ Completes(j) /\ Tell(j)

Return(j) ==
    /\ At(j, "returned") /\ ~Stopped(j)
    /\ GoTo(j, "done")
    /\ UNCHANGED <<batchVars, tries, file, requestVars, outcome, state,
                   stopVars, countVars, tellVars, uiVars>>

(* A retry that has lost count of its attempts. *)
RetryForever(j) ==
    /\ At(j, "erred") /\ ~Stopped(j)
    /\ tries' = [tries EXCEPT ![j] = @ + 1]
    /\ GoTo(j, "ready")
    /\ UNCHANGED <<batchVars, file, requestVars, outcome, state, stopVars,
                   countVars, tellVars, uiVars>>

(* retry_download tries again, or runs out of attempts. *)
Retry(j) ==
    /\ At(j, "erred") /\ ~Stopped(j)
    /\ \/ /\ tries[j] < MaxTries
          /\ tries' = [tries EXCEPT ![j] = @ + 1]
          /\ GoTo(j, "ready")
       \/ GoTo(j, "failing") /\ UNCHANGED tries
    /\ UNCHANGED <<batchVars, file, requestVars, outcome, state, stopVars,
                   countVars, tellVars, uiVars>>

(* A failure reported without asking who owns the job. *)
FailAnyway(j) ==
    /\ At(j, "failing") /\ Unlocked(j)
    /\ Claim(j, "terminal")
    /\ GoTo(j, "losing")
    /\ UNCHANGED <<batchVars, tries, file, requestVars, state, stopVars,
                   countVars, tellVars, uiVars>>

OnError(j) ==
    /\ At(j, "failing") /\ Unlocked(j)
    /\ IF CanClaim(j, "terminal")
       THEN Claim(j, "terminal") /\ GoTo(j, "losing")
       ELSE UNCHANGED outcome /\ GoTo(j, "done")
    /\ UNCHANGED <<batchVars, tries, file, requestVars, state, stopVars,
                   countVars, tellVars, uiVars>>

CountFailed(j) == CountAt(j, "losing", "FAILED", "lost") /\ UNCHANGED due
SettleFailed(j) ==
    SettleAt(j, "lost", "done") /\ Becomes(j, "FAILED") /\ Tell(j)

Compute(who) ==
    /\ who \in due
    /\ due' = due \ {who}
    /\ saying' = saying \cup {[by |-> who, count |-> completed + failed + cancelled]}
    /\ UNCHANGED <<batchVars, threadVars, requestVars, outcome, state, stopVars,
                   countVars, owed, shown, uiVars>>

(* A state that run_batch or cancel_paused_job has set is counted. *)
CountOwed(o) ==
    /\ o \in owed
    /\ owed' = owed \ {o}
    /\ Count(o.what)
    /\ Tell(o.by)
    /\ UNCHANGED <<batchVars, threadVars, requestVars, outcome, state, stopVars,
                   saying, shown, uiVars>>

Deliver(m) ==
    /\ m \in saying
    /\ saying' = saying \ {m}
    /\ shown' = m.count
    /\ UNCHANGED <<batchVars, threadVars, requestVars, outcome, state, stopVars,
                   countVars, owed, due, uiVars>>

-----------------------------------------------------------------------------
(* run_batch: it looks at the engine's event before it registers anything, *)
(* registers every job, waits for the threads and sweeps what is left.     *)

LookAtEngine ==
    /\ main = "starting"
    /\ IF engineStop
       THEN /\ main' = "finished"
            /\ state' = [j \in Job |-> "CANCELLED"]
            /\ pc' = [j \in Job |-> "done"]
       ELSE main' = "preparing" /\ UNCHANGED <<state, pc>>
    /\ UNCHANGED <<swept, workspace, tries, file, requestVars, outcome, stopVars,
                   countVars, tellVars, uiVars>>

(* A job whose private workspace cannot be created never reaches the pool. *)
NoWorkspace(j) ==
    /\ main = "preparing" /\ ~Busy("main") /\ pc[j] = "queued"
    /\ Becomes(j, "FAILED")
    /\ Owes("main", "FAILED")
    /\ GoTo(j, "done")
    /\ UNCHANGED <<batchVars, tries, file, requestVars, outcome, stopVars,
                   countVars, due, saying, shown, uiVars>>

(* Nor does one whose file the user already has.                           *)
Preexisting(j) ==
    /\ main = "preparing" /\ ~Busy("main") /\ pc[j] = "queued"
    /\ Completes(j)
    /\ Owes("main", "COMPLETED")
    /\ file' = [file EXCEPT ![j] = "published"]
    /\ GoTo(j, "done")
    /\ UNCHANGED <<batchVars, tries, requestVars, outcome, stopVars, countVars,
                   due, saying, shown, uiVars>>

Register ==
    /\ main = "preparing" /\ ~Busy("main")
    /\ main' = "running"
    /\ UNCHANGED <<swept, workspace, threadVars, requestVars, outcome, state, stopVars,
                   countVars, tellVars, uiVars>>

Drain ==
    /\ main = "running"
    /\ \A j \in Job : At(j, "done")
    /\ IF engineStop
       THEN /\ main' = "sweeping"
            /\ swept' = Outstanding
            /\ state' = [j \in Job |-> IF j \in Outstanding THEN "CANCELLED"
                                       ELSE state[j]]
       ELSE main' = "cleaning" /\ UNCHANGED <<swept, state>>
    /\ UNCHANGED <<workspace, threadVars, requestVars, outcome, stopVars, countVars,
                   tellVars, uiVars>>

ReportSwept ==
    /\ main = "sweeping"
    /\ main' = "finished"
    /\ LET gone == {j \in swept : outcome[j] # "paused"}
       IN IF gone # {}
          THEN cancelled' = cancelled + Cardinality(gone) /\ Tell("main")
          ELSE UNCHANGED <<cancelled, due>>
    /\ UNCHANGED <<swept, workspace, threadVars, requestVars, outcome, state, stopVars,
                   completed, failed, owed, saying, shown, uiVars>>

(* A batch that was not cancelled as a whole removes its container, unless *)
(* some job of it has been told to stop.                                   *)
CleanUp ==
    /\ main = "cleaning"
    /\ main' = "finished"
    /\ workspace' = (jobStop # {})
    /\ UNCHANGED <<swept, threadVars, requestVars, outcome, state, stopVars,
                   countVars, tellVars, uiVars>>

-----------------------------------------------------------------------------
(* The UI thread.  One click at a time. *)

UIFree == held = NoJob /\ taken = NoJob /\ ~Busy("ui")

Click ==
    /\ UIFree /\ click = "none"
    /\ main # "finished"
    /\ clicks < MaxClicks
    /\ clicks' = clicks + 1
    /\ \/ \E j \in Job : click' = "pause" /\ todo' = {j} /\ UNCHANGED discarded
       \/ click' = "pauseAll" /\ todo' = Job /\ UNCHANGED discarded
       \/ /\ click' = "cancelAll" /\ discarded' = TRUE
          /\ todo' = {j \in Job : captured[j] # "none"}
    /\ UNCHANGED <<batchVars, threadVars, requestVars, outcome, state, stopVars,
                   countVars, tellVars, held, taken, captured, refused>>

Pausing == click \in {"pause", "pauseAll"}
Registered == main \notin {"starting", "preparing"}
Live(j) == state[j] \notin Terminal

(* live_request_snapshot, first half: the claim, under the job's lock. *)
SnapshotClaim(j) ==
    /\ UIFree /\ Pausing /\ j \in todo
    /\ Registered /\ Live(j) /\ CanClaim(j, "paused")
    /\ Claim(j, "paused")
    /\ held' = j
    /\ UNCHANGED <<batchVars, threadVars, requestVars, state, stopVars,
                   countVars, tellVars, click, todo, taken, captured, refused,
                   discarded, clicks>>

SnapshotRefused(j) ==
    /\ UIFree /\ Pausing /\ j \in todo
    /\ ~(Registered /\ Live(j) /\ CanClaim(j, "paused"))
    /\ todo' = todo \ {j}
    /\ refused' = IF Live(j) THEN refused \cup {j} ELSE refused
    /\ UNCHANGED <<batchVars, threadVars, requestVars, outcome, state, stopVars,
                   countVars, tellVars, click, held, taken, captured, discarded,
                   clicks>>

(* The request as it is, even while its match is running. *)
RequestAsItIs(j) == request[j]

(* The request a Resume can run: the pre-resolve copy while the match is   *)
(* still running.                                                          *)
Snapshot(j) == IF j \in resolving THEN "resolver" ELSE request[j]

(* Second half: PAUSED is recorded, the copy taken and the lock released. *)
SnapshotTake ==
    /\ held # NoJob
    /\ Becomes(held, "PAUSED")
    /\ captured' = [captured EXCEPT ![held] = Snapshot(held)]
    /\ taken' = held
    /\ held' = NoJob
    /\ UNCHANGED <<batchVars, threadVars, requestVars, outcome, stopVars,
                   countVars, tellVars, click, todo, refused, discarded, clicks>>

(* Pausing one track by stopping all of them. *)
StopWholeBatch ==
    /\ taken # NoJob
    /\ jobStop' = Job
    /\ todo' = todo \ {taken}
    /\ taken' = NoJob
    /\ UNCHANGED <<batchVars, threadVars, requestVars, outcome, state,
                   engineStop, countVars, tellVars, click, held, captured,
                   refused, discarded, clicks>>

(* _pause_and_snapshot claims first and cancels second. *)
StopTrack ==
    /\ taken # NoJob
    /\ jobStop' = jobStop \cup {taken}
    /\ todo' = todo \ {taken}
    /\ taken' = NoJob
    /\ UNCHANGED <<batchVars, threadVars, requestVars, outcome, state,
                   engineStop, countVars, tellVars, click, held, captured,
                   refused, discarded, clicks>>

(* cancel_paused_job. *)
AbandonPaused(j) ==
    /\ UIFree /\ click = "cancelAll" /\ j \in todo
    /\ todo' = todo \ {j}
    /\ IF outcome[j] = "paused" /\ Live(j)
       THEN /\ Claim(j, "terminal")
            /\ Becomes(j, "CANCELLED")
            /\ Owes("ui", "CANCELLED")
       ELSE UNCHANGED <<outcome, state, owed>>
    /\ UNCHANGED <<batchVars, threadVars, requestVars, stopVars, countVars, due,
                   saying, shown, click, held, taken, captured, refused,
                   discarded, clicks>>

(* The click ends.  Pausing or cancelling everything stops the engine and  *)
(* every job that is registered by then.                                   *)
ClickEnds ==
    /\ UIFree /\ click # "none" /\ todo = {}
    /\ click' = "none"
    /\ captured' = IF click = "cancelAll" THEN [j \in Job |-> "none"] ELSE captured
    /\ IF click = "pause"
       THEN UNCHANGED stopVars
       ELSE /\ engineStop' = TRUE
            /\ jobStop' = IF Registered THEN Job ELSE jobStop
    /\ UNCHANGED <<batchVars, threadVars, requestVars, outcome, state, countVars,
                   tellVars, todo, held, taken, refused, discarded, clicks>>

-----------------------------------------------------------------------------
ThreadStep(j) ==
    \/ NoticeStop(j) \/ ClaimCancelled(j) \/ NeverSubmitted(j)
    \/ Begin(j) \/ MatchReturns(j) \/ RepairMatch(j) \/ SettleUnmatched(j)
    \/ StartEngine(j) \/ Progress(j) \/ EngineStops(j) \/ EngineFails(j)
    \/ FileReady(j) \/ CheckStop(j) \/ CopyEnds(j)
    \/ AskGate(j) \/ Rename(j) \/ RenameFails(j)
    \/ OnFinished(j) \/ CountFinished(j) \/ SettleFinished(j)
    \/ Return(j) \/ Retry(j)
    \/ OnError(j) \/ CountFailed(j) \/ SettleFailed(j)
    \/ SettleCancelled(j) \/ CountCancelled(j)

BatchStep ==
    \/ LookAtEngine \/ Register \/ Drain \/ ReportSwept \/ CleanUp
    \/ \E j \in Job : NoWorkspace(j) \/ Preexisting(j)

UIStep ==
    \/ Click \/ SnapshotTake \/ StopTrack \/ ClickEnds
    \/ \E j \in Job : SnapshotClaim(j) \/ SnapshotRefused(j) \/ AbandonPaused(j)

TellStep ==
    \/ \E who \in Teller : Compute(who)
    \/ \E m \in saying : Deliver(m)
    \/ \E o \in owed : CountOwed(o)

(* The batch has ended, everything is told and the UI is at rest. *)
Quiet == main = "finished" /\ owed = {} /\ due = {} /\ saying = {} /\ UIFree /\ click = "none"

Rest == Quiet /\ UNCHANGED vars

Next ==
    \/ \E j \in Job : ThreadStep(j)
    \/ BatchStep
    \/ UIStep
    \/ TellStep
    \/ Rest

Spec == Init /\ [][Next]_vars

-----------------------------------------------------------------------------
(* Properties.                                                             *)

(* The claim is made and the job's card does not show it yet. *)
Reporting == {"gated", "regated", "published", "finishing", "completing",
              "losing", "lost", "cancelling"}

(* A pause and a publish never both win: while a pause owns a job, its     *)
(* file is not in the user's output directory, its thread is past no gate, *)
(* and the controller holds (or is just taking) a request to resume it.    *)
PausedNotPublished ==
    \A j \in Job : outcome[j] = "paused" =>
        /\ file[j] = "workspace"
        /\ pc[j] \notin Reporting
        /\ state[j] \notin {"COMPLETED", "FAILED"}
        /\ captured[j] # "none" \/ held = j \/ discarded

(* A batch never "both finished the track and offered to resume it"        *)
(* (_claim_job_outcome): while the controller holds a paused request, the  *)
(* job has not been reported completed or failed and is not published.     *)
ResumeIsUnfinished ==
    ~discarded => \A j \in Job : captured[j] # "none" =>
        state[j] \notin {"COMPLETED", "FAILED"} /\ file[j] = "workspace"

(* A claim never outlives a commit that did not happen: a job that is      *)
(* claimed "terminal" but not yet over is between its gate and its report, *)
(* so a pause is refused only there.                                       *)
ClaimNotLeaked ==
    \A j \in Job : outcome[j] = "terminal" /\ Live(j) =>
        pc[j] \in Reporting

(* A snapshot that Resume will run carries its resolver or an address,     *)
(* also when the pause lands while the match is running; only a match that *)
(* has failed leaves neither.                                              *)
CapturedCanRun ==
    \A j \in Job : captured[j] # "consumed"

(* Without a Cancel All a job ends cancelled only if a pause found it      *)
(* unregistered or holding its publish claim; everything else that was     *)
(* alive is completed, failed or captured for Resume.                      *)
CancelledOnlyIfRefused ==
    Quiet /\ ~discarded =>
        \A j \in Job :
            \/ captured[j] # "none" /\ outcome[j] = "paused"
            \/ state[j] \in {"COMPLETED", "FAILED"}
            \/ j \in refused

(* Between the counter of a job and its state, or the other way round. *)
Unsettled == {j \in Job : pc[j] \in {"completing", "lost", "leaving"}}

(* Counter and state of a job are set under two locks, and a snapshot may  *)
(* fall between them. Without a Cancel All the difference never stays:     *)
(* whenever no thread is between the two, the counters of the BatchResult  *)
(* are the states of the jobs, until run_batch sweeps a stopped batch.     *)
CountsAgree ==
    ~discarded /\ main \in {"preparing", "running", "cleaning"}
               /\ Unsettled = {} /\ owed = {} =>
        /\ completed = Cardinality({j \in Job : state[j] = "COMPLETED"})
        /\ failed = Cardinality({j \in Job : state[j] = "FAILED"})
        /\ cancelled = Cardinality({j \in Job : state[j] = "CANCELLED"})

(* A job that is over stays what it is, and one that was reported          *)
(* completed is in the output directory.                                   *)
OverIsOver ==
    [][\A j \in Job :
          /\ state[j] \in Terminal => state'[j] = state[j]
          /\ state'[j] = "COMPLETED" => file'[j] = "published"]_vars

(* "PAUSED is recorded HERE ... not by the job's own thread once it        *)
(* notices the cancel" (core/download_orchestrator.py): a job whose thread *)
(* has ended and that a pause owns is PAUSED in the batch snapshot.        *)
PausedStaysPaused ==
    \A j \in Job :
        pc[j] = "done" /\ outcome[j] = "paused" /\ held # j => state[j] = "PAUSED"

(* Cancelling a paused job "cannot race a completion that the pause was    *)
(* holding off" (cancel_paused_job).                                       *)
AbandonedIsNotPublished ==
    \A j \in Job : state[j] = "CANCELLED" => file[j] = "workspace"

(* "The counter always ends a batch at total" (_emit_job_count), when no   *)
(* paused work is left outstanding.                                        *)
CounterEndsAtTotal ==
    Quiet /\ (\A j \in Job : captured[j] = "none") /\ clicks = 0 =>
        shown = Cardinality(Job)

(* A snapshot never "has neither a resolver nor a usable URL"              *)
(* (live_request_snapshot).                                                *)
CapturedHasAddress ==
    \A j \in Job : captured[j] \notin {"consumed", "unmatched"}

(* The clean-up never takes "a still-needed .part file out from under a    *)
(* single paused track" (run_batch).                                       *)
PausedKeepsWorkspace ==
    (\E j \in Job : captured[j] # "none") => workspace

(* "Every unfinished job is snapshotted" (global_pause): a pause of the    *)
(* whole batch leaves nothing behind that it had found alive.              *)
PauseLeavesNothing ==
    Quiet /\ ~discarded => \A j \in Job : state[j] = "CANCELLED" => outcome[j] = "paused"
=============================================================================
