------------------------------ MODULE FileRefresh ------------------------------
(***************************************************************************)
(* How the tag editor follows a directory that other programs change: the  *)
(* watcher compares the directory with what it saw last                    *)
(* (ui/services/filesystem_watch_service.py), the coalescer gathers events *)
(* (core/filesystem_monitoring.py), the controller sorts out the           *)
(* application's own work and starts a worker, the worker plans            *)
(* (core/file_refresh_service.py), and the updater applies the plan to the *)
(* loaded items (ui/controllers/incremental_workspace_updater.py).         *)
(*                                                                         *)
(* A file is known by its inode and the time it was written. Every slot of *)
(* the UI thread is a step; the worker looks at the disk in one step; an   *)
(* Apply, which TagApply has in full, checks, writes file by file, and     *)
(* ends in two slots. Other programs may act between any two steps.        *)
(***************************************************************************)
EXTENDS Naturals, Sequences, FiniteSets

CONSTANTS
    Name,           \* the names of audio files in the directory
    Nobody,         \* no file, or no name
    NoItem,         \* no item is loaded, or no event is pending
    MaxTime,        \* bound: files written
    MaxActs         \* bound: edits and disk operations of the user, changes by other
                    \* programs, and losses of the directory, taken together

ASSUME NameAssumption == IsFiniteSet(Name) /\ Name \cap 1 .. MaxTime = {}
ASSUME BoundsAssumption == {MaxTime, MaxActs} \subseteq Nat

VARIABLES
    at,         \* the file at each name
    there,      \* the directory can be reached
    clock,      \* when a file was written last
    dirty,      \* the system has a notification for the watcher
    wired,      \* it will have one for the next change
    seen,       \* _snapshots of the directory, or NoItem
    polling,    \* the timer of the degraded mode runs
    paused,     \* events are only collected
    pending,    \* the event of each name in the coalescer
    rootEvent,  \* its event about the directory, which goes before all others
    sweep,      \* an event that asks for the whole directory
    worker,     \* _current_refresh_worker and its plan
    item,       \* the item loaded for each name
    reviewable, \* the names whose conflict is of the current revisions
    own,        \* OwnOperationLedger, oldest first
    job,        \* the Apply worker
    budget,     \* acts that are left
    forgotten   \* (history) names of which news was dropped

diskVars == <<at, there, clock>>
watchVars == <<dirty, wired, seen, polling>>
queueVars == <<pending, rootEvent, sweep>>
itemVars == <<item, reviewable>>
vars == <<diskVars, watchVars, paused, queueVars, worker, itemVars, own, job, budget, forgotten>>

(* A file that was there at the start has its first name for an inode, a   *)
(* later one the time it was made at.                                      *)
Identity == [inode : Name \cup 1 .. MaxTime, time : 0 .. MaxTime]
Content == Identity \cup {Nobody}
Event == [kind : {"created", "removed", "other"}, from : Name \cup {Nobody}, evidence : Content]
State == {"current", "changed", "own", "replaced", "moved", "stale", "conflict", "missing",
          "unavailable"}
(* base is what the item's file was when it was read, shown what its tags  *)
(* on the screen are of, disk the file its conflict is about.              *)
Item == [base : Content, shown : Content, proposal : BOOLEAN, state : State, disk : Content]
ASSUME NoneAssumption ==
    Nobody \notin Name \cup Identity /\ NoItem \notin Event \cup Item \cup [Name -> Content]
Entry == [orig : Name, final : Name, left : Content,
          result : {"pending", "proven", "unproven"}]
(* A worker is to look at the names of look and knows the old names of     *)
(* old; had are the items with proposals in its snapshot; gone: the        *)
(* directory is lost; current: no revision has changed since it started.   *)
NoWorker == [stage |-> "none", gone |-> FALSE, full |-> FALSE, look |-> {}, old |-> {},
             had |-> {}, current |-> FALSE, view |-> [n \in Name |-> Nobody]]
(* An Apply is to write files, of which some are left and some written; it *)
(* has its own copies of the items, of base, and live are where those are. *)
NoJob == [stage |-> "none", files |-> {}, left |-> {}, wrote |-> {},
          base |-> [n \in Name |-> Nobody], live |-> [n \in Name |-> Nobody]]

(* Every variable keeps its type, and no bound is overdrawn. *)
TypeOK ==
    /\ at \in [Name -> Content] /\ there \in BOOLEAN /\ clock \in 0 .. MaxTime
    /\ {dirty, wired, polling, paused, sweep} \subseteq BOOLEAN
    /\ seen \in [Name -> Content] \cup {NoItem}
    /\ pending \in [Name -> Event \cup {NoItem}]
    /\ rootEvent \in {"none", "lost", "restored"}
    /\ worker \in [stage : {"none", "run", "planned"}, gone : BOOLEAN, full : BOOLEAN,
                   look : SUBSET Name, old : SUBSET Name, had : SUBSET Name,
                   current : BOOLEAN, view : [Name -> Content]]
    /\ item \in [Name -> Item \cup {NoItem}]
    /\ reviewable \subseteq Name
    /\ own \in Seq(Entry)
    /\ job \in [stage : {"none", "check", "write", "ended", "captured"}, files : SUBSET Name,
                left : SUBSET Name, wrote : SUBSET Name,
                base : [Name -> Content], live : [Name -> Name \cup {Nobody}]]
    /\ budget \in 0 .. MaxActs
    /\ forgotten \subseteq Name

(* An item as it is after its file was read. *)
Read(c, s) == [base |-> c, shown |-> c, proposal |-> FALSE, state |-> s, disk |-> Nobody]

(* The directory has been scanned and the watch has begun. *)
Init ==
    /\ \E N \in SUBSET Name :
          at = [n \in Name |-> IF n \in N THEN [inode |-> n, time |-> 0] ELSE Nobody]
    /\ there = TRUE /\ clock = 0
    /\ dirty = FALSE /\ wired = TRUE /\ seen = at /\ polling = FALSE /\ paused = FALSE
    /\ pending = [n \in Name |-> NoItem] /\ rootEvent = "none" /\ sweep = FALSE
    /\ worker = NoWorker
    /\ item = [n \in Name |-> IF at[n] = Nobody THEN NoItem ELSE Read(at[n], "current")]
    /\ reviewable = {} /\ own = <<>> /\ job = NoJob
    /\ budget = MaxActs
    /\ forgotten = {}

----------------------------------------------------------------------------
Loaded(n) == item[n] # NoItem
Proposed(n) == Loaded(n) /\ item[n].proposal
Act == budget > 0 /\ budget' = budget - 1

(* What a look at name n finds. *)
Disk(n) == IF there THEN at[n] ELSE Nobody

(* The user is told that something is to be decided about the item.        *)
Flagged(i) ==
    \/ i.state \in {"stale", "conflict", "missing", "unavailable"}
    \/ i.state = "moved" /\ i.disk # Nobody
(* With item i at a name and c on the disk, the screen is right, or says   *)
(* that it is not.                                                         *)
Known(i, c) == IF i = NoItem THEN c = Nobody ELSE Flagged(i) \/ i.shown = c

(* Content or change revision goes up: plans and conflicts are out of date. *)
Revised == worker' = [worker EXCEPT !.current = FALSE] /\ reviewable' = {}

----------------------------------------------------------------------------
(* The watcher and the coalescer                                           *)

(* A raw event of name n, as normalize_filesystem_event restates it. *)
RawEvent(n, prior) ==
    [kind |-> IF at[n] = Nobody THEN "removed" ELSE IF seen[n] = Nobody THEN "created" ELSE "other",
     from |-> prior, evidence |-> at[n]]

(* (mutant) a file that is gone and back again is no change *)
MergeForgetful(prior, e) ==
    IF prior = NoItem \/ e.kind = "removed" THEN e
    ELSE IF prior.kind = "removed" THEN NoItem
    ELSE IF prior.kind = "created" THEN [prior EXCEPT !.evidence = e.evidence] ELSE e

(* EventCoalescer._merge *)
Merge(prior, e) ==
    IF prior = NoItem \/ e.kind = "removed" THEN e
    ELSE IF prior.kind = "removed" THEN [e EXCEPT !.kind = "created"]
    ELSE IF prior.kind = "created" THEN [prior EXCEPT !.evidence = e.evidence] ELSE e

(* Name m is new and has the file that was at n, which is gone. *)
Relocated(n, m) ==
    /\ seen[n] # Nobody /\ at[n] = Nobody /\ seen[m] = Nobody /\ at[m] # Nobody
    /\ seen[n].inode = at[m].inode
(* The events a comparison of the directory with what was seen makes. *)
Events ==
    LET gone == {n \in Name : \E m \in Name : Relocated(n, m)}
    IN  [m \in Name |->
            IF \E n \in Name : Relocated(n, m)
            THEN [RawEvent(m, CHOOSE n \in Name : Relocated(n, m)) EXCEPT !.kind = "other"]
            ELSE IF seen[m] # at[m] /\ m \notin gone THEN RawEvent(m, Nobody) ELSE NoItem]

(* The prior names of events, and all names they tell of. *)
Priors(events) == {n \in Name : \E m \in Name : events[m] # NoItem /\ events[m].from = n}
Told(events) == {n \in Name : events[n] # NoItem} \cup Priors(events)
(* The names a worker for these events will look at. *)
Heard(events) == {n \in Name : events[n] # NoItem \/ (n \in Priors(events) /\ Loaded(n))}

(* _on_directory_changed of a directory that is there. With nothing to see *)
(* it asks for the whole of it; nothing is added behind a root event. What *)
(* a worker has seen come and the watcher has not is not seen to go.       *)
Compare ==
    LET early == {n \in Name : seen # at /\ seen[n] = at[n] /\ ~Known(item[n], at[n])}
    IN  /\ seen' = at
        /\ UNCHANGED rootEvent
        /\ IF rootEvent # "none"
           THEN /\ forgotten' = IF rootEvent = "restored" THEN forgotten
                                ELSE forgotten \cup early \cup {n \in Name : seen[n] # at[n]}
                /\ UNCHANGED <<pending, sweep>>
           ELSE /\ pending' = [n \in Name |-> IF Events[n] = NoItem THEN pending[n]
                                             ELSE Merge(pending[n], Events[n])]
                /\ sweep' = (sweep \/ seen = at)
                \* one of two prior names is lost when two events are merged
                /\ forgotten' = forgotten
                        \cup ((Priors(pending) \cup Priors(Events)) \ Told(pending'))
                        \cup (early \ Heard(pending'))

DirectoryChanged ==
    /\ dirty /\ dirty' = FALSE
    /\ \/ /\ ~there
          /\ rootEvent' = "lost" /\ seen' = NoItem /\ polling' = TRUE
          /\ UNCHANGED <<pending, sweep, forgotten>>
       \/ there /\ Compare /\ UNCHANGED polling
    /\ UNCHANGED <<diskVars, wired, paused, worker, itemVars, own, job, budget>>

(* _poll_all: a directory that is back is watched again. *)
Poll ==
    /\ polling
    /\ \/ ~there /\ rootEvent' = "lost" /\ UNCHANGED <<seen, wired, pending, sweep, forgotten>>
       \/ /\ there /\ seen = NoItem
          /\ rootEvent' = "restored" /\ seen' = at /\ wired' = TRUE
          /\ UNCHANGED <<pending, sweep, forgotten>>
       \/ there /\ seen # NoItem /\ Compare /\ UNCHANGED wired
    /\ UNCHANGED <<diskVars, dirty, polling, paused, worker, itemVars, own, job, budget>>

----------------------------------------------------------------------------
(* Batches and workers                                                     *)

Touching(e, n) ==
    {i \in 1 .. Len(own) : {own[i].orig, own[i].final} \cap {n, e.from} # {}}

(* OwnOperationLedger.classify: the latest operation on the path is proven *)
(* to have left what the event has found.                                  *)
Expected(e, n) ==
    \E i \in Touching(e, n) :
        /\ \A j \in Touching(e, n) : j <= i
        /\ own[i].result = "proven"
        /\ \/ n = own[i].final /\ e.evidence = own[i].left
           \/ n = own[i].orig /\ n # own[i].final /\ e.evidence = Nobody

(* Event e found at n what an operation of the application had left there, *)
(* which other programs may have brought about again.                      *)
AsLeft(e, n) ==
    \E i \in DOMAIN own : \/ own[i].final = n /\ own[i].left = e.evidence
                          \/ own[i].orig = n /\ own[i].final # n /\ e.evidence = Nobody

(* The names a worker will have looked at when its plan is accepted. *)
Covers(w) ==
    IF w.gone THEN {n \in Name : Loaded(n)} ELSE IF w.full THEN Name ELSE w.look \cup w.old

(* The queue is drained with root event r, which goes alone, and sweep s.  *)
(* _on_filesystem_batch drops all of it while a disk operation runs,       *)
(* leaves out what the application did itself, and starts a worker, which  *)
(* replaces the one there was; current: no revision is about to change.    *)
Serve(r, s, busy, current) ==
    LET events == IF r = "none" THEN pending ELSE [n \in Name |-> NoItem]
        actionable == [n \in Name |-> IF events[n] # NoItem /\ Expected(events[n], n)
                                      THEN NoItem ELSE events[n]]
        full == r = "restored" \/ (r = "none" /\ s)
        look == {n \in Name : actionable[n] # NoItem}
        next == [NoWorker EXCEPT !.stage = "run", !.gone = (r = "lost"), !.full = full,
                                 !.look = IF full THEN Name ELSE look,
                                 !.old = IF full THEN {}
                                         ELSE {n \in Told(actionable) \ look : Loaded(n)},
                                 !.had = {n \in Name : Proposed(n)}, !.current = current]
        \* what goes with the loss of the directory
        lost  == IF r = "lost" THEN Told(pending) \cup (IF s THEN Name ELSE {}) ELSE {}
        again == {n \in Name : \E m \in Name : /\ events[m] # NoItem /\ AsLeft(events[m], m)
                                              /\ n \in {m, events[m].from}}
    IN  /\ pending' = [n \in Name |-> NoItem] /\ rootEvent' = "none" /\ sweep' = FALSE
        /\ IF busy
           THEN /\ forgotten' = IF r # "none" \/ s THEN Name ELSE forgotten \cup Told(events)
                /\ UNCHANGED worker
           ELSE IF next.gone \/ look # {} \/ full
           THEN /\ forgotten' = forgotten \cup lost
                                \cup ((again \cup Covers(worker)) \ Covers(next))
                /\ worker' = next
           ELSE forgotten' = forgotten \cup again /\ UNCHANGED worker

(* The debounce timer. *)
Flush ==
    /\ ~paused /\ (rootEvent # "none" \/ sweep \/ Told(pending) # {})
    /\ Serve(rootEvent, sweep, FALSE, TRUE)
    /\ UNCHANGED <<diskVars, watchVars, paused, itemVars, own, job, budget>>

(* The event of manual_refresh, about the directory, joins the others. *)
ManualRoot == IF there THEN rootEvent ELSE "lost"
ManualSweep == sweep \/ (there /\ rootEvent = "none")

ManualRefresh ==
    /\ \/ ~paused /\ Serve(ManualRoot, ManualSweep, FALSE, TRUE)
       \/ /\ paused
          /\ rootEvent' = ManualRoot /\ sweep' = ManualSweep
          /\ UNCHANGED <<pending, worker, forgotten>>
    /\ UNCHANGED <<diskVars, watchVars, paused, itemVars, own, job, budget>>

(* build_plan: what the worker finds. *)
Look ==
    /\ worker.stage = "run"
    /\ worker' = [worker EXCEPT !.stage = "planned",
                    !.view = [n \in Name |-> IF n \in worker.look \cup worker.old
                                             THEN Disk(n) ELSE Nobody]]
    /\ UNCHANGED <<diskVars, watchVars, paused, queueVars, itemVars, own, job, budget, forgotten>>

WorkerFails ==
    /\ worker.stage = "run"
    /\ worker' = NoWorker
    /\ forgotten' = forgotten \cup Covers(worker)
    /\ UNCHANGED <<diskVars, watchVars, paused, queueVars, itemVars, own, job, budget>>

----------------------------------------------------------------------------
(* Applying a plan                                                         *)

Asked == worker.look \cup worker.old
NewFiles == {m \in worker.look : ~Loaded(m) /\ worker.view[m] # Nobody}
(* The item of n is not found, and one new file is strongly the same. *)
Moves(n, m) ==
    /\ n \in Asked /\ Loaded(n) /\ item[n].base # Nobody
    /\ (n \notin worker.look \/ worker.view[n] = Nobody)
    /\ {k \in NewFiles : worker.view[k].inode = item[n].base.inode} = {m}

(* The item of a file that was found at m under its old name. *)
Followed(i, m, had) ==
    [IF i.proposal THEN i ELSE Read(worker.view[m], "moved")
       EXCEPT !.state = "moved", !.disk = IF had THEN worker.view[m] ELSE Nobody]

(* The item i of a name where the worker found c; overlap: a field was     *)
(* changed on both sides. A missing file costs only an item without        *)
(* proposals.                                                              *)
Refreshed(i, c, had, overlap) ==
    IF c = Nobody
    THEN IF had THEN [i EXCEPT !.state = "missing", !.disk = Nobody] ELSE NoItem
    ELSE IF c = i.base
    THEN IF i.state = "current" THEN i ELSE [i EXCEPT !.state = "current", !.disk = Nobody]
    ELSE LET replaced == i.base # Nobody /\ i.base.inode # c.inode
         IN  IF had
             THEN [i EXCEPT !.disk = c,
                            !.state = IF replaced \/ overlap THEN "conflict" ELSE "stale"]
             ELSE [Read(c, IF replaced THEN "replaced" ELSE "changed")
                     EXCEPT !.proposal = i.proposal]

(* The items after the plan. *)
Planned(overlap) ==
    [m \in Name |->
        IF worker.gone
        THEN IF Loaded(m) /\ item[m].state # "unavailable"
             THEN [item[m] EXCEPT !.state = "unavailable", !.disk = Nobody] ELSE item[m]
        ELSE IF \E n \in Name : Moves(n, m)
        THEN LET n == CHOOSE n \in Name : Moves(n, m) IN Followed(item[n], m, n \in worker.had)
        ELSE IF \E k \in Name : Moves(m, k) THEN NoItem
        ELSE IF m \in NewFiles THEN Read(worker.view[m], "changed")
        ELSE IF m \in Asked /\ Loaded(m)
        THEN Refreshed(item[m], worker.view[m], m \in worker.had, m \in overlap)
        ELSE item[m]]

(* The names whose evidence is looked at again: those with a result. *)
Results ==
    {m \in Asked : \/ m \in NewFiles
                   \/ /\ Loaded(m) /\ ~\E k \in Name : Moves(m, k)
                      /\ (worker.view[m] # item[m].base \/ item[m].state # "current")}
Unchanged == \A m \in Results : worker.view[m] = Disk(m)

(* _on_filesystem_plan of a plan that the revisions have overtaken: a full *)
(* pass is asked for.                                                      *)
PlanIsStale ==
    /\ worker.stage = "planned" /\ ~worker.current
    /\ \/ ~paused /\ Serve(ManualRoot, ManualSweep, FALSE, TRUE)
       \/ /\ paused
          /\ rootEvent' = ManualRoot /\ sweep' = ManualSweep
          /\ worker' = NoWorker /\ UNCHANGED <<pending, forgotten>>
    /\ UNCHANGED <<diskVars, watchVars, paused, itemVars, own, job, budget>>

(* A file is no longer what the plan has found: the plan is dropped. *)
PlanIsRefused ==
    /\ worker.stage = "planned" /\ worker.current /\ ~Unchanged
    /\ worker' = NoWorker
    /\ forgotten' = forgotten \cup Covers(worker)
    /\ UNCHANGED <<diskVars, watchVars, paused, queueVars, itemVars, own, job, budget>>

(* (mutant) a plan is applied to items that were edited since *)
AcceptOvertaken == worker.stage = "planned" /\ Unchanged

(* IncrementalWorkspaceUpdater._validate_plan has nothing against the plan. *)
Acceptable == worker.stage = "planned" /\ worker.current /\ Unchanged

(* update_directories: what is there stays watched, and a full pass        *)
(* watches the directory again. What the screen does not show after the    *)
(* plan, and nobody is told of, is forgotten.                              *)
UpdateDirectories(items) ==
    LET unsure == {n \in Name : ~Known(items[n], Disk(n))}
        hidden == {n \in Name : /\ items[n] # NoItem /\ ~Flagged(items[n])
                                /\ items[n].shown # items[n].base}
        \* an item that has left for another name, where a new file is
        behind == {n \in unsure : Loaded(n) /\ items[n] = NoItem}
        settled == IF worker.gone THEN {} ELSE Covers(worker) \ unsure
        left   == (forgotten \ settled) \cup hidden \cup behind
        vanished == ~worker.gone /\ ~there /\ seen # NoItem
        returned == worker.full /\ there /\ seen = NoItem
    IN  \/ /\ ~vanished /\ ~returned
           /\ forgotten' = left /\ UNCHANGED <<dirty, wired, seen>>
        \/ /\ vanished
           /\ seen' = NoItem /\ wired' = FALSE /\ dirty' = FALSE
           /\ forgotten' = IF polling THEN left ELSE Name
        \/ /\ returned
           /\ seen' = at /\ wired' = TRUE /\ UNCHANGED dirty
           /\ forgotten' = left \cup unsure

(* No two items have gone to one name. Where two were of one file, the     *)
(* code would have both at the name; a name here has one item.             *)
Apart == \A n, k, m \in Name : Moves(n, m) /\ Moves(k, m) => n = k

AcceptPlan ==
    /\ Acceptable /\ Apart
    /\ \E overlap \in SUBSET {n \in Asked : n \in worker.had} :
          LET items == Planned(overlap)
              conflicts == {m \in Asked : items[m] # NoItem /\ Flagged(items[m])}
          IN  /\ item' = items
              /\ reviewable' = IF items = item /\ conflicts = {} THEN reviewable ELSE conflicts
              /\ UpdateDirectories(items)
    /\ worker' = NoWorker
    /\ job' = [job EXCEPT !.live = [k \in Name |-> IF \E m \in Name : Moves(@[k], m)
                                                   THEN CHOOSE m \in Name : Moves(@[k], m) ELSE @[k]]]
    /\ UNCHANGED <<diskVars, polling, paused, queueVars, own, budget>>

----------------------------------------------------------------------------
(* The user                                                                *)

(* The user leaves the items of a running Apply alone. *)
Idle(n) == Loaded(n) /\ \A k \in Name : job.live[k] # n

(* A proposal is made or taken back. *)
Edit(n) ==
    /\ Idle(n) /\ Act
    /\ item' = [item EXCEPT ![n].proposal = ~@]
    /\ Revised
    /\ UNCHANGED <<diskVars, watchVars, paused, queueVars, own, job, forgotten>>

(* resolve_conflict with Remove, Reload or Keep Local, as the dialog       *)
(* offers them.                                                            *)
Resolve(n) ==
    /\ n \in reviewable /\ Idle(n)
    /\ \/ /\ item[n].state = "missing" /\ Disk(n) = Nobody
          /\ item' = [item EXCEPT ![n] = NoItem]
       \/ /\ Disk(n) # Nobody /\ Disk(n) = item[n].disk
          /\ \/ item' = [item EXCEPT ![n] = Read(Disk(n), "current")]
             \/ /\ item[n].state \in {"stale", "moved"}
                /\ item' = [item EXCEPT ![n] = [Read(Disk(n), "current")
                                                  EXCEPT !.proposal = item[n].proposal]]
    /\ Revised
    /\ UNCHANGED <<diskVars, watchVars, paused, queueVars, own, job, budget, forgotten>>

(* A disk operation of the panel that ends with result, its own record of  *)
(* the file it has left, and a full pass.                                  *)
Operated(n, m, left, result) ==
    /\ own' = Append(own, [orig |-> n, final |-> m, left |-> left, result |-> result])
    /\ dirty' = (dirty \/ (wired /\ result = "proven"))
    /\ Serve(ManualRoot, ManualSweep, FALSE, result # "proven")

(* rename_path and recycle_paths, and what the panel makes of them: the    *)
(* full pass starts before the item gets its new name or goes.             *)
RenameFile(n, m) ==
    /\ job = NoJob /\ there /\ Loaded(n) /\ at[n] # Nobody /\ at[m] = Nobody /\ ~Loaded(m)
    /\ Act
    /\ \/ /\ at' = [at EXCEPT ![m] = at[n], ![n] = Nobody]
          \* the rename may be what was proposed
          /\ \E i \in {item[n], [item[n] EXCEPT !.proposal = FALSE]} :
                item' = [item EXCEPT ![m] = i, ![n] = NoItem]
          /\ reviewable' = {}
          /\ Operated(n, m, at[n], "proven")
       \/ Operated(n, m, Nobody, "unproven") /\ UNCHANGED <<at, itemVars>>
    /\ UNCHANGED <<there, clock, wired, seen, polling, paused, job>>

RecycleFile(n) ==
    /\ job = NoJob /\ there /\ Loaded(n) /\ at[n] # Nobody
    /\ Act
    /\ at' = [at EXCEPT ![n] = Nobody]
    /\ item' = [item EXCEPT ![n] = NoItem]
    /\ reviewable' = {}
    /\ Operated(n, n, Nobody, "proven")
    /\ UNCHANGED <<there, clock, wired, seen, polling, paused, job>>

(* Operations that ended long ago are no evidence any more. *)
Prune ==
    /\ own # <<>> /\ Head(own).result # "pending"
    /\ own' = Tail(own)
    /\ UNCHANGED <<diskVars, watchVars, paused, queueVars, worker, itemVars, job, budget, forgotten>>

----------------------------------------------------------------------------
(* Apply                                                                   *)

(* What the system tells the watcher of a change of the names ns. *)
Notice(ns) ==
    /\ dirty' = (dirty \/ wired)
    /\ forgotten' = IF wired THEN forgotten
                    ELSE forgotten \cup {n \in ns : ~polling \/ (seen # NoItem /\ seen[n] = at'[n])}

NewFile == [inode |-> clock + 1, time |-> clock + 1]
Current(n) == item[n].base \in {Nobody, Disk(n)}

(* The files of S are to be written, the others are excluded. *)
BeginApply(S) ==
    /\ job = NoJob /\ S # {}
    /\ \A n \in S : /\ Proposed(n) /\ Current(n)
                    /\ ~Flagged(item[n]) /\ item[n].state \notin {"moved", "replaced"}
    /\ Act
    /\ job' = [NoJob EXCEPT !.stage = "check", !.files = S,
                            !.base = [n \in Name |-> IF n \in S THEN item[n].base ELSE Nobody],
                            !.live = [n \in Name |-> IF n \in S THEN n ELSE Nobody]]
    /\ LET order == CHOOSE f \in [1 .. Cardinality(S) -> S] : \A n \in S : \E i \in DOMAIN f : f[i] = n
       IN  own' = own \o [i \in DOMAIN order |-> [orig |-> order[i], final |-> order[i],
                                                  left |-> Nobody, result |-> "pending"]]
    /\ paused' = TRUE
    /\ UNCHANGED <<diskVars, watchVars, queueVars, worker, itemVars, forgotten>>

(* The worker looks at its sources again; this or another check may abort. *)
CheckSources ==
    /\ job.stage = "check"
    /\ \/ /\ \A n \in job.files : job.base[n] \in {Nobody, Disk(n)}
          /\ job' = [job EXCEPT !.stage = "write", !.left = job.files, !.base = NoJob.base]
       \/ job' = [job EXCEPT !.stage = "captured"]
    /\ UNCHANGED <<diskVars, watchVars, paused, queueVars, worker, itemVars, own, budget, forgotten>>

(* atomic_write_tags puts a new file in the place of the old, or fails.    *)
(* What was written is shown where the item is by now.                     *)
WriteFile(n) ==
    /\ job.stage = "write" /\ n \in job.left
    /\ \/ /\ there /\ at[n] # Nobody /\ clock < MaxTime
          /\ clock' = clock + 1
          /\ at' = [at EXCEPT ![n] = NewFile]
          /\ Notice({n})
          /\ item' = [item EXCEPT ![job.live[n]].proposal = FALSE,
                                  ![job.live[n]].shown = IF @ = at[n] \/ job.live[n] # n
                                                         THEN NewFile ELSE @]
          /\ job' = [job EXCEPT !.left = @ \ {n}, !.wrote = @ \cup {n}]
       \/ /\ job' = [job EXCEPT !.left = @ \ {n}]
          /\ UNCHANGED <<clock, at, dirty, item, forgotten>>
    /\ UNCHANGED <<there, wired, seen, polling, paused, queueVars, worker, reviewable, own, budget>>

(* All files are done, or the user has cancelled; a batch that needs       *)
(* recovery gets no new baselines.                                         *)
EndWrites ==
    /\ job.stage = "write"
    /\ \E stage \in {"ended", "captured"} : job' = [job EXCEPT !.stage = stage, !.left = {}]
    /\ UNCHANGED <<diskVars, watchVars, paused, queueVars, worker, itemVars, own, budget, forgotten>>

(* _on_apply_finished: what is on the disk now becomes the baseline. *)
Recapture ==
    /\ job.stage = "ended"
    /\ item' = [n \in Name |-> IF n \in job.wrote /\ Loaded(n)
                               THEN [item[n] EXCEPT !.base = Disk(n), !.state = "own", !.disk = Nobody]
                               ELSE item[n]]
    /\ IF job.wrote = {} THEN UNCHANGED <<worker, reviewable>> ELSE Revised
    /\ job' = [job EXCEPT !.stage = "captured"]
    /\ UNCHANGED <<diskVars, watchVars, paused, queueVars, own, budget, forgotten>>

(* _finish_monitored_disk_operation: the ledger learns what was left, and  *)
(* a full pass is asked for. The thread may still be running.              *)
Finish ==
    /\ job.stage = "captured"
    /\ own' = [i \in DOMAIN own |->
                 IF own[i].result # "pending" THEN own[i]
                 ELSE IF own[i].orig \in job.wrote /\ Disk(own[i].orig) # Nobody
                 THEN [own[i] EXCEPT !.result = "proven", !.left = Disk(own[i].orig)]
                 ELSE [own[i] EXCEPT !.result = "unproven"]]
    /\ paused' = FALSE
    /\ \E running \in BOOLEAN : Serve(ManualRoot, ManualSweep, running, TRUE)
    /\ job' = NoJob
    /\ UNCHANGED <<diskVars, watchVars, itemVars, budget>>

----------------------------------------------------------------------------
(* Other programs                                                          *)

Elsewhere == UNCHANGED <<there, wired, seen, polling, paused, queueVars, worker, itemVars, own, job>>

(* A file is written in place, of which the system need not tell. *)
WriteInPlace(n) ==
    /\ there /\ at[n] # Nobody /\ clock < MaxTime /\ Act
    /\ clock' = clock + 1 /\ at' = [at EXCEPT ![n].time = clock']
    /\ \/ Notice({n})
       \/ /\ UNCHANGED dirty
          /\ forgotten' = IF polling THEN forgotten ELSE forgotten \cup {n}
    /\ Elsewhere

(* A file is made or replaced. *)
PutFile(n) ==
    /\ there /\ clock < MaxTime /\ Act
    /\ clock' = clock + 1 /\ at' = [at EXCEPT ![n] = NewFile]
    /\ Notice({n}) /\ Elsewhere

RemoveFile(n) ==
    /\ there /\ at[n] # Nobody /\ Act
    /\ at' = [at EXCEPT ![n] = Nobody]
    /\ Notice({n}) /\ Elsewhere /\ UNCHANGED clock

MoveFile(n, m) ==
    /\ there /\ at[n] # Nobody /\ at[m] = Nobody /\ Act
    /\ at' = [at EXCEPT ![m] = at[n], ![n] = Nobody]
    /\ Notice({n, m})
    /\ Elsewhere /\ UNCHANGED clock

(* The directory goes away, and its watch with it. *)
Vanish ==
    /\ there /\ there' = FALSE /\ Act
    /\ dirty' = (dirty \/ wired) /\ wired' = FALSE
    /\ forgotten' = IF wired \/ polling THEN forgotten ELSE Name
    /\ UNCHANGED <<at, clock, seen, polling, paused, queueVars, worker, itemVars, own, job>>

(* The directory is back. Nobody looks again at what was found without it, *)
(* unless its loss was noticed.                                            *)
Return ==
    /\ ~there /\ there' = TRUE
    /\ forgotten' = IF seen = NoItem /\ polling THEN forgotten
                    ELSE forgotten \cup {n \in Name : ~Known(item[n], at[n])}
    /\ UNCHANGED <<at, clock, watchVars, paused, queueVars, worker, itemVars, own, job, budget>>

----------------------------------------------------------------------------
Watch == DirectoryChanged \/ Poll \/ Flush
Refresh == Look \/ WorkerFails \/ PlanIsStale \/ PlanIsRefused \/ AcceptPlan
Operate ==
    \/ ManualRefresh \/ Prune
    \/ \E n \in Name : Edit(n) \/ Resolve(n) \/ RecycleFile(n) \/ WriteFile(n)
    \/ \E n, m \in Name : RenameFile(n, m)
    \/ \E S \in SUBSET Name : BeginApply(S)
    \/ CheckSources \/ EndWrites \/ Recapture \/ Finish
Others ==
    \/ \E n \in Name : WriteInPlace(n) \/ PutFile(n) \/ RemoveFile(n)
    \/ \E n, m \in Name : MoveFile(n, m)
    \/ Vanish \/ Return

Next == Watch \/ Refresh \/ Operate \/ Others
Spec == Init /\ [][Next]_vars

----------------------------------------------------------------------------
(* News of n is under way to the screen: the directory is to be compared,  *)
(* or an event, a worker or the pass after an Apply will come to it.       *)
Underway(n) ==
    \/ dirty
    \/ polling /\ (~there \/ seen = NoItem \/ seen[n] # at[n])
    \/ rootEvent # "none" \/ sweep \/ n \in Heard(pending)
    \/ n \in Covers(worker)
    \/ job # NoJob

(* In watching, coalescing, sorting out, planning and applying together no *)
(* news is lost but where the code is seen to drop it: what the list shows *)
(* of a file is so, is marked as in doubt, or will be looked at again.     *)
UnseenIsUnderway ==
    \A n \in Name : Known(item[n], Disk(n)) \/ Underway(n) \/ n \in forgotten

(* A plan neither drops an item with proposals nor puts another file under *)
(* them: it was made for the proposals that stand when it is applied.      *)
Standing == {<<item[n].base, item[n].shown>> : n \in {m \in Name : Proposed(m)}}
ProposalsStand == [][worker.stage = "planned" /\ worker' = NoWorker => Standing' = Standing]_vars
=============================================================================
