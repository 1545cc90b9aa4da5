------------------------------ MODULE TagApply ------------------------------
(***************************************************************************)
(* One Apply of the tag editor, and its recovery after a crash: the        *)
(* MetadataApplyWorker (ui/workers/metadata_worker.py) writes the tags of  *)
(* a batch of files and renames them, under a journal and a sealed backup; *)
(* execute_recovery (core/metadata_processor.py) takes an interrupted      *)
(* batch back from what they say and from what is on disk.                 *)
(*                                                                         *)
(* Every write to disk is a step of its own: a journal, a manifest, its    *)
(* binding, a file's tags, one rename. A crash may come between any two.   *)
(*                                                                         *)
(* Journal and backup name a file by the path it had when the batch began, *)
(* its owner path. Home is that path: a record of f is the one made for    *)
(* the file that was at Home[f], wherever at says that f is now.           *)
(***************************************************************************)
EXTENDS Naturals, Sequences, FiniteSets, SequencesExt, RenameGraph

CONSTANTS
    File,           \* the files of the batch
    Path,           \* the names of their directory, temporary ones too
    Temps,          \* the temporary names
    Home, Target,   \* the name of each file, and the one proposed for it
    Tagged,         \* the files with tag proposals
    Nobody,         \* no file
    Stranger,       \* a file of somebody else
    MaxFaults,      \* bound: writes and renames that fail
    MaxCrashes,     \* bound: crashes
    MaxRecoveries,  \* bound: recoveries started
    MaxMeddling     \* bound: things another program does

ASSUME PathsAssumption ==
    /\ Home \in [File -> Path \ Temps] /\ Target \in [File -> Path \ Temps]
    /\ \A f, g \in File : Home[f] = Home[g] \/ Target[f] = Target[g] => f = g
    /\ {"missing", "unresolved"} \cap Path = {}  \* answers of Located, not names
ASSUME FilesAssumption ==
    /\ Tagged \subseteq File /\ Temps \subseteq Path
    /\ Nobody \notin File /\ Stranger \notin File /\ Nobody # Stranger
ASSUME BoundsAssumption ==
    {MaxFaults, MaxCrashes, MaxRecoveries, MaxMeddling} \subseteq Nat

VARIABLES
    alike,      \* the proposals give all files the same values; never changes
    at,         \* the file at each path
    tags,       \* the tags of each file: whose they are, and which
    stamp,      \* its size and time: who wrote it last
    manifest,   \* status of the manifest on disk
    binding,    \* status of the manifest its detached binding seals
    log,        \* the journal on disk
    mem,        \* the journal in the worker's memory
    pc,         \* the worker
    job,        \* "apply" or "recovery"
    left,       \* files whose tags it has still to write
    plan,       \* components it has still to rename
    moves,      \* what is left of the component it is renaming
    members,    \* the owners of that component
    moved,      \* ledger entries of that component whose move was done
    cause,      \* what its failure was: "none", "journal" or "move"
    status,     \* its end: "ok", "rolled_back" or "unresolved"
    clear,      \* it has looked at the ends of its next move, and may make it
    late,       \* (history) the names others have put files at since that look
    outcome,    \* what the worker reports of each file
    broken,     \* journal_failed
    cancel,     \* the user has asked it to stop
    budget,     \* what is left of each bound
    since,      \* (history) the files others have edited since the worker began
    torn,       \* (history) a worker ended before it noted what it had taken back
    lost        \* (history) the tags edited by others that recovery overwrote

diskVars == <<at, tags, stamp>>
backupVars == <<manifest, binding>>
txnVars == <<moves, members, moved, cause, status>>
lookVars == <<clear, late>>
jobVars == <<job, left, plan, outcome, broken, cancel>>
pastVars == <<since, torn, lost>>
vars == <<diskVars, backupVars, log, mem, pc, txnVars, lookVars, jobVars, budget, pastVars, alike>>

FileState == {"planned", "backed_up", "verified", "failed", "cancelled",
              "partial", "complete", "unresolved"}

Entry == [owner : File, src : Path, dst : Path,
          state : {"intent", "completed", "rolled_back", "unresolved"}]
Journal == [batch : {"none", "backing_up", "applying", "failed", "done"},
            state : [File -> FileState], posted : SUBSET File, ledger : Seq(Entry)]
NoJournal == [batch |-> "none", state |-> [f \in File |-> "planned"],
              posted |-> {}, ledger |-> <<>>]

(* Every variable keeps its type; the counters of bounds never go below 0. *)
TypeOK ==
    /\ at \in [Path -> File \cup {Nobody, Stranger}]
    /\ tags \in [File -> [of : File, what : {"old", "new", "theirs"}]]
    /\ stamp \in [File -> {"scanned", "applied", "recovered", "edited"}]
    /\ {manifest, binding} \subseteq {"none", "prepared", "completed", "partial"}
    /\ {log, mem} \subseteq Journal
    /\ pc \in {"new", "idle", "backup", "bind", "abort", "start", "tags", "note",
               "stopped", "renames", "intent", "move", "moved", "rollback",
               "rolled", "component", "closing", "remove", "finalize", "seal",
               "restore"}
    /\ job \in {"apply", "recovery"}
    /\ left \subseteq File /\ members \subseteq File /\ lost \subseteq {"new", "theirs"}
    /\ \A C \in plan \cup {moves} : C \subseteq [owner : File, src : Path, dst : Path]
    /\ moved \in Seq(1 .. Len(mem.ledger))
    /\ cause \in {"none", "journal", "move"}
    /\ status \in {"ok", "rolled_back", "unresolved"}
    /\ clear \in BOOLEAN /\ late \subseteq Path
    /\ since \subseteq File /\ torn \in BOOLEAN /\ alike \in BOOLEAN
    /\ outcome \in [File -> {"none", "success", "partial", "failed", "cancelled"}]
    /\ broken \in BOOLEAN /\ cancel \in BOOLEAN
    /\ budget \in [faults : 0 .. MaxFaults, crashes : 0 .. MaxCrashes,
                   recoveries : 0 .. MaxRecoveries, meddling : 0 .. MaxMeddling]

NoWork ==
    /\ mem = NoJournal /\ left = {} /\ plan = {} /\ moves = {} /\ members = {}
    /\ moved = <<>> /\ cause = "none" /\ status = "ok" /\ broken = FALSE
    /\ clear = FALSE /\ late = {} /\ since = {}
    /\ cancel = FALSE /\ job = "apply" /\ outcome = [f \in File |-> "none"]

Init ==
    /\ at = [p \in Path |-> IF \E f \in File : Home[f] = p
                            THEN CHOOSE f \in File : Home[f] = p ELSE Nobody]
    /\ tags = [f \in File |-> [of |-> f, what |-> "old"]]
    /\ stamp = [f \in File |-> "scanned"]
    /\ manifest = "none" /\ binding = "none" /\ log = NoJournal
    /\ pc = "new" /\ NoWork
    /\ budget = [faults |-> MaxFaults, crashes |-> MaxCrashes,
                 recoveries |-> MaxRecoveries, meddling |-> MaxMeddling]
    /\ torn = FALSE /\ lost = {}
    /\ alike \in BOOLEAN

----------------------------------------------------------------------------
(* What journal and disk say.                                              *)

Taken == {p \in Path : at[p] # Nobody}
Readable == manifest # "none" /\ binding = manifest
Offered == log.batch \notin {"none", "done"}

(* resolve_owner_current: where the file of owner o is, by its own ledger  *)
(* entries and, for a step that was cut off, by a look at both its ends.   *)
Ambiguous(e) ==
    \/ e.state = "unresolved"
    \/ (e.state = "intent" /\ (e.src \in Taken <=> e.dst \in Taken))
(* Mutant: an entry names the place its file was to go to, done or not.    *)
PlaceItIsFor(e) == e.dst
EntryPlace(e) ==
    CASE e.state = "completed" -> e.dst
      [] e.state = "rolled_back" -> e.src
      [] OTHER -> IF e.dst \in Taken THEN e.dst ELSE e.src
Located(j, o) ==
    LET own == {i \in DOMAIN j.ledger : j.ledger[i].owner = o}
        last == CHOOSE i \in own : \A k \in own : k <= i
        place == IF own = {} THEN Home[o] ELSE EntryPlace(j.ledger[last])
    IN  CASE \E i \in own : Ambiguous(j.ledger[i]) -> "unresolved"
          [] place \notin Taken -> "missing"
          [] OTHER -> place

(* The file f is the one the journal recorded for o: its identity after    *)
(* the write, or the one it was planned with.                              *)
Posted(o) == IF o \in Tagged THEN "applied" ELSE "scanned"
(* Mutant: a file is known by its path alone.                              *)
ByPathAlone(j, o, f) == f = o

SameIdentity(j, o, f) ==
    f = o /\ ((o \in j.posted /\ stamp[o] = Posted(o)) \/ stamp[o] = "scanned")
(* Its proposed fields have the values the batch gave those of o.          *)
HasExpectedFields(o, f) ==
    o \in Tagged /\ tags[f].what = "new" /\ (tags[f].of = o \/ alike)
HasSavedTags(o, f) == f \in File /\ tags[f] = [of |-> o, what |-> "old"]
Evidence(j, o, f) ==
    f \in File /\ (SameIdentity(j, o, f) \/ HasExpectedFields(o, f) \/ HasSavedTags(o, f))

----------------------------------------------------------------------------
(* Writing the journal: it goes to the next step, or fails and goes on     *)
(* elsewhere.                                                              *)

Fault == budget.faults > 0 /\ budget' = [budget EXCEPT !.faults = @ - 1]

Persist(j, next, otherwise) ==
    /\ mem' = j
    /\ \/ log' = j /\ pc' = next /\ UNCHANGED budget
       \/ Fault /\ pc' = otherwise /\ UNCHANGED log

(* Taking the journal off the disk.                                        *)
Retire == (log' = NoJournal /\ UNCHANGED budget) \/ (Fault /\ UNCHANGED log)

Put(f, what, by) ==
    /\ tags' = [tags EXCEPT ![f] = what]
    /\ stamp' = [stamp EXCEPT ![f] = by]

----------------------------------------------------------------------------
(* Apply: journal, backup, tags.                                           *)

ApplyMoves == {Move(f, Home[f], Target[f]) : f \in {g \in File : Home[g] # Target[g]}}

(* run: the reviewed files have not changed and no rename is blocked.      *)
BeginApply ==
    /\ pc = "new"
    /\ \A f \in File : stamp[f] = "scanned"
    /\ Blocked(ApplyMoves, Taken) = {}
    /\ left' = File /\ plan' = Components(ApplyMoves)
    /\ Persist([NoJournal EXCEPT !.batch = "backing_up"], "backup", "idle")
    /\ UNCHANGED <<diskVars, backupVars, txnVars, lookVars, job, outcome, broken, cancel, pastVars>>

(* Mutant: the batch goes on without its backup.                           *)
BackupIgnored == Fault /\ pc' = "start" /\ UNCHANGED <<backupVars, mem>>

BackupFails ==
    /\ Fault
    /\ mem' = [mem EXCEPT !.batch = "failed"] /\ pc' = "abort"
    /\ UNCHANGED backupVars

(* Mutant: the manifest is published with the status of the batch.         *)
WriteUnknownStatus ==
    /\ pc = "backup" /\ manifest' = mem.batch /\ pc' = "bind"
    /\ UNCHANGED <<binding, mem, budget>>
    /\ UNCHANGED <<diskVars, log, txnVars, lookVars, jobVars, pastVars>>

WriteManifest ==
    /\ pc = "backup"
    /\ \/ manifest' = "prepared" /\ pc' = "bind" /\ UNCHANGED <<binding, mem, budget>>
       \/ BackupFails
    /\ UNCHANGED <<diskVars, log, txnVars, lookVars, jobVars, pastVars>>

WriteBinding ==
    /\ pc = "bind"
    /\ \/ binding' = manifest /\ pc' = "start" /\ UNCHANGED <<manifest, mem, budget>>
       \/ BackupFails
    /\ UNCHANGED <<diskVars, log, txnVars, lookVars, jobVars, pastVars>>

Abort ==
    /\ pc = "abort"
    /\ Persist(mem, "idle", "idle")
    /\ UNCHANGED <<diskVars, backupVars, txnVars, lookVars, jobVars, pastVars>>

(* Mutant: BACKED_UP and APPLYING are noted in memory only.                *)
StartUnnoted ==
    /\ pc = "start" /\ pc' = "tags"
    /\ mem' = [mem EXCEPT !.batch = "applying", !.state = [f \in File |-> "backed_up"]]
    /\ UNCHANGED <<diskVars, backupVars, log, txnVars, lookVars, jobVars, budget, pastVars>>

StartApplying ==
    /\ pc = "start"
    /\ Persist([mem EXCEPT !.batch = "applying", !.state = [f \in File |-> "backed_up"]],
               "tags", "idle")
    /\ UNCHANGED <<diskVars, backupVars, txnVars, lookVars, jobVars, pastVars>>

(* _write_one: a copy is written, verified and put in the file's place, or *)
(* nothing happens to the file.                                            *)
WriteTags(f) ==
    /\ pc = "tags" /\ ~cancel /\ f \in left
    /\ left' = left \ {f} /\ pc' = "note"
    /\ \/ /\ IF f \in Tagged THEN Put(f, [of |-> f, what |-> "new"], "applied")
                             ELSE UNCHANGED <<tags, stamp>>
          /\ mem' = [mem EXCEPT !.state[f] = "verified", !.posted = @ \cup {f}]
          /\ outcome' = [outcome EXCEPT ![f] = "success"]
          /\ UNCHANGED budget
       \/ /\ f \in Tagged /\ Fault
          /\ mem' = [mem EXCEPT !.state[f] = "failed"]
          /\ outcome' = [outcome EXCEPT ![f] = "failed"]
          /\ UNCHANGED <<tags, stamp>>
    /\ UNCHANGED <<at, backupVars, log, txnVars, lookVars, job, plan, broken, cancel, pastVars>>

Note ==
    /\ pc = "note"
    /\ Persist(mem, IF left = {} THEN "renames" ELSE "tags", "stopped")
    /\ broken' = (pc' = "stopped")
    /\ UNCHANGED <<diskVars, backupVars, txnVars, lookVars, job, left, plan, outcome, cancel, pastVars>>

(* Cancelled between two files, or stopped by a journal that fails: the    *)
(* rest is cancelled and nothing is renamed.                               *)
StopWriting ==
    /\ pc = "stopped" \/ (pc = "tags" /\ cancel)
    /\ outcome' = [f \in File |-> IF f \in left THEN "cancelled" ELSE outcome[f]]
    /\ Persist([mem EXCEPT !.state = [f \in File |-> IF f \in left THEN "cancelled" ELSE @[f]]],
               "closing", "closing")
    /\ broken' = (broken \/ budget' # budget)
    /\ left' = {}
    /\ UNCHANGED <<diskVars, backupVars, txnVars, lookVars, job, plan, cancel, pastVars>>

----------------------------------------------------------------------------
(* The renames: one transaction for each component, of Apply and recovery. *)

PartsOf(S) == [f \in File |-> IF f \in S /\ outcome[f] = "success" THEN "partial"
                                                               ELSE outcome[f]]
PartialIn(S) == [mem EXCEPT !.state =
    [f \in File |-> IF f \in S /\ outcome[f] = "success" THEN "partial" ELSE @[f]]]

OwnersOf(C) == {m.owner : m \in C}

(* A component begins if all its members have their tags.                  *)
BeginComponent(C) ==
    /\ pc = "renames" /\ C \in plan
    /\ plan' = plan \ {C}
    /\ IF job = "apply" /\ (cancel \/ \E f \in OwnersOf(C) : outcome[f] # "success")
       THEN /\ outcome' = PartsOf(OwnersOf(C)) /\ mem' = PartialIn(OwnersOf(C))
            /\ UNCHANGED <<pc, txnVars, lookVars>>
       ELSE /\ moves' = C /\ members' = OwnersOf(C) /\ pc' = "intent"
            /\ moved' = <<>> /\ cause' = "none" /\ status' = "ok"
            /\ UNCHANGED <<outcome, mem, lookVars>>
    /\ UNCHANGED <<diskVars, backupVars, log, job, left, broken, cancel, budget, pastVars>>

InState(j, i, s) == [j EXCEPT !.ledger[i].state = s]
FreshTemps == {t \in Temps \ Taken : \A i \in DOMAIN mem.ledger :
                                        t \notin {mem.ledger[i].src, mem.ledger[i].dst}}

(* The intent is on disk before the move.                                  *)
Intend ==
    /\ pc = "intent"
    /\ \E s \in Steps(moves, FreshTemps) :
        LET e == [owner |-> s.step.owner, src |-> s.step.src, dst |-> s.step.dst,
                  state |-> "intent"]
            j == [mem EXCEPT !.ledger = Append(@, e)]
        IN  \/ /\ mem' = j /\ log' = j /\ pc' = "move" /\ moves' = s.left
               /\ UNCHANGED <<budget, cause, status>>
            \/ /\ Fault /\ mem' = InState(j, Len(j.ledger), "rolled_back")
               /\ pc' = "rollback" /\ cause' = "journal" /\ status' = "rolled_back"
               /\ UNCHANGED <<log, moves>>
    /\ UNCHANGED <<diskVars, backupVars, members, moved, lookVars, jobVars, pastVars>>

(* Mutant: a plain replace, without the look.                              *)
MoveAnyway(e) == TRUE

(* What the worker looks for before it moves a file, and before it moves   *)
(* one back.                                                               *)
CanMove(e) == e.dst \notin Taken
CanMoveBack(e) == e.dst \in Taken /\ e.src \notin Taken

Look ==
    /\ \/ pc = "move" /\ CanMove(Last(mem.ledger))
       \/ pc = "rollback" /\ moved # <<>> /\ CanMoveBack(mem.ledger[Last(moved)])
    /\ ~clear /\ clear' = TRUE
    /\ UNCHANGED <<diskVars, backupVars, log, mem, pc, txnVars, late, jobVars, budget, pastVars>>

LookIsOver == clear' = FALSE /\ late' = {}

(* os.replace, a step after the look: what has come to dst meanwhile goes. *)
MoveFile ==
    /\ pc = "move" /\ LookIsOver
    /\ LET n == Len(mem.ledger)  e == mem.ledger[n]
       IN  \/ /\ clear /\ at[e.src] # Nobody
              /\ at' = [at EXCEPT ![e.dst] = at[e.src], ![e.src] = Nobody]
              /\ mem' = InState(mem, n, "completed") /\ moved' = Append(moved, n)
              /\ pc' = "moved"
              /\ UNCHANGED <<cause, status, budget>>
           \/ /\ \/ clear /\ at[e.src] # Nobody /\ Fault
                 \/ clear /\ at[e.src] = Nobody /\ UNCHANGED budget
                 \/ ~clear /\ ~CanMove(e) /\ UNCHANGED budget
              /\ mem' = InState(mem, n, "rolled_back")
              /\ cause' = "move" /\ status' = "rolled_back" /\ pc' = "rollback"
              /\ UNCHANGED <<at, moved>>
    /\ UNCHANGED <<tags, stamp, backupVars, log, moves, members, jobVars, pastVars>>

NoteMove ==
    /\ pc = "moved"
    /\ Persist(mem, IF moves = {} THEN "component" ELSE "intent", "rollback")
    /\ IF pc' = "rollback" THEN cause' = "journal" /\ status' = "rolled_back"
                            ELSE UNCHANGED <<cause, status>>
    /\ UNCHANGED <<diskVars, backupVars, moves, members, moved, lookVars, jobVars, pastVars>>

(* The moves of a failed component are taken back, the last one first.     *)
RollBackMove ==
    /\ pc = "rollback" /\ moved # <<>> /\ LookIsOver
    /\ moved' = Front(moved)
    /\ LET i == Last(moved)  e == mem.ledger[i]
           stuck == /\ mem' = InState(mem, i, "unresolved") /\ status' = "unresolved"
                    /\ UNCHANGED at
           undone == mem' = InState(mem, i, "rolled_back") /\ UNCHANGED <<status, budget>>
       IN  \/ ~clear /\ e.dst \in Taken /\ e.src \in Taken /\ stuck /\ UNCHANGED budget
           \/ ~clear /\ e.dst \notin Taken /\ undone /\ UNCHANGED at
           \/ clear /\ stuck /\ Fault
           \/ clear /\ undone
              /\ at' = [at EXCEPT ![e.src] = at[e.dst], ![e.dst] = Nobody]
    /\ UNCHANGED <<tags, stamp, backupVars, log, pc, moves, members, cause, jobVars, pastVars>>

(* The rollback is on disk only when it is over. If it cannot be written,  *)
(* it is tried once more and counts as failed.                             *)
NoteRollback ==
    /\ pc = "rollback" /\ moved = <<>>
    /\ Persist(mem, "component", "rolled")
    /\ status' = IF pc' = "rolled" THEN "unresolved" ELSE status
    /\ UNCHANGED <<diskVars, backupVars, moves, members, moved, cause, lookVars, jobVars, pastVars>>

NoteAgain ==
    /\ pc = "rolled"
    /\ Persist(mem, "component", "component")
    /\ UNCHANGED <<diskVars, backupVars, txnVars, lookVars, jobVars, pastVars>>

EndTxn == moves' = {} /\ members' = {} /\ moved' = <<>> /\ cause' = "none" /\ status' = "ok"
          /\ LookIsOver

(* _execute_rename_component, after the transaction.                       *)
ApplyComponent ==
    /\ pc = "component" /\ job = "apply"
    /\ CASE status = "ok" ->
                /\ Persist([mem EXCEPT !.state = [f \in File |->
                              IF f \in members THEN "complete" ELSE @[f]]],
                           "renames", "closing")
                /\ broken' = (pc' = "closing") /\ UNCHANGED outcome
         [] status = "rolled_back" ->
                /\ outcome' = PartsOf(members) /\ mem' = PartialIn(members)
                /\ broken' = (cause = "journal") /\ UNCHANGED <<log, budget>>
                /\ pc' = IF cause = "journal" THEN "closing" ELSE "renames"
         [] status = "unresolved" ->
                /\ outcome' = [f \in File |-> IF f \in members THEN "partial" ELSE outcome[f]]
                /\ mem' = [mem EXCEPT !.state = [f \in File |->
                              IF f \in members THEN "unresolved" ELSE @[f]]]
                /\ broken' = (cause = "journal") /\ UNCHANGED <<log, budget>>
                /\ pc' = IF cause = "journal" THEN "closing" ELSE "renames"
    /\ EndTxn
    /\ UNCHANGED <<diskVars, backupVars, job, left, plan, cancel, pastVars>>

----------------------------------------------------------------------------
(* The end of Apply.                                                       *)

EndRenames ==
    /\ pc = "renames" /\ plan = {} /\ job = "apply"
    /\ Persist([mem EXCEPT !.state = [f \in File |->
                  IF outcome[f] = "success" /\ f \notin OwnersOf(ApplyMoves)
                  THEN "complete" ELSE @[f]]],
               "closing", "closing")
    /\ broken' = (budget' # budget)
    /\ UNCHANGED <<diskVars, backupVars, txnVars, lookVars, job, left, plan, outcome, cancel, pastVars>>

Clean == ~broken /\ \A f \in File : outcome[f] = "success"

Close ==
    /\ pc = "closing"
    /\ IF Clean THEN Persist([mem EXCEPT !.batch = "done"], "remove", "remove")
                ELSE Persist(mem, "finalize", "finalize")
    /\ UNCHANGED <<diskVars, backupVars, txnVars, lookVars, jobVars, pastVars>>

RemoveJournal ==
    /\ pc = "remove" /\ pc' = "finalize"
    /\ Retire
    /\ UNCHANGED <<diskVars, backupVars, mem, txnVars, lookVars, jobVars, pastVars>>

(* A move taken back on disk that the journal on disk calls completed.     *)
Untold == \E i \in DOMAIN log.ledger \cap DOMAIN mem.ledger :
             log.ledger[i].state = "completed" /\ mem.ledger[i].state = "rolled_back"

WorkEnds == pc' = "idle" /\ EndTxn /\ mem' = NoJournal /\ left' = {} /\ plan' = {}
            /\ broken' = FALSE /\ cancel' = FALSE /\ job' = "apply"
            /\ outcome' = [f \in File |-> "none"]
            /\ since' = {} /\ torn' = (torn \/ Untold)

(* Mutant: the manifest is completed whatever the outcomes.                *)
FinalizeCompleted ==
    /\ pc = "finalize"
    /\ \/ manifest' = "completed" /\ pc' = "seal" /\ UNCHANGED <<mem, txnVars, lookVars, jobVars, budget, since, torn>>
       \/ Fault /\ WorkEnds /\ UNCHANGED manifest
    /\ UNCHANGED <<diskVars, binding, log, lost>>

(* finalize_manifest: the manifest with its outcome, then its binding.     *)
FinalizeManifest ==
    /\ pc = "finalize"
    /\ \/ /\ manifest' = IF Clean THEN "completed" ELSE "partial"
          /\ pc' = "seal"
          /\ UNCHANGED <<mem, txnVars, lookVars, jobVars, budget, since, torn>>
       \/ Fault /\ WorkEnds /\ UNCHANGED manifest
    /\ UNCHANGED <<diskVars, binding, log, lost>>

Seal ==
    /\ pc = "seal" /\ WorkEnds
    /\ \/ binding' = manifest /\ UNCHANGED budget
       \/ Fault /\ UNCHANGED binding
    /\ UNCHANGED <<diskVars, manifest, log, lost>>

----------------------------------------------------------------------------
(* inspect_recovery_journal: a look at journal, backup and disk.           *)

Here(f) == Located(log, f)
Changed(f) == f \in log.posted /\ Here(f) \in Path
              /\ ~(at[Here(f)] = f /\ stamp[f] = Posted(f))
Pending(f) == /\ log.state[f] # "complete"
              /\ log.state[f] = "verified" =>
                    Here(f) # Target[f] /\ Home[f] # Target[f]
Consistent == \A f \in File : Here(f) \in Path /\ ~Changed(f)
Reconcilable == manifest # "none" /\ Consistent /\ \A f \in File : ~Pending(f)

----------------------------------------------------------------------------
(* Recovery, at the user's wish, of a journal that is not done.            *)

(* execute_recovery up to the first move: the backup must be readable, and *)
(* each file be found and have evidence that it is the recorded one.       *)
BeginRecovery ==
    /\ pc = "idle" /\ Offered /\ Readable /\ ~Reconcilable
    /\ budget.recoveries > 0
    /\ budget' = [budget EXCEPT !.recoveries = @ - 1]
    /\ LET here == [f \in File |-> Here(f)]
           sure == {f \in File : here[f] \in Path /\ Evidence(log, f, at[here[f]])}
           back == {Move(f, here[f], Home[f]) : f \in {g \in sure : here[g] # Home[g]}}
           bad == Blocked(back, Taken)
       IN  /\ plan' = Components(back \ bad)
           /\ outcome' = [f \in File |-> IF f \in sure \ OwnersOf(bad) THEN "success" ELSE "failed"]
    /\ mem' = log /\ job' = "recovery" /\ left' = File /\ pc' = "renames"
    /\ broken' = FALSE /\ cancel' = FALSE
    /\ UNCHANGED <<diskVars, backupVars, log, txnVars, lookVars, pastVars>>

RecoveryComponent ==
    /\ pc = "component" /\ job = "recovery"
    /\ outcome' = [f \in File |-> IF f \in members /\ status # "ok" THEN "failed"
                                                                  ELSE outcome[f]]
    /\ pc' = "renames" /\ EndTxn
    /\ UNCHANGED <<diskVars, backupVars, log, mem, job, left, plan, broken, cancel, budget, pastVars>>

BeginRestore ==
    /\ pc = "renames" /\ plan = {} /\ job = "recovery"
    /\ pc' = "restore"
    /\ UNCHANGED <<diskVars, backupVars, log, mem, txnVars, lookVars, jobVars, budget, pastVars>>

(* The tags saved for f are written to the file at f's original path.      *)
Restore(f) ==
    /\ pc = "restore" /\ f \in left /\ left' = left \ {f}
    /\ LET found == at[Home[f]]
           fails == /\ outcome' = [outcome EXCEPT ![f] = "failed"]
                    /\ UNCHANGED <<tags, stamp, lost>>
       IN  IF outcome[f] # "success" \/ cancel \/ found = Nobody
           THEN fails /\ UNCHANGED budget
           ELSE IF HasSavedTags(f, found)
           THEN UNCHANGED <<outcome, tags, stamp, lost, budget>>
           ELSE \/ /\ IF found \in File
                      THEN /\ Put(found, [of |-> f, what |-> "old"], "recovered")
                           /\ lost' = IF stamp[found] = "edited" /\ found \notin since
                                      THEN lost \cup {tags[found].what} ELSE lost
                      ELSE lost' = lost \cup {"theirs"} /\ UNCHANGED <<tags, stamp>>
                   /\ UNCHANGED <<outcome, budget>>
                \/ Fault /\ fails
    /\ UNCHANGED <<at, backupVars, log, mem, pc, txnVars, lookVars, job, plan, broken, cancel, since, torn>>

(* Mutant: a file that could not be found or known does not count.         *)
RecoveredMost == \E f \in File : outcome[f] = "success"

(* The journal is retired when every file is back.                         *)
Recovered == \A f \in File : outcome[f] = "success"

EndRecovery ==
    /\ pc = "restore" /\ left = {} /\ WorkEnds
    /\ IF Recovered THEN Retire ELSE UNCHANGED <<log, budget>>
    /\ UNCHANGED <<diskVars, backupVars, lost>>

----------------------------------------------------------------------------
(* Retiring a journal without a recovery.                                  *)

(* Nothing is pending: the batch was over but for its last record.         *)
Reconcile ==
    /\ pc = "idle" /\ Offered /\ Reconcilable
    /\ Retire
    /\ UNCHANGED <<diskVars, backupVars, mem, pc, txnVars, lookVars, jobVars, pastVars>>

(* Nothing was written, for want of a backup.                              *)
Forget ==
    /\ pc = "idle" /\ log.batch = "failed"
    /\ \A f \in File : log.state[f] \in {"planned", "backed_up"}
    /\ Retire
    /\ UNCHANGED <<diskVars, backupVars, mem, pc, txnVars, lookVars, jobVars, pastVars>>

----------------------------------------------------------------------------
(* What happens around them.                                               *)

Cancel ==
    /\ pc \notin {"new", "idle"} /\ ~cancel /\ cancel' = TRUE
    /\ UNCHANGED <<diskVars, backupVars, log, mem, pc, txnVars, lookVars, job, left, plan, outcome, broken,
                   budget, pastVars>>

Crash ==
    /\ pc \notin {"new", "idle"} /\ budget.crashes > 0
    /\ budget' = [budget EXCEPT !.crashes = @ - 1]
    /\ WorkEnds
    /\ UNCHANGED <<diskVars, backupVars, log, lost>>

(* Another program, at any time: it changes the tags of a file (also       *)
(* fields the batch leaves alone), or puts a file of its own at a free     *)
(* name.                                                                   *)
Edit(f) ==
    \/ Put(f, [tags[f] EXCEPT !.what = "theirs"], "edited")
    \/ tags[f].what = "new" /\ Put(f, tags[f], "edited")

Meddle ==
    /\ pc # "new" /\ budget.meddling > 0
    /\ budget' = [budget EXCEPT !.meddling = @ - 1]
    /\ \/ \E f \in File :
              /\ Edit(f) /\ UNCHANGED <<at, late>>
              /\ since' = IF pc = "idle" THEN since ELSE since \cup {f}
       \/ \E p \in Path \ (Taken \cup Temps) :
              /\ at' = [at EXCEPT ![p] = Stranger] /\ UNCHANGED <<tags, stamp, since>>
              /\ late' = IF clear THEN late \cup {p} ELSE late
    /\ UNCHANGED <<backupVars, log, mem, pc, txnVars, clear, jobVars, torn, lost>>

Rest == pc = "idle" /\ UNCHANGED vars

TxnStep ==
    \/ \E C \in plan : BeginComponent(C)
    \/ Intend \/ Look \/ MoveFile \/ NoteMove \/ RollBackMove \/ NoteRollback \/ NoteAgain

ApplyStep ==
    \/ BeginApply \/ WriteManifest \/ WriteBinding \/ Abort \/ StartApplying
    \/ \E f \in File : WriteTags(f)
    \/ Note \/ StopWriting \/ ApplyComponent \/ EndRenames
    \/ Close \/ RemoveJournal \/ FinalizeManifest \/ Seal

RecoveryStep ==
    \/ BeginRecovery \/ RecoveryComponent \/ BeginRestore
    \/ \E f \in File : Restore(f)
    \/ EndRecovery \/ Reconcile \/ Forget

Next ==
    /\ TxnStep \/ ApplyStep \/ RecoveryStep \/ Cancel \/ Crash \/ Meddle \/ Rest
    /\ UNCHANGED alike

Spec == Init /\ [][Next]_vars

----------------------------------------------------------------------------
(* Correctness.                                                            *)

AtHome(f) == at[Home[f]] = f /\ (tags[f].what = "old" \/ stamp[f] = "edited")
Done(f) ==
    /\ at[Target[f]] = f
    /\ f \in Tagged /\ stamp[f] # "edited" => tags[f].what = "new"

(* Recovery cannot tell two files apart, where the journal names a place   *)
(* for one that another is at, if the batch gives both the same values:    *)
(* it is so once a rollback is lost that the journal on disk does not      *)
(* know of.                                                                *)
Mistakable == alike /\ torn

(* Recovery is offered whenever there is something to recover: with no     *)
(* journal on offer and no worker, the batch has been applied to all its   *)
(* files, or to none.                                                      *)
SilentMeansWhole ==
    pc \in {"new", "idle"} /\ ~Offered /\ ~Mistakable =>
        (\A f \in File : AtHome(f)) \/ (\A f \in File : Done(f))

(* No file is given the tags saved for another one.                        *)
TagsAreOwn == ~Mistakable => \A f \in File : tags[f].of = f

(* While a batch is open, what may have to be restored has a backup, and   *)
(* it can be read unless the last write to it, its finalization, was cut   *)
(* in half.                                                                *)
BackupStands ==
    Offered /\ (\E f \in File : ~AtHome(f)) =>
        Readable \/ (manifest \in {"partial", "completed"} /\ binding = "prepared")

(* The same without the exception, as write_manifest's "atomically publish *)
(* a sealed manifest and its detached operation binding" has it.           *)
BackupReadable ==
    pc = "idle" /\ Offered /\ (\E f \in File : ~AtHome(f)) => Readable

(* A completed manifest, which Undo works from, belongs to a batch whose   *)
(* journal is gone or says of every file that nothing is left to do:       *)
(* Undo and the recovery of one batch do not meet.                         *)
CompletedIsClosed ==
    manifest = "completed" => ~Offered \/ \A f \in File : log.state[f] = "complete"

(* Recovery writes over no field of the batch that another program has     *)
(* changed since.                                                          *)
ForeignKept == ~Mistakable => "theirs" \notin lost

(* Nor over any file that another program has changed since.               *)
EditedKept == lost = {}

(* Files of the batch are moved, never overwritten, and a file of somebody *)
(* else stays put, unless it came between the look and the replace, or is  *)
(* taken for one of the batch.                                             *)
NothingOverwritten ==
    [][/\ \A p \in Path : at[p] \in File => \E q \in Path : at'[q] = at[p]
       /\ ~Mistakable => \A p \in Path \ late : at[p] = Stranger => at'[p] = Stranger]_vars

(* The worker changes media files only under a journal that says so on     *)
(* disk, and with a backup: but for a file that was edited under it, which *)
(* a recovery it began then restores.                                      *)
WrittenUnderJournal ==
    [][/\ \A f \in File : tags'[f] # tags[f] /\ stamp'[f] # "edited" =>
             Readable /\ (log.batch = "applying" \/ (job = "recovery" /\ f \in since))
       /\ (\E p \in Path : at[p] \in File /\ at'[p] # at[p]) =>
             Readable /\ log.batch = "applying"]_vars
=============================================================================
