------------------------------- MODULE TagUndo -------------------------------
(***************************************************************************)
(* Undo of a completed Apply (core/undo_applied_batch.py) and the recovery *)
(* of an Undo that was cut off (execute_undo_recovery, which begins with   *)
(* execute_restore_recovery of core/metadata_processor.py). The batch has  *)
(* been applied and sealed: every file has its new tags, its new name, and *)
(* the identity that the manifest expects of it.                           *)
(*                                                                         *)
(* Undo looks at all files, writes its journal, and then puts back the     *)
(* saved tags of one file after the other; the application asks it to      *)
(* leave the names alone, as the only caller does. A recovery goes through *)
(* the records of the manifest again, and then moves the files back. Every *)
(* write to disk is a step; a crash, or a journal that cannot be written,  *)
(* ends the worker between any two. TagApply has the Apply, and the rename *)
(* transactions with all their failures.                                   *)
(***************************************************************************)
EXTENDS Naturals, Sequences, FiniteSets

CONSTANTS
    File,           \* the files of the batch, and their records
    Path,           \* the names of their directory
    Home, Final,    \* the name of each file before the Apply and after it
    Nobody,         \* no file, or no name
    Stranger,       \* a file of somebody else
    MaxMeddling,    \* bound: things another program does
    MaxStops,       \* bound: crashes and journals that cannot be written
    MaxFaults,      \* bound: writes and moves of media files that fail
    MaxRecoveries   \* bound: recoveries started

ASSUME NamesAssumption ==
    /\ Home \in [File -> Path] /\ Final \in [File -> Path]
    /\ \A f, g \in File : Home[f] = Home[g] \/ Final[f] = Final[g] => f = g
ASSUME NobodyAssumption ==
    Nobody \notin File \cup Path /\ Stranger \notin File /\ Nobody # Stranger
ASSUME BoundsAssumption ==
    {MaxMeddling, MaxStops, MaxFaults, MaxRecoveries} \subseteq Nat

VARIABLES
    at,         \* the file at each name
    tags,       \* the tags of each file
    stamp,      \* its size and time: who wrote it last
    log,        \* the journal of the Undo, on disk
    mem,        \* the same in the worker's memory
    pc,         \* the worker
    cur,        \* the record it is at
    left,       \* the records it has still to go through
    partial,    \* something failed or was missing
    cancel,     \* the user has asked it to stop
    budget,     \* what is left of each bound
    since,      \* (history) the names others have touched since the worker looked
    lost,       \* (history) how files with another identity were overwritten
    misled      \* (history) the records written over another file than theirs

diskVars == <<at, tags, stamp>>
workVars == <<mem, cur, left, partial, cancel>>
pastVars == <<since, lost, misled>>
vars == <<diskVars, log, pc, workVars, budget, pastVars>>

EntryState == {"none", "planned", "written", "verified", "failed", "cancelled",
               "unresolved", "complete"}
Batch == {"none", "metadata_writing", "metadata_verified", "partial", "completed", "retired"}
Step == {"intent", "completed", "rolled_back"}

(* The journal. An entry belongs to a record and is kept under the name    *)
(* its file had when the Undo began. A record whose file was refused has   *)
(* none, but a recovery may add one, without a name to move from, under    *)
(* the name the manifest has: "added".                                     *)
Journal == [batch : Batch, state : [File -> EntryState], key : [File -> Path \cup {Nobody}],
            added : [File -> EntryState], ledger : [File -> Seq(Step)]]
NoJournal == [batch |-> "none", state |-> [r \in File |-> "none"],
              key |-> [r \in File |-> Nobody], added |-> [r \in File |-> "none"],
              ledger |-> [r \in File |-> <<>>]]

(* Every variable keeps its type, and no bound is overdrawn. *)
TypeOK ==
    /\ at \in [Path -> File \cup {Nobody, Stranger}]
    /\ tags \in [File -> {"old", "new", "theirs"}]
    /\ stamp \in [File -> {"applied", "undone", "edited"}]
    /\ {log, mem} \subseteq Journal
    /\ pc \in {"ready", "idle", "undo", "write", "note", "close",
               "look", "put", "record", "plan", "moves", "move", "replace", "moved"}
    /\ cur \in File \cup {Nobody} /\ left \subseteq File
    /\ partial \in BOOLEAN /\ cancel \in BOOLEAN
    /\ budget \in [meddling : 0 .. MaxMeddling, stops : 0 .. MaxStops,
                   faults : 0 .. MaxFaults, recoveries : 0 .. MaxRecoveries]
    /\ since \subseteq Path /\ misled \subseteq File
    /\ lost \subseteq {"journalled", "unjournalled"}

NoWork == mem = NoJournal /\ cur = Nobody /\ left = {} /\ partial = FALSE /\ cancel = FALSE

Init ==
    /\ at = [p \in Path |-> IF \E f \in File : Final[f] = p
                            THEN CHOOSE f \in File : Final[f] = p ELSE Nobody]
    /\ tags = [f \in File |-> "new"]
    /\ stamp = [f \in File |-> "applied"]
    /\ log = NoJournal /\ pc = "ready" /\ NoWork
    /\ budget = [meddling |-> MaxMeddling, stops |-> MaxStops,
                 faults |-> MaxFaults, recoveries |-> MaxRecoveries]
    /\ since = {} /\ lost = {} /\ misled = {}

----------------------------------------------------------------------------
Taken(p) == at[p] # Nobody
Journalled(j) == {r \in File : j.state[r] # "none"}
Done == {"verified", "complete"}
Fault == budget.faults > 0 /\ budget' = [budget EXCEPT !.faults = @ - 1]

WorkEnds == pc' = "idle" /\ mem' = NoJournal /\ cur' = Nobody /\ left' = {}
            /\ partial' = FALSE /\ cancel' = FALSE /\ since' = {}

(* The journal is written, and the worker goes on. *)
Persist(j, next) == mem' = j /\ log' = j /\ pc' = next

(* preview_restore: where the file of record r is believed to be. *)
Current(r) ==
    IF Taken(Final[r]) THEN Final[r] ELSE IF Taken(Home[r]) THEN Home[r] ELSE Nobody

(* The file at p has the identity that the Apply gave the file of r. *)
SameIdentity(r, p) == p \in Path /\ at[p] = r /\ stamp[r] = "applied"

HasSavedTags(r, p) == at[p] = r /\ tags[r] = "old"

----------------------------------------------------------------------------
(* undo_applied_batch                                                      *)

(* All files are looked at, and those that pass are journalled. *)
BeginUndo ==
    /\ pc = "ready"
    /\ LET sound == {r \in File : SameIdentity(r, Current(r))}
       IN  /\ Persist([NoJournal EXCEPT
                         !.batch = "metadata_writing",
                         !.state = [r \in File |-> IF r \in sound THEN "planned" ELSE "none"],
                         !.key = [r \in File |-> IF r \in sound THEN Current(r) ELSE Nobody]],
                      "undo")
           /\ left' = sound
           /\ partial' = (sound # File)
    /\ UNCHANGED <<diskVars, cur, cancel, budget, pastVars>>

NextRecord(r) ==
    /\ pc = "undo" /\ r \in left
    /\ left' = left \ {r}
    /\ IF cancel
       THEN Persist([mem EXCEPT !.state[r] = "cancelled"], "undo") /\ UNCHANGED cur
       ELSE Persist([mem EXCEPT !.state[r] = "written"], "write") /\ cur' = r
    /\ UNCHANGED <<diskVars, partial, cancel, budget, pastVars>>

(* How the file at p, which record r is written over, had been known. *)
Overwritten(r, p, how) ==
    /\ lost' = IF SameIdentity(r, p) \/ p \in since THEN lost ELSE lost \cup {how}
    /\ misled' = IF at[p] = r THEN misled ELSE misled \cup {r}
    /\ UNCHANGED since

(* restore_tags of one record, over whatever is at p: nothing is written   *)
(* if it has the saved tags already.                                       *)
RestoreTags(r, p, how, ok, fails) ==
    \/ Taken(p) /\ HasSavedTags(r, p) /\ ok /\ UNCHANGED <<tags, stamp, budget, pastVars>>
    \/ /\ Taken(p) /\ ~HasSavedTags(r, p)
       /\ IF at[p] \in File
          THEN /\ tags' = [tags EXCEPT ![at[p]] = "old"]
               /\ stamp' = [stamp EXCEPT ![at[p]] = "undone"]
          ELSE UNCHANGED <<tags, stamp>>
       /\ Overwritten(r, p, how)
       /\ ok /\ UNCHANGED budget
    \/ ~Taken(p) /\ fails /\ UNCHANGED <<tags, stamp, budget, pastVars>>
    \/ Taken(p) /\ ~HasSavedTags(r, p) /\ Fault /\ fails
       /\ UNCHANGED <<tags, stamp, pastVars>>

Write ==
    /\ pc = "write" /\ pc' = "note"
    /\ IF cancel
       THEN mem' = [mem EXCEPT !.state[cur] = "cancelled"]
            /\ UNCHANGED <<tags, stamp, partial, budget, pastVars>>
       ELSE RestoreTags(cur, mem.key[cur], "journalled",
                        mem' = [mem EXCEPT !.state[cur] = "verified"] /\ UNCHANGED partial,
                        mem' = [mem EXCEPT !.state[cur] = "failed"] /\ partial' = TRUE)
    /\ UNCHANGED <<at, log, cur, left, cancel>>

Note ==
    /\ pc = "note" /\ Persist(mem, "undo") /\ cur' = Nobody
    /\ UNCHANGED <<diskVars, left, partial, cancel, budget, pastVars>>

EndUndo ==
    /\ pc = "undo" /\ left = {}
    /\ Persist([mem EXCEPT !.batch = "metadata_verified"], "close")
    /\ UNCHANGED <<diskVars, cur, left, partial, cancel, budget, pastVars>>

(* (mutant) the batch is completed whatever failed *)
CloseCompleted ==
    /\ pc = "close" /\ WorkEnds
    /\ log' = [mem EXCEPT !.batch = "completed"]
    /\ UNCHANGED <<diskVars, budget, lost, misled>>

(* A file that was cancelled counts neither as failed nor as missing. *)
Close ==
    /\ pc = "close" /\ WorkEnds
    /\ log' = [mem EXCEPT !.batch = IF partial THEN "partial" ELSE "completed"]
    /\ UNCHANGED <<diskVars, budget, lost, misled>>

----------------------------------------------------------------------------
(* find_incomplete_journals and inspect_recovery_journal                   *)

Offered == log.batch \notin {"none", "completed", "retired"}

(* resolve_owner_current: where the ledger of r says its file is; a step   *)
(* that was cut off is decided by a look at both ends.                     *)
Here(j, r) ==
    LET k == j.key[r]
        own == j.ledger[r]
        unsure == \E i \in DOMAIN own : own[i] = "intent" /\ (Taken(k) <=> Taken(Home[r]))
        last == own[Len(own)]
        place == CASE own = <<>> -> k
                   [] last = "completed" -> Home[r]
                   [] last = "rolled_back" -> k
                   [] OTHER -> IF Taken(Home[r]) THEN Home[r] ELSE k
    IN  IF ~unsure /\ Taken(place) THEN place ELSE Nobody

Pending(r) ==
    /\ log.state[r] # "complete"
    /\ log.state[r] = "verified" =>
          Here(log, r) # Home[r] /\ log.key[r] # Home[r]

(* The file has the identity it had, or the saved tags, which are known    *)
(* under the name of the manifest only.                                    *)
Evident(r) ==
    LET p == Here(log, r)
    IN  p # Nobody /\ (SameIdentity(r, p) \/ (log.key[r] = Final[r] /\ HasSavedTags(r, p)))

(* Nothing is to be done: the journal is retired without a recovery. *)
Reconcilable ==
    /\ \A r \in Journalled(log) : Evident(r) /\ ~Pending(r)
    /\ \A r \in File : log.added[r] \in Done \cup {"none"}

Reconcile ==
    /\ pc = "idle" /\ Offered /\ Reconcilable
    /\ log' = [log EXCEPT !.batch = "retired"]
    /\ UNCHANGED <<diskVars, pc, workVars, budget, pastVars>>

----------------------------------------------------------------------------
(* execute_restore_recovery: every record of the manifest, at the name the *)
(* manifest has.                                                           *)

BeginRecovery ==
    /\ pc = "idle" /\ Offered /\ ~Reconcilable
    /\ budget.recoveries > 0
    /\ budget' = [budget EXCEPT !.recoveries = @ - 1]
    /\ mem' = log /\ left' = File /\ pc' = "look"
    /\ UNCHANGED <<diskVars, log, cur, partial, cancel, pastVars>>

Keyed(r) == mem.key[r] = Final[r]
Found(r) == IF Keyed(r) THEN mem.state[r] ELSE mem.added[r]
(* An entry the journal does not have takes no state. *)
Enter(r, s) == IF Keyed(r) THEN [mem EXCEPT !.state[r] = s]
               ELSE IF mem.added[r] # "none" THEN [mem EXCEPT !.added[r] = s] ELSE mem

(* (mutant) a record without evidence is put back without another look *)
LookLightly(r) ==
    /\ pc = "look" /\ r \in left
    /\ left' = left \ {r}
    /\ IF Found(r) \in Done \/ cancel
       THEN pc' = "look" /\ UNCHANGED <<mem, log, cur>>
       ELSE Persist(Enter(r, "written"), "put") /\ cur' = r
    /\ since' = {}
    /\ UNCHANGED <<diskVars, partial, cancel, budget, lost, misled>>

Look(r) ==
    /\ pc = "look" /\ r \in left
    /\ left' = left \ {r}
    /\ \/ /\ Found(r) \in Done \/ cancel
          /\ pc' = "look" /\ UNCHANGED <<mem, log, cur>>
       \/ /\ Found(r) \notin Done /\ ~cancel
          /\ HasSavedTags(r, Final[r])
          /\ Persist(Enter(r, "verified"), "look") /\ UNCHANGED cur
       \/ /\ Found(r) \notin Done /\ ~cancel
          /\ Keyed(r) /\ Taken(Final[r])
          /\ ~HasSavedTags(r, Final[r]) /\ ~SameIdentity(r, Final[r])
          /\ Persist(Enter(r, "unresolved"), "look") /\ UNCHANGED cur
       \/ /\ Found(r) \notin Done /\ ~cancel
          /\ ~HasSavedTags(r, Final[r])
          /\ Keyed(r) /\ Taken(Final[r]) => SameIdentity(r, Final[r])
          /\ Persist(Enter(r, "written"), "put") /\ cur' = r
    /\ since' = {}
    /\ UNCHANGED <<diskVars, partial, cancel, budget, lost, misled>>

(* The outcome is entered under the name of the manifest, also where the   *)
(* journal had no entry.                                                   *)
Entered(r, s) ==
    mem' = IF Keyed(r) THEN [mem EXCEPT !.state[r] = s] ELSE [mem EXCEPT !.added[r] = s]

Put ==
    /\ pc = "put" /\ pc' = "record"
    /\ IF cancel
       THEN Entered(cur, "failed") /\ UNCHANGED <<tags, stamp, budget, pastVars>>
       ELSE RestoreTags(cur, Final[cur], IF Keyed(cur) THEN "journalled" ELSE "unjournalled",
                        Entered(cur, "verified"), Entered(cur, "failed"))
    /\ UNCHANGED <<at, log, cur, left, partial, cancel>>

Record ==
    /\ pc = "record" /\ Persist(mem, "look") /\ cur' = Nobody
    /\ UNCHANGED <<diskVars, left, partial, cancel, budget, pastVars>>

Outcome(j) ==
    IF \A r \in File : {j.state[r], j.added[r]} \subseteq Done \cup {"none"}
    THEN "completed" ELSE "partial"

(* The names come back only when all tags have. *)
EndLook ==
    /\ pc = "look" /\ left = {}
    /\ LET j == [mem EXCEPT !.batch = Outcome(mem)]
       IN  \/ /\ j.batch = "completed" /\ Persist(j, "plan")
              /\ UNCHANGED <<cur, left, partial, cancel, since>>
           \/ j.batch = "partial" /\ log' = j /\ WorkEnds
    /\ UNCHANGED <<diskVars, budget, lost, misled>>

----------------------------------------------------------------------------
(* execute_undo_recovery: the names                                        *)

(* What is home already is complete; what cannot be found, or whose name   *)
(* is taken, is given up before anything moves: names that were swapped    *)
(* are. An added entry names no file.                                      *)
PlanMoves ==
    /\ pc = "plan" /\ pc' = "moves"
    /\ LET place == [r \in Journalled(mem) |-> Here(mem, r)]
           back == {r \in Journalled(mem) : place[r] = Home[r]}
           free == {r \in Journalled(mem) : place[r] # Nobody /\ ~Taken(Home[r])}
       IN  /\ left' = free
           /\ mem' = [mem EXCEPT
                !.state = [r \in File |-> IF r \in back THEN "complete"
                                          ELSE IF r \in Journalled(mem) \ free THEN "unresolved"
                                          ELSE @[r]],
                !.added = [r \in File |-> IF @[r] = "none" THEN "none" ELSE "unresolved"]]
    /\ UNCHANGED <<diskVars, log, cur, partial, cancel, budget, pastVars>>

Intend(r) ==
    /\ pc = "moves" /\ r \in left
    /\ left' = left \ {r} /\ cur' = r
    /\ Persist([mem EXCEPT !.ledger[r] = Append(@, "intent")], "move")
    /\ UNCHANGED <<diskVars, partial, cancel, budget, pastVars>>

InLedger(r, step) == mem' = [mem EXCEPT !.ledger[r][Len(mem.ledger[r])] = step]

(* The worker looks whether it may move the file. *)
LookBack ==
    /\ pc = "move"
    /\ IF Taken(mem.key[cur]) /\ ~Taken(Home[cur])
       THEN pc' = "replace" /\ UNCHANGED mem
       ELSE pc' = "moved" /\ InLedger(cur, "rolled_back")
    /\ UNCHANGED <<diskVars, log, cur, left, partial, cancel, budget, pastVars>>

(* os.replace, a step later: what has come to the name meanwhile goes. *)
MoveBack ==
    /\ pc = "replace" /\ pc' = "moved"
    /\ LET p == mem.key[cur]
           q == Home[cur]
       IN  \/ /\ Taken(p)
              /\ at' = [at EXCEPT ![p] = Nobody, ![q] = at[p]]
              /\ InLedger(cur, "completed") /\ UNCHANGED budget
           \/ /\ ~Taken(p)
              /\ InLedger(cur, "rolled_back") /\ UNCHANGED <<at, budget>>
           \/ /\ Taken(p) /\ Fault
              /\ InLedger(cur, "rolled_back") /\ UNCHANGED at
    /\ UNCHANGED <<tags, stamp, log, cur, left, partial, cancel, pastVars>>

Settled(r) ==
    IF mem.ledger[r][Len(mem.ledger[r])] = "completed" THEN "complete" ELSE "unresolved"

(* The ledger is written with the move, the file's state with what follows. *)
NoteMove ==
    /\ pc = "moved" /\ pc' = "moves"
    /\ log' = mem
    /\ mem' = [mem EXCEPT !.state[cur] = Settled(cur)]
    /\ cur' = Nobody
    /\ UNCHANGED <<diskVars, left, partial, cancel, budget, pastVars>>

(* The controller retires the journal of a recovery that went well. *)
EndRecovery ==
    /\ pc = "moves" /\ left = {} /\ WorkEnds
    /\ log' = [mem EXCEPT !.batch = IF Outcome(mem) = "completed" THEN "retired" ELSE "partial"]
    /\ UNCHANGED <<diskVars, budget, lost, misled>>

----------------------------------------------------------------------------
(* What happens around them                                                *)

Cancel ==
    /\ pc \notin {"ready", "idle"} /\ ~cancel /\ cancel' = TRUE
    /\ UNCHANGED <<diskVars, log, pc, mem, cur, left, partial, budget, pastVars>>

Stop ==
    /\ pc \notin {"ready", "idle"} /\ budget.stops > 0
    /\ budget' = [budget EXCEPT !.stops = @ - 1]
    /\ WorkEnds
    /\ UNCHANGED <<diskVars, log, lost, misled>>

(* Another program, at any time, edits a file, takes it away, gives it     *)
(* back the name it had, or puts a file of its own at a free name. Before  *)
(* Undo begins, the name it gives back is not another file's new one: the  *)
(* journal would have the entry of one file under the name of the other.   *)
Edit(f) ==
    /\ tags' = [tags EXCEPT ![f] = "theirs"]
    /\ stamp' = [stamp EXCEPT ![f] = "edited"]
    /\ UNCHANGED at
TakeAway(f) ==
    /\ at[Final[f]] = f
    /\ at' = [at EXCEPT ![Final[f]] = Nobody]
    /\ UNCHANGED <<tags, stamp>>
GiveBack(f) ==
    /\ at[Final[f]] = f /\ ~Taken(Home[f])
    /\ pc = "ready" => \A g \in File : Final[g] # Home[f]
    /\ at' = [at EXCEPT ![Final[f]] = Nobody, ![Home[f]] = f]
    /\ UNCHANGED <<tags, stamp>>
Appear(p) == ~Taken(p) /\ at' = [at EXCEPT ![p] = Stranger] /\ UNCHANGED <<tags, stamp>>

Touched == {p \in Path : \/ at'[p] # at[p]
                         \/ at[p] \in File /\ stamp'[at[p]] # stamp[at[p]]}

Meddle ==
    /\ budget.meddling > 0
    /\ budget' = [budget EXCEPT !.meddling = @ - 1]
    /\ \/ \E f \in File : Edit(f) \/ TakeAway(f) \/ GiveBack(f)
       \/ \E p \in Path : Appear(p)
    /\ since' = IF pc \in {"ready", "idle"} THEN since ELSE since \cup Touched
    /\ UNCHANGED <<log, pc, workVars, lost, misled>>

Rest == pc = "idle" /\ UNCHANGED vars

UndoStep ==
    \/ BeginUndo \/ Write \/ Note \/ EndUndo \/ Close
    \/ \E r \in File : NextRecord(r)
RecoveryStep ==
    \/ Reconcile \/ BeginRecovery \/ Put \/ Record \/ EndLook
    \/ PlanMoves \/ LookBack \/ MoveBack \/ NoteMove \/ EndRecovery
    \/ \E r \in File : Look(r) \/ Intend(r)

Next == UndoStep \/ RecoveryStep \/ Cancel \/ Stop \/ Meddle \/ Rest

Spec == Init /\ [][Next]_vars

----------------------------------------------------------------------------
(* Correctness                                                             *)

(* Neither Undo nor the recovery of a file it has in its journal writes    *)
(* over a file that somebody else has changed, or put there, since the     *)
(* Apply, but for one that was touched after the worker had looked at it:  *)
(* before the write it does not look again.                                *)
JournalledKept == "journalled" \notin lost

(* "If a target file changed externally since the recorded Apply, restore  *)
(* refuses unsafe overwrite" (tag-editor-undo-rollback-guarantees.md):     *)
(* nor does a recovery, of any file.                                       *)
RefusedKept == lost = {}

(* An Undo that is not offered for recovery any more has put back every    *)
(* file it took on, but for those that were cancelled or edited since, and *)
(* those whose name another file had got when the tags were written.       *)
UndoneOrOffered ==
    pc = "idle" /\ ~Offered =>
        \A r \in Journalled(log) :
            \/ tags[r] = "old" \/ stamp[r] = "edited"
            \/ log.state[r] = "cancelled" \/ r \in misled

(* "This function never silently moves files" (undo_applied_batch): where  *)
(* only the tags were to be undone, no file is moved.                      *)
NamesLeftAlone ==
    [][\A p \in Path : at[p] \in File /\ at'[p] # at[p] => budget'.meddling < budget.meddling]_vars
=============================================================================
