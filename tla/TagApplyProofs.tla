---------------------------- MODULE TagApplyProofs ----------------------------
(***************************************************************************)
(* What holds of TagApply for any batch, any names and any bounds. The     *)
(* proofs follow the worker.                                               *)
(*                                                                         *)
(*  - Phases says what journal and backup on disk hold at each of its      *)
(*    steps. From it come WritesUnderJournal (no file is touched before    *)
(*    the journal says so) and BackupKept.                                 *)
(*  - Covered and Closing say that no file to be renamed is forgotten      *)
(*    before the journal counts it as complete: CompletedCloses.           *)
(*  - Places says where the file of each planned move, of each move under  *)
(*    way and of each move done is: TagsStayOwn, ForeignStays, NothingLost.*)
(*  - Told says what the journals tell of each file before a recovery      *)
(*    begins, and that afterwards some file of an open batch stays short   *)
(*    of done until it is brought back: SilenceIsWhole.                    *)
(*                                                                         *)
(* Places and Told hold as long as recovery can tell the files apart       *)
(* (~Mistakable): Traced says what of the journal on disk it can rely on,  *)
(* Recognised what of the files, when the batch gives them the same values.*)
(***************************************************************************)
EXTENDS TagApply, SequenceTheorems, TLAPS

(* Between the renames of two components nothing is in hand; a move comes   *)
(* after its intent.                                                       *)
Renaming == {"intent", "move", "moved", "rollback", "rolled", "component"}
Quiet ==
    /\ pc \notin Renaming => moves = {} /\ members = {} /\ moved = <<>>
                           /\ cause = "none" /\ status = "ok"
    /\ pc = "move" => mem.ledger # <<>>

(* Where the worker has looked nobody is, or somebody who came since.      *)
Open(p) == at[p] = Nobody \/ (at[p] = Stranger /\ p \in late)
Looked ==
    /\ clear => pc \in {"move", "rollback"}
    /\ clear /\ pc = "move" => Open(mem.ledger[Len(mem.ledger)].dst)
    /\ clear /\ pc = "rollback" =>
            /\ moved # <<>> /\ Open(mem.ledger[Last(moved)].src)
            /\ at[mem.ledger[Last(moved)].dst] # Nobody
    /\ ~clear => late = {}

(* The stamp of a file says who gave it its tags.                          *)
Stamped ==
    \A f \in File : /\ stamp[f] = "edited" => tags[f].what # "old"
                    /\ tags[f].what = "theirs" => stamp[f] = "edited"
                    /\ stamp[f] = "applied" => tags[f].what = "new"

Typed == TypeOK /\ Quiet /\ Looked /\ Stamped

----------------------------------------------------------------------------
(* Lemmas                                                                  *)

(* A changed journal is a journal. *)
LEMMA JournalStep ==
    ASSUME NEW j \in Journal
    PROVE  /\ NoJournal \in Journal
           /\ \A b \in {"none", "backing_up", "applying", "failed", "done"} :
                [j EXCEPT !.batch = b] \in Journal
           /\ \A s \in [File -> FileState] : [j EXCEPT !.state = s] \in Journal
           /\ \A e \in Entry : [j EXCEPT !.ledger = Append(@, e)] \in Journal
           /\ \A i \in 1 .. Len(j.ledger), s \in {"intent", "completed", "rolled_back", "unresolved"} :
                /\ InState(j, i, s) \in Journal
                /\ Len(InState(j, i, s).ledger) = Len(j.ledger)
<1>1. NoJournal \in Journal
  <2>1. <<>> \in Seq(Entry)
    OBVIOUS
  <2> QED
    BY <2>1 DEF NoJournal, Journal, FileState
<1>2. ASSUME NEW i \in 1 .. Len(j.ledger),
             NEW s \in {"intent", "completed", "rolled_back", "unresolved"}
      PROVE  /\ InState(j, i, s) \in Journal
             /\ Len(InState(j, i, s).ledger) = Len(j.ledger)
  <2>1. j.ledger \in Seq(Entry) /\ j.ledger[i] \in Entry
    BY DEF Journal
  <2>2. [j.ledger[i] EXCEPT !.state = s] \in Entry
    BY <2>1 DEF Entry
  <2>3. [j.ledger EXCEPT ![i] = [j.ledger[i] EXCEPT !.state = s]] \in Seq(Entry)
    BY <2>1, <2>2, ExceptSeq
  <2>4. Len([j.ledger EXCEPT ![i] = [j.ledger[i] EXCEPT !.state = s]]) = Len(j.ledger)
    BY <2>1, <2>2, ExceptSeq
  <2> QED
    BY <2>3, <2>4 DEF InState, Journal
<1>3. ASSUME NEW e \in Entry PROVE [j EXCEPT !.ledger = Append(@, e)] \in Journal
  <2>1. Append(j.ledger, e) \in Seq(Entry)
    BY DEF Journal
  <2> QED
    BY <2>1 DEF Journal
<1> QED
  BY <1>1, <1>2, <1>3 DEF Journal

(* What the next step of a component moves, and what it leaves.            *)
LEMMA StepsTyped ==
    ASSUME NEW C \in SUBSET [owner : File, src : Path, dst : Path],
           NEW s \in Steps(C, FreshTemps)
    PROVE  /\ s.step \in [owner : File, src : Path, dst : Path]
           /\ s.left \subseteq [owner : File, src : Path, dst : Path]
           /\ \E m \in C : s.step.owner = m.owner /\ s.step.src = m.src
<1>1. FreshTemps \subseteq Path
  BY FilesAssumption DEF FreshTemps
<1>2. Free(C) \subseteq C
  BY DEF Free
<1> QED
  BY <1>1, <1>2 DEF Steps

(* Every step leaves a journal on disk and one in memory. *)
LEMMA JournalsTyped == Typed /\ [Next]_vars => (log \in Journal /\ mem \in Journal)'
<1> SUFFICES ASSUME Typed, [Next]_vars PROVE (log \in Journal /\ mem \in Journal)'
  OBVIOUS
<1>t. TypeOK /\ moves \in SUBSET [owner : File, src : Path, dst : Path]
  BY DEF Typed, TypeOK
<1>j. log \in Journal /\ mem \in Journal
  BY DEF Typed, TypeOK
<1>m. /\ NoJournal \in Journal
      /\ \A b \in {"none", "backing_up", "applying", "failed", "done"} :
           [mem EXCEPT !.batch = b] \in Journal /\ [NoJournal EXCEPT !.batch = b] \in Journal
  BY <1>j, JournalStep
<1>p. \A S : PartialIn(S) \in Journal
  <2> SUFFICES ASSUME NEW S PROVE PartialIn(S) \in Journal
    OBVIOUS
  <2> DEFINE s == [f \in File |-> IF f \in S /\ outcome[f] = "success" THEN "partial" ELSE mem.state[f]]
  <2>1. s \in [File -> FileState]
    BY <1>j DEF Journal, FileState
  <2>2. PartialIn(S) = [mem EXCEPT !.state = s]
    BY DEF PartialIn
  <2> HIDE DEF s
  <2> QED
    BY <2>1, <2>2, <1>j, JournalStep
<1>1. ASSUME NEW C \in plan, BeginComponent(C) PROVE (log \in Journal /\ mem \in Journal)'
  <2>1. log' = log /\ mem' \in {mem, PartialIn(OwnersOf(C))}
    BY <1>1 DEF BeginComponent
  <2> QED
    BY <2>1, <1>j, <1>p
<1>2. CASE Intend
  <2>1. PICK s \in Steps(moves, FreshTemps) :
          LET e == [owner |-> s.step.owner, src |-> s.step.src, dst |-> s.step.dst, state |-> "intent"]
              j == [mem EXCEPT !.ledger = Append(@, e)]
          IN  \/ mem' = j /\ log' = j
              \/ mem' = InState(j, Len(j.ledger), "rolled_back") /\ log' = log
    BY <1>2 DEF Intend
  <2> DEFINE e == [owner |-> s.step.owner, src |-> s.step.src, dst |-> s.step.dst, state |-> "intent"]
             j == [mem EXCEPT !.ledger = Append(@, e)]
  <2>2. e \in Entry
    BY StepsTyped, <1>t DEF Entry
  <2>3. j \in Journal
    BY <2>2, <1>j, JournalStep
  <2>4. j.ledger = Append(mem.ledger, e) /\ Len(j.ledger) \in 1 .. Len(j.ledger)
    BY <2>2, <1>j DEF Journal
  <2>5. InState(j, Len(j.ledger), "rolled_back") \in Journal
    <3> HIDE DEF j
    <3> QED
      BY <2>3, <2>4, JournalStep
  <2> QED
    BY <2>1, <2>3, <2>5, <1>j
<1>3. CASE MoveFile
  <2>1. Len(mem.ledger) \in 1 .. Len(mem.ledger)
    BY <1>3, <1>j DEF MoveFile, Quiet, Typed, Journal
  <2>2. log' = log /\ \E s \in {"completed", "rolled_back"} : mem' = InState(mem, Len(mem.ledger), s)
    BY <1>3 DEF MoveFile
  <2>3. \A s \in {"completed", "rolled_back"} : InState(mem, Len(mem.ledger), s) \in Journal
    BY <2>1, <1>j, JournalStep
  <2> QED
    BY <2>2, <2>3, <1>j
<1>4. CASE NoteMove
  BY <1>4, <1>j, <1>m DEF NoteMove, vars, Persist
<1>5. CASE RollBackMove
  <2>1. Last(moved) \in 1 .. Len(mem.ledger)
    BY <1>5 DEF RollBackMove, Last, Typed, TypeOK
  <2>2. log' = log /\ \E s \in {"unresolved", "rolled_back"} : mem' = InState(mem, Last(moved), s)
    BY <1>5 DEF RollBackMove
  <2> HIDE DEF Journal
  <2>3. \A s \in {"unresolved", "rolled_back"} : InState(mem, Last(moved), s) \in Journal
    BY <2>1, <1>j, JournalStep
  <2> QED
    BY <2>2, <2>3, <1>j
<1>6. CASE NoteRollback
  BY <1>6, <1>j, <1>m DEF NoteRollback, vars, Persist
<1>7. CASE NoteAgain
  BY <1>7, <1>j, <1>m DEF NoteAgain, vars, Persist
<1>8. CASE BeginApply
  BY <1>8, <1>j, <1>m DEF BeginApply, vars, Persist
<1>9. CASE WriteManifest
  BY <1>9, <1>j, <1>m DEF WriteManifest, BackupFails
<1>10. CASE WriteBinding
  BY <1>10, <1>j, <1>m DEF WriteBinding, BackupFails
<1>11. CASE Abort
  BY <1>11, <1>j, <1>m DEF Abort, vars, Persist
<1>12. CASE StartApplying
  <2> DEFINE s == [f \in File |-> "backed_up"]
             j == [mem EXCEPT !.batch = "applying", !.state = s]
  <2>1. s \in [File -> FileState]
    BY DEF FileState
  <2>2. j \in Journal
    <3> HIDE DEF s
    <3> QED
      BY <2>1, <1>j DEF Journal
  <2> QED
    BY <1>12, <2>2, <1>j DEF StartApplying, Persist
<1>13. ASSUME NEW f \in File, WriteTags(f) PROVE (log \in Journal /\ mem \in Journal)'
  <2>1. log' = log /\ \E s \in {"verified", "failed"} :
          \/ mem' = [mem EXCEPT !.state[f] = s]
          \/ mem' = [mem EXCEPT !.state[f] = s, !.posted = @ \cup {f}]
    BY <1>13 DEF WriteTags
  <2>2. \A s \in {"verified", "failed"} : [mem.state EXCEPT ![f] = s] \in [File -> FileState]
    BY <1>j DEF Journal, FileState
  <2>3. mem.posted \cup {f} \in SUBSET File
    BY <1>13, <1>j DEF Journal
  <2> QED
    BY <2>1, <2>2, <2>3, <1>j DEF Journal
<1>14. CASE Note
  BY <1>14, <1>j, <1>m DEF Note, vars, Persist
<1>15. CASE StopWriting
  <2> DEFINE s == [f \in File |-> IF f \in left THEN "cancelled" ELSE mem.state[f]]
  <2>1. s \in [File -> FileState]
    BY <1>j DEF Journal, FileState
  <2>2. mem' = [mem EXCEPT !.state = s] /\ log' \in {log, mem'}
    BY <1>15 DEF StopWriting, Persist
  <2> HIDE DEF s
  <2> QED
    BY <2>1, <2>2, <1>j, JournalStep
<1>16. CASE ApplyComponent
  <2> DEFINE Marked(x) == [mem EXCEPT !.state = [f \in File |-> IF f \in members THEN x ELSE mem.state[f]]]
  <2>1. \A x \in FileState : Marked(x) \in Journal
    <3> SUFFICES ASSUME NEW x \in FileState PROVE Marked(x) \in Journal
      OBVIOUS
    <3>1. [f \in File |-> IF f \in members THEN x ELSE mem.state[f]] \in [File -> FileState]
      BY <1>j DEF Journal
    <3> QED
      BY <3>1, <1>j, JournalStep
  <2>2. /\ mem' \in {Marked("complete"), PartialIn(members), Marked("unresolved")}
        /\ log' \in {log, mem'}
    BY <1>16, <1>t DEF ApplyComponent, Persist, TypeOK
  <2> HIDE DEF Marked
  <2> QED
    BY <2>1, <2>2, <1>j, <1>p DEF FileState
<1>17. CASE EndRenames
  <2> DEFINE s == [f \in File |-> IF outcome[f] = "success" /\ f \notin OwnersOf(ApplyMoves)
                                 THEN "complete" ELSE mem.state[f]]
  <2>1. s \in [File -> FileState]
    BY <1>j DEF Journal, FileState
  <2>2. mem' = [mem EXCEPT !.state = s] /\ log' \in {log, mem'}
    BY <1>17 DEF EndRenames, Persist
  <2> HIDE DEF s
  <2> QED
    BY <2>1, <2>2, <1>j, JournalStep
<1>18. CASE Close
  BY <1>18, <1>j, <1>m DEF Close, vars, Persist
<1>19. CASE RemoveJournal
  BY <1>19, <1>j, <1>m DEF RemoveJournal, vars, Retire
<1>20. CASE FinalizeManifest
  BY <1>20, <1>j, <1>m DEF FinalizeManifest, vars, WorkEnds
<1>21. CASE Seal
  BY <1>21, <1>j, <1>m DEF Seal, vars, WorkEnds
<1>22. CASE BeginRecovery
  BY <1>22, <1>j, <1>m DEF BeginRecovery, vars
<1>23. CASE RecoveryComponent
  BY <1>23, <1>j, <1>m DEF RecoveryComponent, vars
<1>24. CASE BeginRestore
  BY <1>24, <1>j, <1>m DEF BeginRestore, vars
<1>25. ASSUME NEW f \in File, Restore(f) PROVE (log \in Journal /\ mem \in Journal)'
  BY <1>25, <1>j, <1>m DEF Restore, vars
<1>26. CASE EndRecovery
  BY <1>26, <1>j, <1>m DEF EndRecovery, vars, Retire, WorkEnds
<1>27. CASE Reconcile
  BY <1>27, <1>j, <1>m DEF Reconcile, vars, Retire
<1>28. CASE Forget \/ Cancel \/ Rest \/ UNCHANGED vars
  BY <1>28, <1>j, <1>m DEF Forget, vars, Retire, Cancel, Rest
<1>30. CASE Crash
  BY <1>30, <1>j, <1>m DEF Crash, WorkEnds
<1>31. CASE Meddle
  BY <1>31, <1>j DEF Meddle
<1>34. CASE Look
  BY <1>34, <1>j DEF Look
<1> QED
  BY <1>1, <1>2, <1>3, <1>4, <1>5, <1>6, <1>7, <1>8, <1>9, <1>10, <1>11, <1>12, <1>13,
     <1>14, <1>15, <1>16, <1>17, <1>18, <1>19, <1>20, <1>21, <1>22, <1>23, <1>24, <1>25,
     <1>26, <1>27, <1>28, <1>30, <1>31, <1>34 DEF Next, TxnStep, ApplyStep, RecoveryStep

(* The moves of a planned component are moves of the plan. *)
LEMMA ComponentsTyped ==
    ASSUME NEW M, NEW T, M \subseteq T
    PROVE  \A C \in Components(M) : C \subseteq T
  BY DEF Components

(* Every step keeps the indices of done moves within the ledger. *)
LEMMA MovedTyped == Typed /\ [Next]_vars => moved' \in Seq(1 .. Len(mem'.ledger))
<1> SUFFICES ASSUME Typed, [Next]_vars PROVE moved' \in Seq(1 .. Len(mem'.ledger))
  OBVIOUS
<1>j. /\ mem \in Journal /\ Len(mem.ledger) \in Nat
      /\ moved \in Seq(1 .. Len(mem.ledger))
  BY DEF Typed, TypeOK, Journal
<1>k. ASSUME Len(mem'.ledger) = Len(mem.ledger), moved' = moved
      PROVE  moved' \in Seq(1 .. Len(mem'.ledger))
  BY <1>j, <1>k
<1>e. ASSUME moved' = <<>> PROVE moved' \in Seq(1 .. Len(mem'.ledger))
  BY <1>e
<1>1. ASSUME NEW C \in plan, BeginComponent(C) PROVE moved' \in Seq(1 .. Len(mem'.ledger))
  <2>1. mem'.ledger = mem.ledger /\ moved' \in {moved, <<>>}
    BY <1>1, <1>j DEF BeginComponent, PartialIn, txnVars, Journal
  <2> QED
    BY <2>1, <1>k, <1>e
<1>2. CASE Intend
  <2>1. \E e, x : mem' \in {[mem EXCEPT !.ledger = Append(@, e)],
                            InState([mem EXCEPT !.ledger = Append(@, e)], x, "rolled_back")}
    BY <1>2 DEF Intend
  <2>a. \A e : Len(Append(mem.ledger, e)) = Len(mem.ledger) + 1
    BY <1>j DEF Journal
  <2>2. Len(mem'.ledger) = Len(mem.ledger) + 1
    <3>1. ASSUME NEW e, NEW x, mem' = InState([mem EXCEPT !.ledger = Append(@, e)], x, "rolled_back")
          PROVE  Len(mem'.ledger) = Len(mem.ledger) + 1
      <4>1. mem'.ledger = [Append(mem.ledger, e) EXCEPT ![x] =
                               [Append(mem.ledger, e)[x] EXCEPT !.state = "rolled_back"]]
        BY <3>1, <1>j DEF InState, Journal
      <4>2. DOMAIN mem'.ledger = 1 .. Len(mem.ledger) + 1
        BY <4>1, <1>j DEF Journal
      <4> QED
        BY <4>1, <4>2, <1>j
    <3> QED
      BY <2>1, <2>a, <3>1, <1>j DEF Journal
  <2>3. moved' = moved /\ 1 .. Len(mem.ledger) \subseteq 1 .. Len(mem'.ledger)
    BY <1>2, <2>2, <1>j DEF Intend
  <2>4. \A S, T : S \subseteq T => Seq(S) \subseteq Seq(T)
    OBVIOUS
  <2> QED
    BY <2>3, <2>4, <1>j
<1>3. CASE MoveFile
  <2>1. Len(mem.ledger) \in 1 .. Len(mem.ledger)
    BY <1>3, <1>j DEF MoveFile, Quiet, Typed, Journal
  <2>2. \E s \in {"completed", "rolled_back"} : mem' = InState(mem, Len(mem.ledger), s)
    BY <1>3 DEF MoveFile
  <2>a. \A s \in {"completed", "rolled_back"} :
          Len(InState(mem, Len(mem.ledger), s).ledger) = Len(mem.ledger)
    BY <2>1, <1>j, JournalStep
  <2>3. Len(mem'.ledger) = Len(mem.ledger)
    BY <2>2, <2>a
  <2>4. moved' \in {moved, Append(moved, Len(mem.ledger))}
    BY <1>3 DEF MoveFile
  <2> QED
    BY <2>1, <2>3, <2>4, <1>j
<1>4. CASE NoteMove
  BY <1>4, <1>j, <1>k, <1>e DEF NoteMove, Persist, jobVars, Journal
<1>5. CASE RollBackMove
  <2>1. Last(moved) \in 1 .. Len(mem.ledger)
    BY <1>5, <1>j DEF RollBackMove, Last
  <2>2. \E s \in {"unresolved", "rolled_back"} : mem' = InState(mem, Last(moved), s)
    BY <1>5 DEF RollBackMove
  <2>a. \A s \in {"unresolved", "rolled_back"} :
          Len(InState(mem, Last(moved), s).ledger) = Len(mem.ledger)
    BY <2>1, <1>j, JournalStep
  <2>3. Len(mem'.ledger) = Len(mem.ledger)
    BY <2>2, <2>a
  <2>4. moved' = Front(moved) /\ moved # <<>>
    BY <1>5 DEF RollBackMove
  <2>5. Front(moved) \in Seq(1 .. Len(mem.ledger))
    BY <2>4, <1>j DEF Front
  <2> QED
    BY <2>3, <2>4, <2>5
<1>6. CASE NoteRollback
  BY <1>6, <1>j, <1>k, <1>e DEF NoteRollback, Persist, jobVars, Journal
<1>7. CASE NoteAgain
  BY <1>7, <1>j, <1>k, <1>e DEF NoteAgain, Persist, txnVars, jobVars, Journal
<1>8. CASE BeginApply
  <2>1. moved' = <<>>
    BY <1>8 DEF BeginApply, Typed, Quiet, Renaming, txnVars
  <2> QED
    BY <2>1, <1>e
<1>9. CASE WriteManifest
  BY <1>9, <1>j, <1>k, <1>e DEF WriteManifest, txnVars, jobVars, BackupFails, Journal
<1>10. CASE WriteBinding
  BY <1>10, <1>j, <1>k, <1>e DEF WriteBinding, txnVars, jobVars, BackupFails, Journal
<1>11. CASE Abort
  BY <1>11, <1>j, <1>k, <1>e DEF Abort, Persist, txnVars, jobVars, Journal
<1>12. CASE StartApplying
  BY <1>12, <1>j, <1>k, <1>e DEF StartApplying, Persist, txnVars, jobVars, Journal
<1>13. ASSUME NEW f \in File, WriteTags(f) PROVE moved' \in Seq(1 .. Len(mem'.ledger))
  BY <1>13, <1>j, <1>k, <1>e DEF WriteTags, txnVars, Journal
<1>14. CASE Note
  BY <1>14, <1>j, <1>k, <1>e DEF Note, Persist, txnVars, Journal
<1>15. CASE StopWriting
  BY <1>15, <1>j, <1>k, <1>e DEF StopWriting, Persist, txnVars, Journal
<1>16. CASE ApplyComponent
  BY <1>16, <1>e DEF ApplyComponent, EndTxn
<1>17. CASE EndRenames
  BY <1>17, <1>j, <1>k, <1>e DEF EndRenames, Persist, txnVars, Journal
<1>18. CASE Close
  BY <1>18, <1>j, <1>k, <1>e DEF Close, Persist, txnVars, jobVars, Journal
<1>19. CASE RemoveJournal
  BY <1>19, <1>j, <1>k, <1>e DEF RemoveJournal, txnVars, jobVars, Journal
<1>20. CASE FinalizeManifest
  BY <1>20, <1>j, <1>k, <1>e DEF FinalizeManifest, WorkEnds, EndTxn, txnVars, jobVars, Journal
<1>21. CASE Seal
  BY <1>21, <1>e DEF Seal, WorkEnds, EndTxn
<1>22. CASE BeginRecovery
  <2>1. moved' = <<>>
    BY <1>22 DEF BeginRecovery, Typed, Quiet, Renaming, txnVars
  <2> QED
    BY <2>1, <1>e
<1>23. CASE RecoveryComponent
  BY <1>23, <1>j, <1>k, <1>e DEF RecoveryComponent, EndTxn, Journal
<1>24. CASE BeginRestore
  BY <1>24, <1>j, <1>k, <1>e DEF BeginRestore, txnVars, jobVars, Journal
<1>25. ASSUME NEW f \in File, Restore(f) PROVE moved' \in Seq(1 .. Len(mem'.ledger))
  BY <1>25, <1>j, <1>k, <1>e DEF Restore, txnVars, Journal
<1>26. CASE EndRecovery
  BY <1>26, <1>e DEF EndRecovery, WorkEnds, EndTxn
<1>27. CASE Reconcile
  BY <1>27, <1>j, <1>k, <1>e DEF Reconcile, txnVars, jobVars, Journal
<1>28. CASE Forget \/ Cancel \/ Rest \/ UNCHANGED vars
  BY <1>28, <1>j, <1>k, <1>e DEF Forget, txnVars, jobVars, Journal, Cancel, Rest, vars
<1>30. CASE Crash
  BY <1>30, <1>e DEF Crash, WorkEnds, EndTxn
<1>31. CASE Meddle
  BY <1>31, <1>j, <1>k, <1>e DEF Meddle, txnVars, jobVars, Journal
<1>34. CASE Look
  BY <1>34, <1>j, <1>k, <1>e DEF Look, txnVars, jobVars, Journal
<1> QED
  BY <1>1, <1>2, <1>3, <1>4, <1>5, <1>6, <1>7, <1>8, <1>9, <1>10, <1>11, <1>12, <1>13,
     <1>14, <1>15, <1>16, <1>17, <1>18, <1>19, <1>20, <1>21, <1>22, <1>23, <1>24, <1>25,
     <1>26, <1>27, <1>28, <1>30, <1>31, <1>34 DEF Next, TxnStep, ApplyStep, RecoveryStep

(* What is taken from a bound that is not exhausted leaves a bound.        *)
Bounds == [faults : 0 .. MaxFaults, crashes : 0 .. MaxCrashes,
           recoveries : 0 .. MaxRecoveries, meddling : 0 .. MaxMeddling]

LEMMA BudgetStep ==
    ASSUME NEW b \in Bounds
    PROVE  /\ b.faults > 0 => [b EXCEPT !.faults = @ - 1] \in Bounds
           /\ b.crashes > 0 => [b EXCEPT !.crashes = @ - 1] \in Bounds
           /\ b.recoveries > 0 => [b EXCEPT !.recoveries = @ - 1] \in Bounds
           /\ b.meddling > 0 => [b EXCEPT !.meddling = @ - 1] \in Bounds
<1>1. MaxFaults \in Nat /\ MaxCrashes \in Nat /\ MaxRecoveries \in Nat /\ MaxMeddling \in Nat
  BY BoundsAssumption
<1>2. \A m \in Nat : \A n \in 0 .. m : n > 0 => n - 1 \in 0 .. m
  OBVIOUS
<1>3. /\ b.faults > 0 => b.faults - 1 \in 0 .. MaxFaults
      /\ b.crashes > 0 => b.crashes - 1 \in 0 .. MaxCrashes
      /\ b.recoveries > 0 => b.recoveries - 1 \in 0 .. MaxRecoveries
      /\ b.meddling > 0 => b.meddling - 1 \in 0 .. MaxMeddling
  BY <1>1, <1>2 DEF Bounds
<1> QED
  BY <1>3 DEF Bounds

(* The file moved by an entry of the ledger has names to move between.     *)
LEMMA EntryTyped ==
    ASSUME TypeOK, NEW i \in 1 .. Len(mem.ledger)
    PROVE  /\ mem.ledger[i] \in Entry /\ mem.ledger[i].owner \in File
           /\ mem.ledger[i].src \in Path /\ mem.ledger[i].dst \in Path
<1>1. mem.ledger \in Seq(Entry)
  BY DEF TypeOK, Journal
<1>2. mem.ledger[i] \in Entry
  BY <1>1
<1> QED
  BY <1>2 DEF Entry

(* Which steps change what the worker has seen, and the history.           *)
LEMMA PastSteps ==
    ASSUME [Next]_vars
    PROVE  /\ UNCHANGED lookVars \/ Look \/ LookIsOver \/ Meddle
           /\ \/ UNCHANGED <<since, torn>>
              \/ since' = {} /\ torn' = (torn \/ Untold) /\ pc' = "idle"
              \/ Meddle
           /\ since \subseteq since' \/ pc' = "idle"
<1> DEFINE G == /\ UNCHANGED lookVars \/ Look \/ LookIsOver \/ Meddle
                /\ \/ UNCHANGED <<since, torn>>
                   \/ since' = {} /\ torn' = (torn \/ Untold) /\ pc' = "idle"
                   \/ Meddle
                /\ since \subseteq since' \/ pc' = "idle"
<1>1. ASSUME NEW C \in plan, BeginComponent(C) PROVE G
  BY <1>1 DEF BeginComponent, pastVars
<1>2. CASE Intend
  BY <1>2 DEF Intend, pastVars
<1>3. CASE MoveFile
  BY <1>3 DEF MoveFile, LookIsOver, pastVars
<1>4. CASE NoteMove
  BY <1>4 DEF NoteMove, pastVars
<1>5. CASE RollBackMove
  BY <1>5 DEF RollBackMove, LookIsOver, pastVars
<1>6. CASE NoteRollback
  BY <1>6 DEF NoteRollback, pastVars
<1>7. CASE NoteAgain
  BY <1>7 DEF NoteAgain, pastVars
<1>8. CASE BeginApply
  BY <1>8 DEF BeginApply, pastVars
<1>9. CASE WriteManifest
  BY <1>9 DEF WriteManifest, pastVars
<1>10. CASE WriteBinding
  BY <1>10 DEF WriteBinding, pastVars
<1>11. CASE Abort
  BY <1>11 DEF Abort, pastVars
<1>12. CASE StartApplying
  BY <1>12 DEF StartApplying, pastVars
<1>13. ASSUME NEW f \in File, WriteTags(f) PROVE G
  BY <1>13 DEF WriteTags, pastVars
<1>14. CASE Note
  BY <1>14 DEF Note, pastVars
<1>15. CASE StopWriting
  BY <1>15 DEF StopWriting, pastVars
<1>16. CASE ApplyComponent
  BY <1>16 DEF ApplyComponent, EndTxn, pastVars
<1>17. CASE EndRenames
  BY <1>17 DEF EndRenames, pastVars
<1>18. CASE Close
  BY <1>18 DEF Close, pastVars
<1>19. CASE RemoveJournal
  BY <1>19 DEF RemoveJournal, pastVars
<1>20. CASE FinalizeManifest
  BY <1>20 DEF FinalizeManifest, WorkEnds, EndTxn
<1>21. CASE Seal
  BY <1>21 DEF Seal, WorkEnds, EndTxn
<1>22. CASE BeginRecovery
  BY <1>22 DEF BeginRecovery, pastVars
<1>23. CASE RecoveryComponent
  BY <1>23 DEF RecoveryComponent, EndTxn, pastVars
<1>24. CASE BeginRestore
  BY <1>24 DEF BeginRestore, pastVars
<1>25. ASSUME NEW f \in File, Restore(f) PROVE G
  BY <1>25 DEF Restore
<1>26. CASE EndRecovery
  BY <1>26 DEF EndRecovery, WorkEnds, EndTxn
<1>27. CASE Reconcile
  BY <1>27 DEF Reconcile, pastVars
<1>28. CASE Forget \/ Cancel \/ Rest \/ UNCHANGED vars
  BY <1>28 DEF Forget, pastVars, Cancel, Rest, vars
<1>30. CASE Crash
  BY <1>30 DEF Crash, WorkEnds, EndTxn
<1>31. CASE Meddle
  BY <1>31 DEF Meddle
<1>34. CASE Look
  BY <1>34 DEF Look, pastVars
<1> QED
  BY <1>1, <1>2, <1>3, <1>4, <1>5, <1>6, <1>7, <1>8, <1>9, <1>10, <1>11, <1>12, <1>13,
     <1>14, <1>15, <1>16, <1>17, <1>18, <1>19, <1>20, <1>21, <1>22, <1>23, <1>24, <1>25,
     <1>26, <1>27, <1>28, <1>30, <1>31, <1>34 DEF Next, TxnStep, ApplyStep, RecoveryStep

(* Every step keeps the types of them. *)
LEMMA PastTyped ==
    Typed /\ [Next]_vars =>
        (clear \in BOOLEAN /\ late \subseteq Path /\ since \subseteq File /\ torn \in BOOLEAN)'
<1> SUFFICES ASSUME Typed, [Next]_vars
             PROVE  (clear \in BOOLEAN /\ late \subseteq Path /\ since \subseteq File /\ torn \in BOOLEAN)'
  OBVIOUS
<1>t. clear \in BOOLEAN /\ late \subseteq Path /\ since \subseteq File /\ torn \in BOOLEAN
  BY DEF Typed, TypeOK
<1>1. (clear \in BOOLEAN /\ late \subseteq Path)'
  BY <1>t, PastSteps DEF lookVars, Look, LookIsOver, Meddle
<1>2. (since \subseteq File /\ torn \in BOOLEAN)'
  BY <1>t, PastSteps DEF Meddle
<1> QED
  BY <1>1, <1>2

(* Every step keeps the types. *)
LEMMA TypeStep == Typed /\ [Next]_vars => TypeOK'
<1> SUFFICES ASSUME Typed, [Next]_vars PROVE TypeOK'
  OBVIOUS
<1>l. alike' \in BOOLEAN
  BY DEF Next, vars, Typed, TypeOK
<1> USE <1>l
<1>t. TypeOK /\ Stamped
  BY DEF Typed
<1>j. {log', mem'} \subseteq Journal
  BY JournalsTyped
<1>v. moved' \in Seq(1 .. Len(mem'.ledger))
  BY MovedTyped
<1>p. (clear \in BOOLEAN /\ late \subseteq Path /\ since \subseteq File /\ torn \in BOOLEAN)'
  BY PastTyped
<1>s. /\ tags \in [File -> [of : File, what : {"old", "new", "theirs"}]]
      /\ stamp \in [File -> {"scanned", "applied", "recovered", "edited"}]
      /\ at \in [Path -> File \cup {Nobody, Stranger}]
  BY <1>t DEF TypeOK
<1>b. budget \in Bounds
  BY <1>t DEF Bounds, TypeOK
<1>f. Fault => budget' \in Bounds
  BY <1>b, BudgetStep DEF Fault
<1>g. \A o \in File, w \in {"old", "new", "theirs"} :
        [of |-> o, what |-> w] \in [of : File, what : {"old", "new", "theirs"}]
  OBVIOUS
<1>a. ASSUME NEW S PROVE PartsOf(S) \in [File -> {"none", "success", "partial", "failed", "cancelled"}]
  BY <1>t DEF PartsOf, TypeOK
<1>1. ASSUME NEW C \in plan, BeginComponent(C) PROVE TypeOK'
  <2>1. C \subseteq [owner : File, src : Path, dst : Path]
    BY <1>1, <1>t DEF TypeOK
  <2>2. OwnersOf(C) \subseteq File
    BY <2>1 DEF OwnersOf
  <2>3. /\ plan' \subseteq plan /\ pc' \in {pc, "intent"} /\ moves' \in {moves, C}
        /\ members' \in {members, OwnersOf(C)} /\ cause' \in {cause, "none"}
        /\ status' \in {status, "ok"} /\ outcome' \in {outcome, PartsOf(OwnersOf(C))}
        /\ UNCHANGED <<diskVars, backupVars, job, left, broken, cancel, budget, lost>>
    BY <1>1 DEF BeginComponent, txnVars, pastVars
  <2>4. \A D \in plan' \cup {moves'} : D \subseteq [owner : File, src : Path, dst : Path]
    BY <2>1, <2>3, <1>t DEF TypeOK
  <2>5. outcome' \in [File -> {"none", "success", "partial", "failed", "cancelled"}]
    BY <2>3, <1>t, <1>a DEF TypeOK
  <2>6. pc' \in {pc, "intent"} /\ members' \subseteq File
    BY <2>2, <2>3, <1>t DEF TypeOK
  <2>7. /\ cause' \in {"none", "journal", "move"} /\ status' \in {"ok", "rolled_back", "unresolved"}
        /\ UNCHANGED <<at, tags, stamp, manifest, binding, job, left, broken, cancel, budget, lost>>
    BY <2>3, <1>t DEF TypeOK, diskVars, backupVars
  <2> QED
    BY ZenonT(60), <2>4, <2>5, <2>6, <2>7, <1>t, <1>j, <1>v, <1>p DEF TypeOK
<1>2. CASE Intend
  <2>1. PICK s \in Steps(moves, FreshTemps) : moves' \in {moves, s.left}
    BY <1>2 DEF Intend
  <2>2. moves' \in SUBSET [owner : File, src : Path, dst : Path]
    <3>1. moves \in SUBSET [owner : File, src : Path, dst : Path]
      BY <1>t DEF TypeOK
    <3>2. s.left \subseteq [owner : File, src : Path, dst : Path]
      BY <3>1, StepsTyped
    <3> QED
      BY <2>1, <3>1, <3>2
  <2>3. UNCHANGED <<diskVars, backupVars, members, jobVars, lost>>
    BY <1>2 DEF Intend, pastVars
  <2>4. UNCHANGED budget \/ Fault
    BY <1>2 DEF Intend
  <2>5. /\ pc' \in {"move", "rollback"} /\ cause' \in {cause, "journal"}
        /\ status' \in {status, "rolled_back"}
    BY <1>2 DEF Intend
  <2> QED
    BY ZenonT(60), <2>2, <2>3, <2>4, <2>5, <1>t, <1>b, <1>f, <1>j, <1>v, <1>p DEF Bounds, TypeOK, diskVars,
       backupVars, jobVars
<1>3. CASE MoveFile
  <2> DEFINE e == mem.ledger[Len(mem.ledger)]
  <2>1. e.src \in Path /\ e.dst \in Path
    <3>1. Len(mem.ledger) \in 1 .. Len(mem.ledger)
      BY <1>3, <1>t DEF MoveFile, Typed, Quiet, TypeOK, Journal
    <3> QED
      BY <3>1, <1>t, EntryTyped
  <2>2. at' = at \/ at' = [at EXCEPT ![e.dst] = at[e.src], ![e.src] = Nobody]
    BY <1>3 DEF MoveFile
  <2>3. at' \in [Path -> File \cup {Nobody, Stranger}]
    BY <2>1, <2>2, <1>t DEF TypeOK
  <2>4. UNCHANGED <<tags, stamp, backupVars, log, moves, members, jobVars, lost>>
    BY <1>3 DEF MoveFile, pastVars
  <2>5. UNCHANGED budget \/ Fault
    BY <1>3 DEF MoveFile
  <2>6. /\ pc' \in {"moved", "rollback"} /\ cause' \in {cause, "move"}
        /\ status' \in {status, "rolled_back"}
    BY <1>3 DEF MoveFile
  <2> QED
    BY ZenonT(60), <2>3, <2>4, <2>5, <2>6, <1>t, <1>b, <1>f, <1>j, <1>v, <1>p DEF Bounds, TypeOK, backupVars, jobVars
<1>4. CASE NoteMove
  BY ZenonT(60), <1>4, <1>t, <1>b, <1>f, <1>j, <1>v, <1>p DEF NoteMove, Bounds, TypeOK, pastVars, diskVars,
     backupVars, jobVars, Persist
<1>5. CASE RollBackMove
  <2> DEFINE e == mem.ledger[Last(moved)]
  <2>1. e.src \in Path /\ e.dst \in Path
    <3>1. Last(moved) \in 1 .. Len(mem.ledger)
      BY <1>5, <1>t DEF RollBackMove, Last, TypeOK
    <3> QED
      BY <3>1, <1>t, EntryTyped
  <2>2. at' = at \/ at' = [at EXCEPT ![e.src] = at[e.dst], ![e.dst] = Nobody]
    BY <1>5 DEF RollBackMove
  <2>3. at' \in [Path -> File \cup {Nobody, Stranger}]
    BY <2>1, <2>2, <1>t DEF TypeOK
  <2>4. UNCHANGED <<tags, stamp, backupVars, log, pc, moves, members, cause, jobVars, lost>>
    BY <1>5 DEF RollBackMove, pastVars
  <2>5. (UNCHANGED budget \/ Fault) /\ status' \in {status, "unresolved"}
    BY <1>5 DEF RollBackMove
  <2>6. budget' \in Bounds
    BY <2>5, <1>b, <1>f
  <2>7. budget' \in [faults : 0 .. MaxFaults, crashes : 0 .. MaxCrashes,
                        recoveries : 0 .. MaxRecoveries, meddling : 0 .. MaxMeddling]
    BY <2>6 DEF Bounds
  <2>8. UNCHANGED <<tags, stamp, manifest, binding, pc, moves, members, cause, job, left,
                    plan, outcome, broken, cancel, lost>>
    BY <2>4 DEF backupVars, jobVars
  <2> HIDE DEF e
  <2> QED
    BY ZenonT(60), <2>3, <2>5, <2>7, <2>8, <1>t, <1>j, <1>v, <1>p DEF TypeOK
<1>6. CASE NoteRollback
  BY ZenonT(60), <1>6, <1>t, <1>b, <1>f, <1>j, <1>v, <1>p DEF NoteRollback, Bounds, TypeOK, pastVars, diskVars,
     backupVars, jobVars, Persist
<1>7. CASE NoteAgain
  BY ZenonT(60), <1>7, <1>t, <1>b, <1>f, <1>j, <1>v, <1>p DEF NoteAgain, Bounds, TypeOK, pastVars, diskVars,
     backupVars, txnVars, jobVars, Persist
<1>8. CASE BeginApply
  <2>1. ApplyMoves \subseteq [owner : File, src : Path, dst : Path]
    BY PathsAssumption DEF ApplyMoves, Move
  <2>2. \A C \in plan' : C \subseteq [owner : File, src : Path, dst : Path]
    BY <1>8, <2>1, ComponentsTyped DEF BeginApply
  <2> QED
    BY ZenonT(60), <1>8, <2>2, <1>t, <1>b, <1>f, <1>j, <1>v, <1>p DEF BeginApply, Bounds, TypeOK, pastVars, diskVars,
       backupVars, txnVars, Persist
<1>9. CASE WriteManifest
  <2>1. /\ manifest' \in {manifest, "prepared"} /\ binding' \in {binding, manifest}
        /\ pc' \in {"bind", "start", "abort"} /\ (UNCHANGED budget \/ Fault)
        /\ UNCHANGED <<diskVars, txnVars, jobVars, lost>>
    BY <1>9 DEF WriteManifest, BackupFails, backupVars, pastVars
  <2>2. /\ {manifest', binding'} \subseteq {"none", "prepared", "completed", "partial"}
        /\ budget' \in [faults : 0 .. MaxFaults, crashes : 0 .. MaxCrashes,
                           recoveries : 0 .. MaxRecoveries, meddling : 0 .. MaxMeddling]
    BY <2>1, <1>t, <1>b, <1>f DEF TypeOK, Bounds
  <2>3. UNCHANGED <<at, tags, stamp, moves, members, moved, cause, status, job, left, plan,
                    outcome, broken, cancel, lost>>
    BY <2>1 DEF diskVars, txnVars, jobVars
  <2> QED
    BY ZenonT(60), <2>1, <2>2, <2>3, <1>t, <1>j, <1>v, <1>p DEF TypeOK
<1>10. CASE WriteBinding
  <2>1. /\ manifest' \in {manifest, "prepared"} /\ binding' \in {binding, manifest}
        /\ pc' \in {"bind", "start", "abort"} /\ (UNCHANGED budget \/ Fault)
        /\ UNCHANGED <<diskVars, txnVars, jobVars, lost>>
    BY <1>10 DEF WriteBinding, BackupFails, backupVars, pastVars
  <2>2. /\ {manifest', binding'} \subseteq {"none", "prepared", "completed", "partial"}
        /\ budget' \in [faults : 0 .. MaxFaults, crashes : 0 .. MaxCrashes,
                           recoveries : 0 .. MaxRecoveries, meddling : 0 .. MaxMeddling]
    BY <2>1, <1>t, <1>b, <1>f DEF TypeOK, Bounds
  <2>3. UNCHANGED <<at, tags, stamp, moves, members, moved, cause, status, job, left, plan,
                    outcome, broken, cancel, lost>>
    BY <2>1 DEF diskVars, txnVars, jobVars
  <2> QED
    BY ZenonT(60), <2>1, <2>2, <2>3, <1>t, <1>j, <1>v, <1>p DEF TypeOK
<1>11. CASE Abort
  BY ZenonT(60), <1>11, <1>t, <1>b, <1>f, <1>j, <1>v, <1>p DEF Abort, Bounds, TypeOK, pastVars, diskVars, backupVars,
     txnVars, jobVars, Persist
<1>12. CASE StartApplying
  BY ZenonT(60), <1>12, <1>t, <1>b, <1>f, <1>j, <1>v, <1>p DEF StartApplying, Bounds, TypeOK, pastVars, diskVars,
     backupVars, txnVars, jobVars, Persist
<1>13. ASSUME NEW f \in File, WriteTags(f) PROVE TypeOK'
  <2>1. /\ tags' \in {tags, [tags EXCEPT ![f] = [of |-> f, what |-> "new"]]}
        /\ stamp' \in {stamp, [stamp EXCEPT ![f] = "applied"]}
        /\ outcome' \in {[outcome EXCEPT ![f] = "success"], [outcome EXCEPT ![f] = "failed"]}
        /\ pc' = "note" /\ left' = left \ {f} /\ (UNCHANGED budget \/ Fault)
        /\ UNCHANGED <<at, backupVars, txnVars, job, plan, broken, cancel, lost>>
    BY <1>13 DEF WriteTags, Put, pastVars
  <2>2. tags' \in [File -> [of : File, what : {"old", "new", "theirs"}]]
    BY <2>1, <1>g, <1>s
  <2>3. /\ stamp' \in [File -> {"scanned", "applied", "recovered", "edited"}]
        /\ outcome' \in [File -> {"none", "success", "partial", "failed", "cancelled"}]
    BY <2>1, <1>t DEF TypeOK
  <2>4. budget' \in Bounds /\ left' \subseteq File
    BY <2>1, <1>b, <1>f, <1>t DEF TypeOK
  <2>5. pc' = "note" /\ UNCHANGED <<at, backupVars, txnVars, job, plan, broken, cancel, lost>>
    BY <2>1
  <2> QED
    BY ZenonT(60), <2>2, <2>3, <2>4, <2>5, <1>t, <1>j, <1>v, <1>p DEF Bounds, TypeOK, backupVars, txnVars
<1>14. CASE Note
  BY ZenonT(60), <1>14, <1>t, <1>b, <1>f, <1>j, <1>v, <1>p DEF Note, Bounds, TypeOK, pastVars, diskVars, backupVars,
     txnVars, Persist
<1>15. CASE StopWriting
  BY ZenonT(60), <1>15, <1>t, <1>b, <1>f, <1>j, <1>v, <1>p DEF StopWriting, Bounds, TypeOK, pastVars, diskVars,
     backupVars, txnVars, Persist
<1>16. CASE ApplyComponent
  <2>a. [f \in File |-> IF f \in members THEN "partial" ELSE outcome[f]]
            \in [File -> {"none", "success", "partial", "failed", "cancelled"}]
    BY <1>t DEF TypeOK
  <2>1. outcome' \in [File -> {"none", "success", "partial", "failed", "cancelled"}]
    <3>1. outcome' = outcome \/ outcome' = PartsOf(members)
          \/ outcome' = [f \in File |-> IF f \in members THEN "partial" ELSE outcome[f]]
      BY <1>16, <1>t DEF ApplyComponent, TypeOK
    <3> QED
      BY <3>1, <2>a, <1>t, <1>a DEF TypeOK
  <2>2. /\ pc' \in {"renames", "closing"} /\ broken' \in BOOLEAN
        /\ (UNCHANGED budget \/ Fault) /\ EndTxn
        /\ UNCHANGED <<diskVars, backupVars, job, left, plan, cancel, lost>>
    BY <1>16, <1>t DEF ApplyComponent, Persist, TypeOK, pastVars
  <2> QED
    BY ZenonT(60), <2>1, <2>2, <1>t, <1>b, <1>f, <1>j, <1>v, <1>p DEF Bounds, TypeOK, diskVars, backupVars, EndTxn
<1>17. CASE EndRenames
  BY ZenonT(60), <1>17, <1>t, <1>b, <1>f, <1>j, <1>v, <1>p DEF EndRenames, Bounds, TypeOK, pastVars, diskVars,
     backupVars, txnVars, Persist
<1>18. CASE Close
  BY ZenonT(60), <1>18, <1>t, <1>b, <1>f, <1>j, <1>v, <1>p DEF Close, Bounds, TypeOK, pastVars, diskVars, backupVars,
     txnVars, jobVars, Persist
<1>19. CASE RemoveJournal
  BY ZenonT(60), <1>19, <1>t, <1>b, <1>f, <1>j, <1>v, <1>p DEF RemoveJournal, Retire, Bounds, TypeOK, pastVars,
     diskVars, backupVars, txnVars, jobVars
<1>20. CASE FinalizeManifest
  <2>1. manifest' \in {manifest, "completed", "partial"}
    BY <1>20 DEF FinalizeManifest
  <2>2. \/ pc' = "seal" /\ UNCHANGED <<mem, txnVars, jobVars, budget>>
        \/ Fault /\ WorkEnds
    BY <1>20 DEF FinalizeManifest
  <2>3. UNCHANGED <<diskVars, binding, log, lost>>
    BY <1>20 DEF FinalizeManifest
  <2>4. CASE pc' = "seal" /\ UNCHANGED <<mem, txnVars, jobVars, budget>>
    BY ZenonT(60), <2>1, <2>3, <2>4, <1>t, <1>j, <1>v, <1>p DEF TypeOK, diskVars, txnVars, jobVars
  <2>5. CASE Fault /\ WorkEnds
    BY ZenonT(60), <2>1, <2>3, <2>5, <1>t, <1>f, <1>j, <1>v, <1>p DEF TypeOK, Bounds, diskVars, WorkEnds, EndTxn
  <2> QED
    BY <2>2, <2>4, <2>5
<1>21. CASE Seal
  BY ZenonT(60), <1>21, <1>t, <1>b, <1>f, <1>j, <1>v, <1>p DEF Seal, Bounds, TypeOK, diskVars, WorkEnds, EndTxn
<1>22. CASE BeginRecovery
  <2> DEFINE here == [f \in File |-> Here(f)]
             sure == {f \in File : here[f] \in Path /\ Evidence(log, f, at[here[f]])}
             back == {Move(f, here[f], Home[f]) : f \in {g \in sure : here[g] # Home[g]}}
             bad == Blocked(back, Taken)
  <2>1. back \subseteq [owner : File, src : Path, dst : Path]
    <3>1. \A f \in sure : here[f] \in Path /\ Home[f] \in Path
      BY PathsAssumption
    <3> HIDE DEF here
    <3> QED
      BY <3>1 DEF Move
  <2>2. /\ plan' = Components(back \ bad)
        /\ outcome' = [f \in File |-> IF f \in sure \ OwnersOf(bad) THEN "success" ELSE "failed"]
    BY <1>22 DEF BeginRecovery
  <2>3. \A C \in plan' : C \subseteq [owner : File, src : Path, dst : Path]
    <3> HIDE DEF back, bad
    <3> QED
      BY <2>1, <2>2, ComponentsTyped
  <2>4. outcome' \in [File -> {"none", "success", "partial", "failed", "cancelled"}]
    <3> HIDE DEF sure, bad
    <3> QED
      BY <2>2
  <2>5. /\ UNCHANGED <<diskVars, backupVars, log, txnVars, lost>>
        /\ job' = "recovery" /\ left' = File /\ pc' = "renames" /\ broken' = FALSE /\ cancel' = FALSE
        /\ budget.recoveries > 0 /\ budget' = [budget EXCEPT !.recoveries = @ - 1]
    BY <1>22 DEF BeginRecovery, pastVars
  <2>6. budget' \in Bounds
    BY <2>5, <1>b, BudgetStep
  <2> QED
    BY ZenonT(60), <2>3, <2>4, <2>5, <2>6, <1>t, <1>j, <1>v, <1>p DEF Bounds, TypeOK, diskVars, backupVars, txnVars
<1>23. CASE RecoveryComponent
  BY ZenonT(60), <1>23, <1>t, <1>b, <1>f, <1>j, <1>v, <1>p DEF RecoveryComponent, Bounds, TypeOK, pastVars, diskVars,
     backupVars, EndTxn
<1>24. CASE BeginRestore
  BY ZenonT(60), <1>24, <1>t, <1>b, <1>f, <1>j, <1>v, <1>p DEF BeginRestore, Bounds, TypeOK, pastVars, diskVars,
     backupVars, txnVars, jobVars
<1>25. ASSUME NEW f \in File, Restore(f) PROVE TypeOK'
  <2> DEFINE found == at[Home[f]]
  <2>1. /\ \/ UNCHANGED <<tags, stamp>>
           \/ /\ found \in File
              /\ tags' = [tags EXCEPT ![found] = [of |-> f, what |-> "old"]]
              /\ stamp' = [stamp EXCEPT ![found] = "recovered"]
        /\ outcome' \in {outcome, [outcome EXCEPT ![f] = "failed"]}
        /\ left' = left \ {f} /\ (UNCHANGED budget \/ Fault)
        /\ UNCHANGED <<at, backupVars, pc, txnVars, job, plan, broken, cancel>>
    BY <1>25 DEF Restore, Put
  <2>2. tags' \in [File -> [of : File, what : {"old", "new", "theirs"}]]
    BY <2>1, <1>g, <1>s
  <2>3. lost' \subseteq {"new", "theirs"}
    <3>1. \/ lost' \in {lost, lost \cup {"theirs"}}
          \/ found \in File /\ stamp[found] = "edited" /\ lost' = lost \cup {tags[found].what}
      BY <1>25 DEF Restore
    <3>2. found \in File /\ stamp[found] = "edited" => tags[found].what \in {"new", "theirs"}
      BY <1>t DEF Stamped, TypeOK
    <3> QED
      BY <3>1, <3>2, <1>t DEF TypeOK
  <2>4. /\ stamp' \in [File -> {"scanned", "applied", "recovered", "edited"}]
        /\ outcome' \in [File -> {"none", "success", "partial", "failed", "cancelled"}]
    BY ZenonT(60), <2>1, <1>t DEF TypeOK
  <2>5. budget' \in Bounds /\ left' \subseteq File
    BY <2>1, <1>b, <1>f, <1>t DEF TypeOK
  <2>6. UNCHANGED <<at, backupVars, pc, txnVars, job, plan, broken, cancel>>
    BY <2>1
  <2>7. budget' \in [faults : 0 .. MaxFaults, crashes : 0 .. MaxCrashes,
                        recoveries : 0 .. MaxRecoveries, meddling : 0 .. MaxMeddling]
    BY <2>5 DEF Bounds
  <2>8. UNCHANGED <<at, manifest, binding, pc, moves, members, cause, status, job, plan,
                    broken, cancel>>
    BY <2>6 DEF backupVars, txnVars
  <2> HIDE DEF found
  <2> QED
    BY ZenonT(60), <2>2, <2>3, <2>4, <2>5, <2>7, <2>8, <1>t, <1>j, <1>v, <1>p DEF TypeOK
<1>26. CASE EndRecovery
  BY ZenonT(60), <1>26, <1>t, <1>b, <1>f, <1>j, <1>v, <1>p DEF EndRecovery, Retire, WorkEnds, EndTxn, Bounds, TypeOK,
     diskVars, backupVars
<1>27. CASE Reconcile
  BY ZenonT(60), <1>27, <1>t, <1>b, <1>f, <1>j, <1>v, <1>p DEF Reconcile, Retire, Bounds, TypeOK, pastVars, diskVars,
     backupVars, txnVars, jobVars
<1>28. CASE Forget
  BY ZenonT(60), <1>28, <1>t, <1>b, <1>f, <1>j, <1>v, <1>p DEF Forget, Retire, Bounds, TypeOK, pastVars, diskVars,
     backupVars, txnVars, jobVars
<1>29. CASE Cancel
  BY ZenonT(60), <1>29, <1>t, <1>b, <1>f, <1>j, <1>v, <1>p DEF Cancel, Bounds, TypeOK, pastVars, diskVars, backupVars,
     txnVars
<1>30. CASE Crash
  <2>1. budget' \in Bounds
    BY <1>30, <1>b, BudgetStep DEF Crash
  <2> QED
    BY ZenonT(60), <1>30, <2>1, <1>t, <1>j, <1>v, <1>p DEF Crash, WorkEnds, EndTxn, Bounds, TypeOK, diskVars,
       backupVars
<1>31. CASE Meddle
  <2>1. budget' \in Bounds
    BY <1>31, <1>b, BudgetStep DEF Meddle
  <2>2. ASSUME NEW f \in File, Edit(f)
        PROVE  /\ tags' \in [File -> [of : File, what : {"old", "new", "theirs"}]]
               /\ stamp' \in [File -> {"scanned", "applied", "recovered", "edited"}]
    <3>1. \/ /\ tags' = [tags EXCEPT ![f] = [tags[f] EXCEPT !.what = "theirs"]]
             /\ stamp' = [stamp EXCEPT ![f] = "edited"]
          \/ tags' = [tags EXCEPT ![f] = tags[f]] /\ stamp' = [stamp EXCEPT ![f] = "edited"]
      BY <2>2 DEF Edit, Put
    <3>2. tags[f] \in [of : File, what : {"old", "new", "theirs"}]
      BY <2>2, <1>s
    <3>3. [tags[f] EXCEPT !.what = "theirs"] \in [of : File, what : {"old", "new", "theirs"}]
      BY <3>2
    <3>4. \E w \in [of : File, what : {"old", "new", "theirs"}] : tags' = [tags EXCEPT ![f] = w]
      BY <3>1, <3>2, <3>3
    <3> QED
      BY <3>1, <3>4, <1>s
  <2>3. /\ at' \in [Path -> File \cup {Nobody, Stranger}]
        /\ tags' \in [File -> [of : File, what : {"old", "new", "theirs"}]]
        /\ stamp' \in [File -> {"scanned", "applied", "recovered", "edited"}]
    BY <1>31, <2>2, <1>s DEF Meddle
  <2>4. UNCHANGED <<backupVars, log, mem, pc, txnVars, jobVars, lost>>
    BY <1>31 DEF Meddle
  <2>5. budget' \in [faults : 0 .. MaxFaults, crashes : 0 .. MaxCrashes,
                        recoveries : 0 .. MaxRecoveries, meddling : 0 .. MaxMeddling]
    BY <2>1 DEF Bounds
  <2>6. UNCHANGED <<manifest, binding, pc, moves, members, cause, status, job, left, plan,
                    outcome, broken, cancel, lost>>
    BY <2>4 DEF backupVars, txnVars, jobVars
  <2> QED
    BY ZenonT(60), <2>3, <2>5, <2>6, <1>t, <1>j, <1>v, <1>p DEF TypeOK
<1>32. CASE Rest
  BY ZenonT(60), <1>32, <1>t, <1>j, <1>v, <1>p DEF Rest, vars, pastVars, TypeOK, diskVars, backupVars, txnVars,
     jobVars
<1>33. CASE UNCHANGED vars
  BY ZenonT(60), <1>33, <1>t, <1>j, <1>v, <1>p DEF vars, pastVars, TypeOK, diskVars, backupVars, txnVars, jobVars
<1>34. CASE Look
  BY ZenonT(60), <1>34, <1>t, <1>b, <1>f, <1>j, <1>v, <1>p DEF Look, Bounds, TypeOK, pastVars, diskVars, backupVars,
     txnVars, jobVars
<1> QED
  BY <1>1, <1>2, <1>3, <1>4, <1>5, <1>6, <1>7, <1>8, <1>9, <1>10, <1>11, <1>12, <1>13,
     <1>14, <1>15, <1>16, <1>17, <1>18, <1>19, <1>20, <1>21, <1>22, <1>23, <1>24, <1>25,
     <1>26, <1>27, <1>28, <1>29, <1>30, <1>31, <1>32, <1>33, <1>34
     DEF Next, TxnStep, ApplyStep, RecoveryStep

(* Every step leaves nothing in hand where nothing is under way. *)
LEMMA QuietStep == Typed /\ [Next]_vars => Quiet'
<1> SUFFICES ASSUME Typed, [Next]_vars PROVE Quiet'
  OBVIOUS
<1>t. TypeOK /\ Quiet
  BY DEF Typed
<1>1. ASSUME NEW C \in plan, BeginComponent(C) PROVE Quiet'
  BY <1>1, <1>t DEF BeginComponent, Quiet, Renaming, txnVars
<1>2. CASE Intend
  <2>j. mem.ledger \in Seq(Entry)
    BY <1>t DEF TypeOK, Journal
  <2>1. \A e : Append(mem.ledger, e) # <<>>
    BY <2>j
  <2>2. \/ pc' = "rollback"
        \/ pc' = "move" /\ \E e : mem' = [mem EXCEPT !.ledger = Append(@, e)]
    BY <1>2 DEF Intend
  <2>3. pc' = "move" => mem'.ledger # <<>>
    BY <2>1, <2>2, <1>t DEF TypeOK, Journal
  <2> QED
    BY <2>2, <2>3 DEF Quiet, Renaming
<1>3. CASE MoveFile
  BY <1>3, <1>t DEF MoveFile, Quiet, Renaming
<1>4. CASE NoteMove
  BY <1>4, <1>t DEF NoteMove, Quiet, Renaming, Persist
<1>5. CASE RollBackMove
  BY <1>5, <1>t DEF RollBackMove, Quiet, Renaming
<1>6. CASE NoteRollback
  BY <1>6, <1>t DEF NoteRollback, Quiet, Renaming, Persist
<1>7. CASE NoteAgain
  BY <1>7, <1>t DEF NoteAgain, Quiet, Renaming, Persist, txnVars
<1>8. CASE BeginApply
  BY <1>8, <1>t DEF BeginApply, Quiet, Renaming, Persist, txnVars
<1>9. CASE WriteManifest
  BY <1>9, <1>t DEF WriteManifest, BackupFails, Quiet, Renaming, txnVars
<1>10. CASE WriteBinding
  BY <1>10, <1>t DEF WriteBinding, BackupFails, Quiet, Renaming, txnVars
<1>11. CASE Abort
  BY <1>11, <1>t DEF Abort, Quiet, Renaming, Persist, txnVars
<1>12. CASE StartApplying
  BY <1>12, <1>t DEF StartApplying, Quiet, Renaming, Persist, txnVars
<1>13. ASSUME NEW f \in File, WriteTags(f) PROVE Quiet'
  BY <1>13, <1>t DEF WriteTags, Quiet, Renaming, txnVars
<1>14. CASE Note
  BY <1>14, <1>t DEF Note, Quiet, Renaming, Persist, txnVars
<1>15. CASE StopWriting
  BY <1>15, <1>t DEF StopWriting, Quiet, Renaming, Persist, txnVars
<1>16. CASE ApplyComponent
  <2>1. EndTxn /\ pc' \in {"renames", "closing"}
    BY <1>16, <1>t DEF ApplyComponent, Persist, TypeOK
  <2> QED
    BY <2>1 DEF EndTxn, Quiet, Renaming
<1>17. CASE EndRenames
  BY <1>17, <1>t DEF EndRenames, Quiet, Renaming, Persist, txnVars
<1>18. CASE Close
  BY <1>18, <1>t DEF Close, Quiet, Renaming, Persist, txnVars
<1>19. CASE RemoveJournal
  BY <1>19, <1>t DEF RemoveJournal, Quiet, Renaming, txnVars
<1>20. CASE FinalizeManifest
  BY <1>20, <1>t DEF FinalizeManifest, Quiet, Renaming, WorkEnds, EndTxn, txnVars
<1>21. CASE Seal
  BY <1>21, <1>t DEF Seal, Quiet, Renaming, WorkEnds, EndTxn
<1>22. CASE BeginRecovery
  BY <1>22, <1>t DEF BeginRecovery, Quiet, Renaming, txnVars
<1>23. CASE RecoveryComponent
  BY <1>23, <1>t DEF RecoveryComponent, Quiet, Renaming, EndTxn
<1>24. CASE BeginRestore
  BY <1>24, <1>t DEF BeginRestore, Quiet, Renaming, txnVars
<1>25. ASSUME NEW f \in File, Restore(f) PROVE Quiet'
  BY <1>25, <1>t DEF Restore, Quiet, Renaming, txnVars
<1>26. CASE EndRecovery
  BY <1>26, <1>t DEF EndRecovery, Quiet, Renaming, WorkEnds, EndTxn
<1>27. CASE Reconcile
  BY <1>27, <1>t DEF Reconcile, Quiet, Renaming, txnVars
<1>28. CASE Forget \/ Cancel \/ Rest \/ UNCHANGED vars
  BY <1>28, <1>t DEF Forget, Quiet, Renaming, txnVars, Cancel, Rest, vars
<1>30. CASE Crash
  BY <1>30, <1>t DEF Crash, Quiet, Renaming, WorkEnds, EndTxn
<1>31. CASE Meddle
  BY <1>31, <1>t DEF Meddle, Quiet, Renaming, txnVars
<1>34. CASE Look
  BY <1>34, <1>t DEF Look, Quiet, Renaming, txnVars
<1> QED
  BY <1>1, <1>2, <1>3, <1>4, <1>5, <1>6, <1>7, <1>8, <1>9, <1>10, <1>11, <1>12, <1>13,
     <1>14, <1>15, <1>16, <1>17, <1>18, <1>19, <1>20, <1>21, <1>22, <1>23, <1>24, <1>25,
     <1>26, <1>27, <1>28, <1>30, <1>31, <1>34 DEF Next, TxnStep, ApplyStep, RecoveryStep

(* Which steps write to which part of the disk.                            *)
LEMMA Writers ==
    ASSUME [Next]_vars
    PROVE  /\ \/ UNCHANGED <<tags, stamp>> \/ Meddle
              \/ \E f \in File : WriteTags(f) \/ Restore(f)
           /\ UNCHANGED at \/ MoveFile \/ RollBackMove \/ Meddle
           /\ \/ UNCHANGED backupVars
              \/ WriteManifest \/ WriteBinding \/ FinalizeManifest \/ Seal
           /\ UNCHANGED lost \/ \E f \in File : Restore(f)
<1> DEFINE G == /\ \/ UNCHANGED <<tags, stamp>> \/ Meddle
                   \/ \E f \in File : WriteTags(f) \/ Restore(f)
                /\ UNCHANGED at \/ MoveFile \/ RollBackMove \/ Meddle
                /\ \/ UNCHANGED backupVars
                   \/ WriteManifest \/ WriteBinding \/ FinalizeManifest \/ Seal
                /\ UNCHANGED lost \/ \E f \in File : Restore(f)
<1>1. ASSUME NEW C \in plan, BeginComponent(C) PROVE G
  BY <1>1 DEF BeginComponent, diskVars, backupVars, pastVars
<1>2. CASE Intend
  BY <1>2 DEF Intend, diskVars, backupVars, pastVars
<1>3. CASE MoveFile
  BY <1>3 DEF MoveFile, backupVars, pastVars
<1>4. CASE NoteMove
  BY <1>4 DEF NoteMove, diskVars, backupVars, pastVars
<1>5. CASE RollBackMove
  BY <1>5 DEF RollBackMove, backupVars, pastVars
<1>6. CASE NoteRollback
  BY <1>6 DEF NoteRollback, diskVars, backupVars, pastVars
<1>7. CASE NoteAgain
  BY <1>7 DEF NoteAgain, diskVars, backupVars, pastVars
<1>8. CASE BeginApply
  BY <1>8 DEF BeginApply, diskVars, backupVars, pastVars
<1>9. CASE WriteManifest
  BY <1>9 DEF WriteManifest, diskVars, backupVars, pastVars
<1>10. CASE WriteBinding
  BY <1>10 DEF WriteBinding, diskVars, backupVars, pastVars
<1>11. CASE Abort
  BY <1>11 DEF Abort, diskVars, backupVars, pastVars
<1>12. CASE StartApplying
  BY <1>12 DEF StartApplying, diskVars, backupVars, pastVars
<1>13. ASSUME NEW f \in File, WriteTags(f) PROVE G
  BY <1>13 DEF WriteTags, backupVars, pastVars
<1>14. CASE Note
  BY <1>14 DEF Note, diskVars, backupVars, pastVars
<1>15. CASE StopWriting
  BY <1>15 DEF StopWriting, diskVars, backupVars, pastVars
<1>16. CASE ApplyComponent
  BY <1>16 DEF ApplyComponent, diskVars, backupVars, pastVars
<1>17. CASE EndRenames
  BY <1>17 DEF EndRenames, diskVars, backupVars, pastVars
<1>18. CASE Close
  BY <1>18 DEF Close, diskVars, backupVars, pastVars
<1>19. CASE RemoveJournal
  BY <1>19 DEF RemoveJournal, diskVars, backupVars, pastVars
<1>20. CASE FinalizeManifest
  BY <1>20 DEF FinalizeManifest, diskVars, backupVars
<1>21. CASE Seal
  BY <1>21 DEF Seal, diskVars, backupVars
<1>22. CASE BeginRecovery
  BY <1>22 DEF BeginRecovery, diskVars, backupVars, pastVars
<1>23. CASE RecoveryComponent
  BY <1>23 DEF RecoveryComponent, diskVars, backupVars, pastVars
<1>24. CASE BeginRestore
  BY <1>24 DEF BeginRestore, diskVars, backupVars, pastVars
<1>25. ASSUME NEW f \in File, Restore(f) PROVE G
  BY <1>25 DEF Restore, backupVars
<1>26. CASE EndRecovery
  BY <1>26 DEF EndRecovery, diskVars, backupVars
<1>27. CASE Reconcile
  BY <1>27 DEF Reconcile, diskVars, backupVars, pastVars
<1>28. CASE Forget \/ Cancel \/ Rest \/ UNCHANGED vars
  BY <1>28 DEF Forget, diskVars, backupVars, pastVars, Cancel, Rest, vars
<1>30. CASE Crash
  BY <1>30 DEF Crash, diskVars, backupVars
<1>31. CASE Meddle
  BY <1>31 DEF Meddle, backupVars
<1>34. CASE Look
  BY <1>34 DEF Look, diskVars, backupVars, pastVars
<1> QED
  BY <1>1, <1>2, <1>3, <1>4, <1>5, <1>6, <1>7, <1>8, <1>9, <1>10, <1>11, <1>12, <1>13,
     <1>14, <1>15, <1>16, <1>17, <1>18, <1>19, <1>20, <1>21, <1>22, <1>23, <1>24, <1>25,
     <1>26, <1>27, <1>28, <1>30, <1>31, <1>34 DEF Next, TxnStep, ApplyStep, RecoveryStep

(* Every step keeps the stamps true. *)
LEMMA StampedStep == Typed /\ [Next]_vars => Stamped'
<1> SUFFICES ASSUME Typed, [Next]_vars PROVE Stamped'
  OBVIOUS
<1>t. TypeOK /\ Stamped
  BY DEF Typed
<1>1. CASE UNCHANGED <<tags, stamp>>
  BY <1>1, <1>t DEF Stamped
<1>d. DOMAIN tags = File /\ DOMAIN stamp = File
  BY <1>t DEF TypeOK
<1>2. ASSUME NEW f \in File, WriteTags(f) PROVE Stamped'
  <2>1. \/ UNCHANGED <<tags, stamp>>
        \/ /\ tags' = [tags EXCEPT ![f] = [of |-> f, what |-> "new"]]
           /\ stamp' = [stamp EXCEPT ![f] = "applied"]
    BY <1>2 DEF WriteTags, Put
  <2> QED
    BY <2>1, <1>t, <1>d DEF Stamped
<1>3. ASSUME NEW f \in File, Restore(f) PROVE Stamped'
  <2>1. \/ UNCHANGED <<tags, stamp>>
        \/ \E g \in File : /\ tags' = [tags EXCEPT ![g] = [of |-> f, what |-> "old"]]
                           /\ stamp' = [stamp EXCEPT ![g] = "recovered"]
    BY <1>3 DEF Restore, Put
  <2> QED
    BY <2>1, <1>t, <1>d DEF Stamped
<1>4. CASE Meddle
  <2>1. \/ UNCHANGED <<tags, stamp>>
        \/ \E g \in File : Edit(g)
    BY <1>4 DEF Meddle
  <2>2. ASSUME NEW g \in File, Edit(g) PROVE Stamped'
    <3>1. /\ stamp' = [stamp EXCEPT ![g] = "edited"]
          /\ \/ tags' = [tags EXCEPT ![g] = [tags[g] EXCEPT !.what = "theirs"]]
             \/ tags[g].what = "new" /\ tags' = [tags EXCEPT ![g] = tags[g]]
      BY <2>2 DEF Edit, Put
    <3>2. /\ tags[g] \in [of : File, what : {"old", "new", "theirs"}]
          /\ DOMAIN tags = File /\ DOMAIN stamp = File
      BY <1>t DEF TypeOK
    <3>3. tags'[g].what # "old" /\ stamp'[g] = "edited"
      BY <3>1, <3>2
    <3>4. \A f \in File \ {g} : tags'[f] = tags[f] /\ stamp'[f] = stamp[f]
      BY <3>1, <3>2
    <3> QED
      BY <3>3, <3>4, <1>t DEF Stamped
  <2> QED
    BY <2>1, <2>2, <1>1
<1> QED
  BY <1>1, <1>2, <1>3, <1>4, Writers

(* While the worker may make a move, nothing else is done but around it.   *)
LEMMA BetweenLookAndMove ==
    ASSUME Looked, [Next]_vars
    PROVE  ~clear \/ Look \/ LookIsOver \/ Meddle \/ UNCHANGED <<at, mem, moved, pc>>
<1> DEFINE G == ~clear \/ Look \/ LookIsOver \/ Meddle \/ UNCHANGED <<at, mem, moved, pc>>
<1>g. clear => pc \in {"move", "rollback"} /\ (pc = "rollback" => moved # <<>>)
  BY DEF Looked
<1>1. ASSUME NEW C \in plan, BeginComponent(C) PROVE G
  BY <1>1, <1>g DEF BeginComponent
<1>2. CASE Intend
  BY <1>2, <1>g DEF Intend
<1>3. CASE MoveFile
  BY <1>3 DEF MoveFile
<1>4. CASE NoteMove
  BY <1>4, <1>g DEF NoteMove
<1>5. CASE RollBackMove
  BY <1>5 DEF RollBackMove
<1>6. CASE NoteRollback
  BY <1>6, <1>g DEF NoteRollback
<1>7. CASE NoteAgain
  BY <1>7, <1>g DEF NoteAgain
<1>8. CASE BeginApply
  BY <1>8, <1>g DEF BeginApply
<1>9. CASE WriteManifest
  BY <1>9, <1>g DEF WriteManifest
<1>10. CASE WriteBinding
  BY <1>10, <1>g DEF WriteBinding
<1>11. CASE Abort
  BY <1>11, <1>g DEF Abort
<1>12. CASE StartApplying
  BY <1>12, <1>g DEF StartApplying
<1>13. ASSUME NEW f \in File, WriteTags(f) PROVE G
  BY <1>13, <1>g DEF WriteTags
<1>14. CASE Note
  BY <1>14, <1>g DEF Note
<1>15. CASE StopWriting
  BY <1>15, <1>g DEF StopWriting
<1>16. CASE ApplyComponent
  BY <1>16 DEF ApplyComponent, EndTxn
<1>17. CASE EndRenames
  BY <1>17, <1>g DEF EndRenames
<1>18. CASE Close
  BY <1>18, <1>g DEF Close
<1>19. CASE RemoveJournal
  BY <1>19, <1>g DEF RemoveJournal
<1>20. CASE FinalizeManifest
  BY <1>20, <1>g DEF FinalizeManifest
<1>21. CASE Seal
  BY <1>21 DEF Seal, WorkEnds, EndTxn
<1>22. CASE BeginRecovery
  BY <1>22, <1>g DEF BeginRecovery
<1>23. CASE RecoveryComponent
  BY <1>23 DEF RecoveryComponent, EndTxn
<1>24. CASE BeginRestore
  BY <1>24, <1>g DEF BeginRestore
<1>25. ASSUME NEW f \in File, Restore(f) PROVE G
  BY <1>25, <1>g DEF Restore
<1>26. CASE EndRecovery
  BY <1>26 DEF EndRecovery, WorkEnds, EndTxn
<1>27. CASE Reconcile
  BY <1>27, <1>g DEF Reconcile
<1>28. CASE Forget \/ Cancel \/ Rest \/ UNCHANGED vars
  BY <1>28, <1>g DEF Forget, Cancel, diskVars, txnVars, Rest, vars
<1>30. CASE Crash
  BY <1>30 DEF Crash, WorkEnds, EndTxn
<1>31. CASE Meddle
  BY <1>31
<1>34. CASE Look
  BY <1>34
<1> QED
  BY <1>1, <1>2, <1>3, <1>4, <1>5, <1>6, <1>7, <1>8, <1>9, <1>10, <1>11, <1>12, <1>13,
     <1>14, <1>15, <1>16, <1>17, <1>18, <1>19, <1>20, <1>21, <1>22, <1>23, <1>24, <1>25,
     <1>26, <1>27, <1>28, <1>30, <1>31, <1>34 DEF Next, TxnStep, ApplyStep, RecoveryStep

(* Every step leaves the worker with what it has seen, or what came since. *)
LEMMA LookedStep == Typed /\ [Next]_vars => Looked'
<1> SUFFICES ASSUME Typed, [Next]_vars PROVE Looked'
  OBVIOUS
<1>t. Looked /\ TypeOK
  BY DEF Typed
<1> DEFINE m == mem.ledger[Len(mem.ledger)]
           b == mem.ledger[Last(moved)]
<1>m. pc = "move" => m.dst \in Path
  <2>1. pc = "move" => Len(mem.ledger) \in 1 .. Len(mem.ledger)
    BY <1>t DEF Typed, Quiet, TypeOK, Journal
  <2> QED
    BY <2>1, <1>t, EntryTyped
<1>b. pc = "rollback" /\ moved # <<>> => b.src \in Path /\ b.dst \in Path
  <2>1. moved # <<>> => Last(moved) \in 1 .. Len(mem.ledger)
    BY <1>t DEF Last, TypeOK
  <2> QED
    BY <2>1, <1>t, EntryTyped
<1> HIDE DEF m, b
<1>1. CASE LookIsOver
  BY <1>1 DEF LookIsOver, Looked
<1>2. CASE Look
  <2>1. /\ clear' = TRUE /\ UNCHANGED <<at, mem, moved, pc, late>>
        /\ \/ pc = "move" /\ m.dst \notin Taken
           \/ pc = "rollback" /\ moved # <<>> /\ b.dst \in Taken /\ b.src \notin Taken
    BY <1>2 DEF Look, CanMove, CanMoveBack, diskVars, txnVars, Last, m, b
  <2>4. \/ pc = "move" /\ at[m.dst] = Nobody
        \/ pc = "rollback" /\ moved # <<>> /\ at[b.dst] # Nobody /\ at[b.src] = Nobody
    BY <2>1, <1>m, <1>b DEF Taken
  <2>5. \/ pc = "move" /\ Open(m.dst)'
        \/ pc = "rollback" /\ moved # <<>> /\ at[b.dst] # Nobody /\ Open(b.src)'
    BY <2>1, <2>4 DEF Open, m, b
  <2> QED
    BY <2>1, <2>5 DEF Looked, m, b
<1>3. CASE Meddle
  <2>1. /\ UNCHANGED <<mem, moved, pc, clear>>
        /\ \/ UNCHANGED <<at, late>>
           \/ \E p \in Path : /\ at[p] = Nobody /\ at' = [at EXCEPT ![p] = Stranger]
                              /\ late' = IF clear THEN late \cup {p} ELSE late
    BY <1>3 DEF Meddle, Taken, txnVars
  <2>2. ~clear => late' = {}
    BY <2>1, <1>t DEF Looked
  <2>a. DOMAIN at = Path
    BY <1>t DEF TypeOK
  <2>3. clear => \A p \in Path : Open(p) =>
                   at'[p] = Nobody \/ (at'[p] = Stranger /\ p \in late')
    BY <2>1, <2>a, FilesAssumption DEF Open
  <2>4. \A p \in Path : at[p] # Nobody => at'[p] # Nobody
    BY <2>1, <2>a, FilesAssumption
  <2>l. /\ clear /\ pc = "move" => Open(m.dst)
        /\ clear /\ pc = "rollback" => moved # <<>> /\ Open(b.src) /\ at[b.dst] # Nobody
    BY <1>t DEF Looked, m, b
  <2>5. clear /\ pc = "move" =>
            at'[m.dst] = Nobody \/ (at'[m.dst] = Stranger /\ m.dst \in late')
    BY <2>3, <1>m, <2>l
  <2>6. clear /\ pc = "rollback" =>
            /\ moved # <<>> /\ at'[b.dst] # Nobody
            /\ at'[b.src] = Nobody \/ (at'[b.src] = Stranger /\ b.src \in late')
    BY <2>3, <2>4, <1>b, <2>l
  <2> QED
    BY <2>1, <2>2, <2>5, <2>6, <1>t DEF Looked, Open, m, b
<1>4. CASE UNCHANGED lookVars /\ ~clear
  BY <1>4, <1>t DEF Looked, lookVars
<1>5. CASE UNCHANGED lookVars /\ UNCHANGED <<at, mem, moved, pc>>
  BY <1>5, <1>t DEF Looked, lookVars, Open
<1> QED
  BY <1>1, <1>2, <1>3, <1>4, <1>5, <1>t, PastSteps, BetweenLookAndMove

(* So it is in the initial states. *)
LEMMA InitTyped == Init => Typed
<1> SUFFICES ASSUME Init PROVE Typed
  OBVIOUS
<1>1. at \in [Path -> File \cup {Nobody, Stranger}]
  BY DEF Init
<1>2. NoJournal \in Journal
  <2>1. <<>> \in Seq(Entry)
    OBVIOUS
  <2> QED
    BY <2>1 DEF NoJournal, Journal, FileState
<1>3. budget \in [faults : 0 .. MaxFaults, crashes : 0 .. MaxCrashes,
                  recoveries : 0 .. MaxRecoveries, meddling : 0 .. MaxMeddling]
  <2>1. MaxFaults \in Nat /\ MaxCrashes \in Nat /\ MaxRecoveries \in Nat /\ MaxMeddling \in Nat
    BY BoundsAssumption
  <2>2. \A n \in Nat : n \in 0 .. n
    OBVIOUS
  <2> QED
    BY <2>1, <2>2 DEF Init
<1>4. <<>> \in Seq(1 .. Len(mem.ledger))
  OBVIOUS
<1> QED
  BY <1>1, <1>2, <1>3, <1>4 DEF Init, NoWork, Typed, TypeOK, Quiet, Looked, Stamped, Renaming

(* And after every step.  *)
LEMMA TypedStep == Typed /\ [Next]_vars => Typed'
  BY TypeStep, QuietStep, LookedStep, StampedStep DEF Typed

(* Every variable keeps its type, for any batch, any names, any plan and   *)
(* any bounds.                                                             *)
THEOREM TypeCorrect == Spec => []TypeOK
<1>1. Typed => TypeOK
  BY DEF Typed
<1> QED
  BY InitTyped, TypedStep, <1>1, PTL DEF Spec

----------------------------------------------------------------------------
(* The phases of the worker, and what journal and backup say in each.      *)

(* Where the worker is in setting up the batch, applying and recovering it. *)
Setup == {"new", "backup", "bind", "abort", "start"}
Writing == {"tags", "note", "stopped", "renames", "closing"} \cup Renaming
Recovering == {"renames", "restore"} \cup Renaming

(* Until the journal says "applying" the batch has touched no file.        *)
Unwritten ==
    pc \in Setup \/ log.batch \in {"backing_up", "failed"} =>
        /\ \A f \in File : at[Home[f]] = f /\ tags[f].of = f /\ tags[f].what # "new"
        /\ log.ledger = <<>> /\ log.posted = {}

(* The backup is on disk and bound to the journal; or is being closed.     *)
Prepared == manifest = "prepared" /\ binding = "prepared"
HalfSealed == manifest \in {"partial", "completed"} /\ binding = "prepared"

(* The set-up has written the journal, then the manifest, then its binding. *)
InSetup ==
    /\ pc = "new" => log = NoJournal /\ manifest = "none" /\ binding = "none"
    /\ pc \in Setup \ {"new"} =>
            /\ log.batch = "backing_up" /\ mem.batch \in {"backing_up", "failed"}
            /\ mem.ledger = <<>> /\ mem.posted = {}
    /\ pc \in Setup => manifest \in {"none", "prepared"}
    /\ pc = "bind" => manifest = "prepared"
    /\ pc = "start" => Prepared
(* Apply writes under its journal and with its backup until it seals both. *)
InApply ==
    /\ pc \in Setup \cup {"tags", "note", "stopped", "closing", "remove", "finalize", "seal"} =>
            job = "apply"
    /\ job = "apply" /\ pc \in Writing =>
            Prepared /\ log.batch = "applying" /\ mem.batch = "applying"
    /\ pc \in {"remove", "finalize"} => Prepared
    /\ pc = "seal" => HalfSealed
    /\ pc \in {"remove", "finalize", "seal"} => log.batch \in {"applying", "done", "none"}
(* A batch that touched nothing is recovered without touching anything.    *)
InRecovery ==
    /\ pc = "restore" => job = "recovery"
    /\ job = "recovery" /\ pc \in Recovering =>
            /\ Readable /\ Offered
            /\ mem.batch = log.batch /\ mem.state = log.state
            /\ log.batch # "applying" =>
                    /\ pc \in {"renames", "restore"} /\ plan = {}
                    /\ \A f \in File \ since : outcome[f] = "success" => tags[f].what = "old"
(* A batch that may have been written has a backup, if only a half-closed one. *)
Sealed == log.batch = "applying" => Readable \/ HalfSealed

(* Together: what a crash leaves on disk, and what the worker may rely on. *)
Phases == Unwritten /\ InSetup /\ InApply /\ InRecovery /\ Sealed

----------------------------------------------------------------------------
(* The end of the batch.                                                   *)

(* A file whose rename is still to come; a journal with nothing to recover. *)
Planned(f) == \E C \in plan : f \in OwnersOf(C)
Closed == ~Offered \/ \A f \in File : log.state[f] = "complete"

(* No file that is to be renamed is forgotten: until it counts as complete *)
(* it waits in the plan, is under way, or has not succeeded.               *)
Covered ==
    /\ pc \in {"backup", "bind", "start"} => left = File
    /\ pc \in {"backup", "bind", "start", "tags", "note"} => plan = Components(ApplyMoves)
    /\ job = "apply" /\ pc \in {"renames"} \cup Renaming =>
            \A f \in OwnersOf(ApplyMoves) :
                outcome[f] = "success" =>
                    mem.state[f] = "complete" \/ f \in members \/ Planned(f)
(* The worker reaches its end clean only when no file is left open.        *)
Closing ==
    /\ pc = "tags" /\ left = {} => File = {}
    /\ pc = "stopped" => broken
    /\ pc \in {"closing", "remove", "finalize"} /\ Clean => Closed
    /\ manifest = "completed" => Closed

(* A rename changes nothing of the journal but its ledger.                 *)
LEMMA TxnJournal ==
    ASSUME Typed,
           (\E C \in plan : BeginComponent(C)) \/ Intend \/ MoveFile \/ RollBackMove
    PROVE  /\ mem'.batch = mem.batch /\ mem'.posted = mem.posted
           /\ pc # "renames" \/ job = "recovery" => mem'.state = mem.state
           /\ log' \in {log, mem'}
<1>t. mem \in Journal
  BY DEF Typed, TypeOK
<1>s. ASSUME NEW j \in Journal, NEW i, NEW s
      PROVE  /\ InState(j, i, s).batch = j.batch /\ InState(j, i, s).posted = j.posted
             /\ InState(j, i, s).state = j.state
  BY <1>s DEF InState, Journal
<1>1. ASSUME NEW C \in plan, BeginComponent(C)
      PROVE  /\ mem'.batch = mem.batch /\ mem'.posted = mem.posted /\ log' = log
             /\ job = "recovery" => mem' = mem
             /\ pc = "renames"
  BY <1>1, <1>t DEF BeginComponent, PartialIn, txnVars, Journal
<1>2. CASE Intend
  <2>1. PICK s \in Steps(moves, FreshTemps) :
          LET e == [owner |-> s.step.owner, src |-> s.step.src, dst |-> s.step.dst, state |-> "intent"]
              j == [mem EXCEPT !.ledger = Append(@, e)]
          IN  \/ mem' = j /\ log' = j
              \/ mem' = InState(j, Len(j.ledger), "rolled_back") /\ log' = log
    BY <1>2 DEF Intend
  <2> DEFINE e == [owner |-> s.step.owner, src |-> s.step.src, dst |-> s.step.dst, state |-> "intent"]
             j == [mem EXCEPT !.ledger = Append(@, e)]
  <2>2. /\ s.step \in [owner : File, src : Path, dst : Path] /\ e \in Entry
    <3>1. moves \in SUBSET [owner : File, src : Path, dst : Path]
      BY DEF Typed, TypeOK
    <3> QED
      BY <3>1, StepsTyped DEF Entry
  <2>3. j \in Journal
    <3> HIDE DEF e
    <3> QED
      BY <2>2, <1>t, JournalStep
  <2>4. j.batch = mem.batch /\ j.posted = mem.posted /\ j.state = mem.state
    BY <1>t DEF Journal
  <2>5. \A i, x : LET k == InState(j, i, x)
                  IN k.batch = mem.batch /\ k.posted = mem.posted /\ k.state = mem.state
    <3> HIDE DEF j
    <3> QED
      BY <2>3, <2>4, <1>s
  <2> QED
    BY <2>1, <2>4, <2>5
<1>3. CASE MoveFile
  <2>1. log' = log /\ \E s \in {"completed", "rolled_back"} : mem' = InState(mem, Len(mem.ledger), s)
    BY <1>3 DEF MoveFile
  <2> QED
    BY <2>1, <1>t, <1>s
<1>4. CASE RollBackMove
  <2>1. log' = log /\ \E s \in {"unresolved", "rolled_back"} : mem' = InState(mem, Last(moved), s)
    BY <1>4 DEF RollBackMove
  <2> QED
    BY <2>1, <1>t, <1>s
<1> QED
  BY <1>1, <1>2, <1>3, <1>4

(* A worker that has to write a journal goes on or goes elsewhere.         *)
LEMMA JournalPhase ==
    ASSUME Typed, Phases, [Next]_vars
    PROVE  /\ pc' \in Setup => pc \in Setup
           /\ log' # log => pc # "restore" \/ log' = NoJournal
           /\ pc' \in Setup \/ log'.batch \in {"backing_up", "failed"} =>
                /\ pc \in Setup \/ log.batch \in {"backing_up", "failed"}
                /\ log'.ledger = <<>> /\ log'.posted = {}
<1>t. log \in Journal /\ mem \in Journal /\ Typed
  BY DEF Typed, TypeOK
<1>n. NoJournal.batch = "none"
  BY DEF NoJournal
<1> DEFINE Still == pc \in Setup \/ log.batch \in {"backing_up", "failed"}
           G == /\ pc' \in Setup => pc \in Setup
                /\ log' # log => pc # "restore" \/ log' = NoJournal
                /\ Still' => Still /\ log'.ledger = <<>> /\ log'.posted = {}
<1>i. Still => log.ledger = <<>> /\ log.posted = {}
  BY DEF Phases, Unwritten
<1>a. /\ InSetup
      /\ job = "apply" /\ pc \in Writing => log.batch = "applying" /\ mem.batch = "applying"
      /\ job = "recovery" /\ pc \in Recovering => mem.batch = log.batch
      /\ job = "recovery" /\ pc \in Renaming => log.batch = "applying"
      /\ job \in {"apply", "recovery"}
      /\ pc \in {"tags", "note", "stopped", "closing"} => job = "apply"
  BY DEF Phases, InSetup, InApply, InRecovery, Recovering, Renaming, Typed, TypeOK
<1>1. ASSUME NEW C \in plan, BeginComponent(C) PROVE G
  BY <1>1, <1>i, <1>a, <1>n, <1>t DEF BeginComponent, txnVars, Setup, Writing, Recovering, Renaming,
     InSetup, Journal
<1>2. CASE Intend
  BY <1>2, <1>i, <1>a, <1>n, <1>t DEF Intend, Setup, Writing, Recovering, Renaming, InSetup, Journal
<1>3. CASE MoveFile
  BY <1>3, <1>i, <1>a, <1>n, <1>t DEF MoveFile, Setup, Writing, Recovering, Renaming, InSetup, Journal
<1>4. CASE NoteMove
  BY <1>4, <1>i, <1>a, <1>n, <1>t DEF NoteMove, Persist, Setup, Writing, Recovering, Renaming, InSetup,
     Journal
<1>5. CASE RollBackMove
  BY <1>5, <1>i, <1>a, <1>n, <1>t DEF RollBackMove, Setup, Writing, Recovering, Renaming, InSetup, Journal
<1>6. CASE NoteRollback
  BY <1>6, <1>i, <1>a, <1>n, <1>t DEF NoteRollback, Persist, Setup, Writing, Recovering, Renaming,
     InSetup, Journal
<1>7. CASE NoteAgain
  BY <1>7, <1>i, <1>a, <1>n, <1>t DEF NoteAgain, Persist, txnVars, Setup, Writing, Recovering, Renaming,
     InSetup, Journal
<1>8. CASE BeginApply
  BY <1>8, <1>i, <1>a, <1>n, <1>t DEF BeginApply, Persist, txnVars, Setup, Writing, Recovering, Renaming,
     InSetup, Journal
<1>9. CASE WriteManifest
  BY <1>9, <1>i, <1>a, <1>n, <1>t DEF WriteManifest, BackupFails, txnVars, Setup, Writing, Recovering,
     Renaming, InSetup, Journal
<1>10. CASE WriteBinding
  BY <1>10, <1>i, <1>a, <1>n, <1>t DEF WriteBinding, BackupFails, txnVars, Setup, Writing, Recovering,
     Renaming, InSetup, Journal
<1>11. CASE Abort
  BY <1>11, <1>i, <1>a, <1>n, <1>t DEF Abort, Persist, txnVars, Setup, Writing, Recovering, Renaming,
     InSetup, Journal
<1>12. CASE StartApplying
  BY <1>12, <1>i, <1>a, <1>n, <1>t DEF StartApplying, Persist, txnVars, Setup, Writing, Recovering,
     Renaming, InSetup, Journal
<1>13. ASSUME NEW f \in File, WriteTags(f) PROVE G
  BY <1>13, <1>i, <1>a, <1>n, <1>t DEF WriteTags, txnVars, Setup, Writing, Recovering, Renaming, InSetup,
     Journal
<1>14. CASE Note
  BY <1>14, <1>i, <1>a, <1>n, <1>t DEF Note, Persist, txnVars, Setup, Writing, Recovering, Renaming,
     InSetup, Journal
<1>15. CASE StopWriting
  BY <1>15, <1>i, <1>a, <1>n, <1>t DEF StopWriting, Persist, txnVars, Setup, Writing, Recovering,
     Renaming, InSetup, Journal
<1>16. CASE ApplyComponent
  <2>1. /\ pc \in Renaming /\ job = "apply" /\ pc' \in {"renames", "closing"}
        /\ \E s : mem' = [mem EXCEPT !.state = s]
        /\ log' \in {log, mem'}
    BY <1>16, <1>t DEF ApplyComponent, Persist, PartialIn, Renaming, Typed, TypeOK
  <2> QED
    BY <2>1, <1>i, <1>a, <1>t DEF Setup, Writing, Renaming, Journal
<1>17. CASE EndRenames
  BY <1>17, <1>i, <1>a, <1>n, <1>t DEF EndRenames, Persist, txnVars, Setup, Writing, Recovering, Renaming,
     InSetup, Journal
<1>18. CASE Close
  BY <1>18, <1>i, <1>a, <1>n, <1>t DEF Close, Persist, txnVars, Setup, Writing, Recovering, Renaming,
     InSetup, Journal
<1>19. CASE RemoveJournal
  BY <1>19, <1>i, <1>a, <1>n, <1>t DEF RemoveJournal, Retire, txnVars, Setup, Writing, Recovering,
     Renaming, InSetup, Journal
<1>20. CASE FinalizeManifest
  BY <1>20, <1>i, <1>a, <1>n, <1>t DEF FinalizeManifest, WorkEnds, EndTxn, txnVars, Setup, Writing,
     Recovering, Renaming, InSetup, Journal
<1>21. CASE Seal
  BY <1>21, <1>i, <1>a, <1>n, <1>t DEF Seal, WorkEnds, EndTxn, Setup, Writing, Recovering, Renaming,
     InSetup, Journal
<1>22. CASE BeginRecovery
  BY <1>22, <1>i, <1>a, <1>n, <1>t DEF BeginRecovery, txnVars, Setup, Writing, Recovering, Renaming,
     InSetup, Journal
<1>23. CASE RecoveryComponent
  BY <1>23, <1>i, <1>a, <1>n, <1>t DEF RecoveryComponent, EndTxn, Setup, Writing, Recovering, Renaming,
     InSetup, Journal
<1>24. CASE BeginRestore
  BY <1>24, <1>i, <1>a, <1>n, <1>t DEF BeginRestore, txnVars, Setup, Writing, Recovering, Renaming,
     InSetup, Journal
<1>25. ASSUME NEW f \in File, Restore(f) PROVE G
  BY <1>25, <1>i, <1>a, <1>n, <1>t DEF Restore, txnVars, Setup, Writing, Recovering, Renaming, InSetup,
     Journal
<1>26. CASE EndRecovery
  BY <1>26, <1>i, <1>a, <1>n, <1>t DEF EndRecovery, Retire, WorkEnds, EndTxn, Setup, Writing, Recovering,
     Renaming, InSetup, Journal
<1>27. CASE Reconcile
  BY <1>27, <1>i, <1>a, <1>n, <1>t DEF Reconcile, Retire, txnVars, Setup, Writing, Recovering, Renaming,
     InSetup, Journal
<1>28. CASE Forget \/ Cancel \/ Rest \/ UNCHANGED vars
  BY <1>28, <1>i, <1>a, <1>n, <1>t DEF Forget, Retire, txnVars, Setup, Writing, Recovering, Renaming,
     InSetup, Journal, Cancel, Rest, vars, diskVars, jobVars
<1>30. CASE Crash
  BY <1>30, <1>i, <1>a, <1>n, <1>t DEF Crash, WorkEnds, EndTxn, Setup, Writing, Recovering, Renaming,
     InSetup, Journal
<1>31. CASE Meddle
  BY <1>31, <1>i, <1>a, <1>n, <1>t DEF Meddle, txnVars, Setup, Writing, Recovering, Renaming, InSetup,
     Journal
<1>34. CASE Look
  BY <1>34, <1>i, <1>a, <1>n, <1>t DEF Look, txnVars, Setup, Writing, Recovering, Renaming, InSetup,
     Journal
<1> QED
  BY <1>1, <1>2, <1>3, <1>4, <1>5, <1>6, <1>7, <1>8, <1>9, <1>10, <1>11, <1>12, <1>13,
     <1>14, <1>15, <1>16, <1>17, <1>18, <1>19, <1>20, <1>21, <1>22, <1>23, <1>24, <1>25,
     <1>26, <1>27, <1>28, <1>30, <1>31, <1>34 DEF Next, TxnStep, ApplyStep, RecoveryStep

(* A batch that is still being set up changes no file.                     *)
LEMMA UnwrittenStep == Typed /\ Phases /\ [Next]_vars => Unwritten'
<1> SUFFICES ASSUME Typed, Phases, [Next]_vars,
                    pc' \in Setup \/ log'.batch \in {"backing_up", "failed"}
             PROVE  /\ \A f \in File : at'[Home[f]] = f /\ tags'[f].of = f /\ tags'[f].what # "new"
                    /\ log'.ledger = <<>> /\ log'.posted = {}
  BY DEF Unwritten
<1>t. TypeOK /\ Unwritten /\ InApply /\ InRecovery
  BY DEF Typed, Phases
<1>1. /\ pc \in Setup \/ log.batch \in {"backing_up", "failed"}
      /\ log'.ledger = <<>> /\ log'.posted = {}
      /\ pc' \in Setup => pc \in Setup
  BY JournalPhase
<1>2. \A f \in File : at[Home[f]] = f /\ tags[f].of = f /\ tags[f].what # "new"
  BY <1>1, <1>t DEF Unwritten
<1>w. pc \notin {"tags", "move", "rollback"}
  <2>1. log.batch = "applying" => pc \in Setup
    BY <1>1
  <2> QED
    BY <2>1, <1>t DEF InApply, InRecovery, Writing, Recovering, Renaming, Setup, TypeOK
<1>3. \A f \in File : at'[Home[f]] = f
  <2>1. CASE UNCHANGED at
    BY <2>1, <1>2
  <2>2. CASE MoveFile \/ RollBackMove
    BY <2>2, <1>w DEF MoveFile, RollBackMove
  <2>3. CASE Meddle
    <3>1. UNCHANGED at \/ \E p \in Path \ Taken : at' = [at EXCEPT ![p] = Stranger]
      BY <2>3 DEF Meddle
    <3>2. \A f \in File : Home[f] \in Taken
      BY <1>2, PathsAssumption, FilesAssumption DEF Taken
    <3> QED
      BY <3>1, <3>2, <1>2, <1>t, PathsAssumption DEF TypeOK
  <2> QED
    BY <2>1, <2>2, <2>3, Writers
<1>4. \A f \in File : tags'[f].of = f /\ tags'[f].what # "new"
  <2>1. CASE UNCHANGED <<tags, stamp>>
    BY <2>1, <1>2
  <2>2. ASSUME NEW f \in File, WriteTags(f) PROVE FALSE
    BY <2>2, <1>w DEF WriteTags
  <2>3. ASSUME NEW f \in File, Restore(f)
        PROVE  UNCHANGED <<tags, stamp>> \/ tags' = [tags EXCEPT ![f] = [of |-> f, what |-> "old"]]
    <3>1. at[Home[f]] = f
      BY <1>2
    <3> QED
      BY <2>3, <3>1 DEF Restore, Put
  <2>4. CASE Meddle
    <3>1. UNCHANGED <<tags, stamp>> \/ \E g \in File : Edit(g)
      BY <2>4 DEF Meddle
    <3>2. ASSUME NEW g \in File, Edit(g)
          PROVE  \A f \in File : tags'[f].of = f /\ tags'[f].what # "new"
      <4>1. tags' = [tags EXCEPT ![g] = [tags[g] EXCEPT !.what = "theirs"]]
        BY <3>2, <1>2 DEF Edit, Put
      <4>2. tags[g] \in [of : File, what : {"old", "new", "theirs"}] /\ DOMAIN tags = File
        BY <1>t DEF TypeOK
      <4>3. tags'[g].of = g /\ tags'[g].what = "theirs"
        BY <4>1, <4>2, <1>2
      <4>4. \A f \in File \ {g} : tags'[f] = tags[f]
        BY <4>1, <4>2
      <4> QED
        BY <4>3, <4>4, <1>2
    <3> QED
      BY <3>1, <3>2, <2>1
  <2>5. ASSUME NEW f \in File, Restore(f)
        PROVE  \A g \in File : tags'[g].of = g /\ tags'[g].what # "new"
    <3>1. DOMAIN tags = File
      BY <1>t DEF TypeOK
    <3>2. CASE tags' = [tags EXCEPT ![f] = [of |-> f, what |-> "old"]]
      <4>1. tags'[f].of = f /\ tags'[f].what = "old"
        BY <3>1, <3>2
      <4>2. \A g \in File \ {f} : tags'[g] = tags[g]
        BY <3>1, <3>2
      <4> QED
        BY <4>1, <4>2, <1>2
    <3> QED
      BY <3>2, <2>5, <2>3, <1>2
  <2> QED
    BY <2>1, <2>2, <2>5, <2>4, Writers
<1> QED
  BY <1>1, <1>3, <1>4

(* The set-up goes from the journal to the manifest to its binding.        *)
LEMMA InSetupStep == Typed /\ Phases /\ [Next]_vars => InSetup'
<1> SUFFICES ASSUME Typed, Phases, [Next]_vars PROVE InSetup'
  OBVIOUS
<1>t. log \in Journal /\ mem \in Journal /\ Typed
  BY DEF Typed, TypeOK
<1>n. NoJournal.batch = "none" /\ NoJournal.ledger = <<>> /\ NoJournal.posted = {}
  BY DEF NoJournal
<1>i. InSetup
  BY DEF Phases
<1>1. ASSUME NEW C \in plan, BeginComponent(C) PROVE InSetup'
  BY <1>1, <1>i, <1>t, <1>n DEF BeginComponent, diskVars, backupVars, txnVars, InSetup, Setup, Prepared,
     Journal
<1>2. CASE Intend
  BY <1>2, <1>i, <1>t, <1>n DEF Intend, diskVars, backupVars, jobVars, InSetup, Setup, Prepared, Journal
<1>3. CASE MoveFile
  BY <1>3, <1>i, <1>t, <1>n DEF MoveFile, backupVars, jobVars, InSetup, Setup, Prepared, Journal
<1>4. CASE NoteMove
  BY <1>4, <1>i, <1>t, <1>n DEF NoteMove, Persist, diskVars, backupVars, jobVars, InSetup, Setup,
     Prepared, Journal
<1>5. CASE RollBackMove
  BY <1>5, <1>i, <1>t, <1>n DEF RollBackMove, backupVars, jobVars, InSetup, Setup, Prepared, Journal
<1>6. CASE NoteRollback
  BY <1>6, <1>i, <1>t, <1>n DEF NoteRollback, Persist, diskVars, backupVars, jobVars, InSetup, Setup,
     Prepared, Journal
<1>7. CASE NoteAgain
  BY <1>7, <1>i, <1>t, <1>n DEF NoteAgain, Persist, diskVars, backupVars, txnVars, jobVars, InSetup,
     Setup, Prepared, Journal
<1>8. CASE BeginApply
  BY <1>8, <1>i, <1>t, <1>n DEF BeginApply, Persist, diskVars, backupVars, txnVars, InSetup, Setup,
     Prepared, Journal
<1>9. CASE WriteManifest
  BY <1>9, <1>i, <1>t, <1>n DEF WriteManifest, BackupFails, diskVars, backupVars, txnVars, jobVars,
     InSetup, Setup, Prepared, Journal
<1>10. CASE WriteBinding
  BY <1>10, <1>i, <1>t, <1>n DEF WriteBinding, BackupFails, diskVars, backupVars, txnVars, jobVars,
     InSetup, Setup, Prepared, Journal
<1>11. CASE Abort
  BY <1>11, <1>i, <1>t, <1>n DEF Abort, Persist, diskVars, backupVars, txnVars, jobVars, InSetup, Setup,
     Prepared, Journal
<1>12. CASE StartApplying
  BY <1>12, <1>i, <1>t, <1>n DEF StartApplying, Persist, diskVars, backupVars, txnVars, jobVars, InSetup,
     Setup, Prepared, Journal
<1>13. ASSUME NEW f \in File, WriteTags(f) PROVE InSetup'
  BY <1>13, <1>i, <1>t, <1>n DEF WriteTags, backupVars, txnVars, InSetup, Setup, Prepared, Journal
<1>14. CASE Note
  BY <1>14, <1>i, <1>t, <1>n DEF Note, Persist, diskVars, backupVars, txnVars, InSetup, Setup, Prepared,
     Journal
<1>15. CASE StopWriting
  BY <1>15, <1>i, <1>t, <1>n DEF StopWriting, Persist, diskVars, backupVars, txnVars, InSetup, Setup,
     Prepared, Journal
<1>16. CASE ApplyComponent
  <2>1. /\ pc = "component" /\ job = "apply" /\ pc' \in {"renames", "closing"} /\ job' = job
        /\ \E s : mem' = [mem EXCEPT !.state = s]
        /\ log' \in {log, mem'} /\ UNCHANGED <<backupVars, plan>>
    BY <1>16, <1>t DEF ApplyComponent, Persist, PartialIn, Typed, TypeOK
  <2> QED
    BY <2>1, <1>i DEF InSetup, Setup
<1>17. CASE EndRenames
  BY <1>17, <1>i, <1>t, <1>n DEF EndRenames, Persist, diskVars, backupVars, txnVars, InSetup, Setup,
     Prepared, Journal
<1>18. CASE Close
  BY <1>18, <1>i, <1>t, <1>n DEF Close, Persist, diskVars, backupVars, txnVars, jobVars, InSetup, Setup,
     Prepared, Journal
<1>19. CASE RemoveJournal
  BY <1>19, <1>i, <1>t, <1>n DEF RemoveJournal, Retire, diskVars, backupVars, txnVars, jobVars, InSetup,
     Setup, Prepared, Journal
<1>20. CASE FinalizeManifest
  BY <1>20, <1>i, <1>t, <1>n DEF FinalizeManifest, WorkEnds, EndTxn, diskVars, txnVars, jobVars, InSetup,
     Setup, Prepared, Journal
<1>21. CASE Seal
  BY <1>21, <1>i, <1>t, <1>n DEF Seal, WorkEnds, EndTxn, diskVars, InSetup, Setup, Prepared, Journal
<1>22. CASE BeginRecovery
  BY <1>22, <1>i, <1>t, <1>n DEF BeginRecovery, diskVars, backupVars, txnVars, InSetup, Setup, Prepared,
     Journal
<1>23. CASE RecoveryComponent
  BY <1>23, <1>i, <1>t, <1>n DEF RecoveryComponent, EndTxn, diskVars, backupVars, InSetup, Setup,
     Prepared, Journal
<1>24. CASE BeginRestore
  BY <1>24, <1>i, <1>t, <1>n DEF BeginRestore, diskVars, backupVars, txnVars, jobVars, InSetup, Setup,
     Prepared, Journal
<1>25. ASSUME NEW f \in File, Restore(f) PROVE InSetup'
  BY <1>25, <1>i, <1>t, <1>n DEF Restore, backupVars, txnVars, InSetup, Setup, Prepared, Journal
<1>26. CASE EndRecovery
  BY <1>26, <1>i, <1>t, <1>n DEF EndRecovery, Retire, WorkEnds, EndTxn, diskVars, backupVars, InSetup,
     Setup, Prepared, Journal
<1>27. CASE Reconcile
  BY <1>27, <1>i, <1>t, <1>n DEF Reconcile, Retire, diskVars, backupVars, txnVars, jobVars, InSetup,
     Setup, Prepared, Journal
<1>28. CASE Forget \/ Cancel \/ Rest \/ UNCHANGED vars
  BY <1>28, <1>i, <1>t, <1>n DEF Forget, Retire, diskVars, backupVars, txnVars, jobVars, InSetup, Setup,
     Prepared, Journal, Cancel, Rest, vars
<1>30. CASE Crash
  BY <1>30, <1>i, <1>t, <1>n DEF Crash, WorkEnds, EndTxn, diskVars, backupVars, InSetup, Setup, Prepared,
     Journal
<1>31. CASE Meddle
  BY <1>31, <1>i, <1>t, <1>n DEF Meddle, backupVars, txnVars, jobVars, InSetup, Setup, Prepared, Journal
<1>34. CASE Look
  BY <1>34, <1>i, <1>t, <1>n DEF Look, diskVars, backupVars, txnVars, jobVars, InSetup, Setup, Prepared,
     Journal
<1> QED
  BY <1>1, <1>2, <1>3, <1>4, <1>5, <1>6, <1>7, <1>8, <1>9, <1>10, <1>11, <1>12, <1>13,
     <1>14, <1>15, <1>16, <1>17, <1>18, <1>19, <1>20, <1>21, <1>22, <1>23, <1>24, <1>25,
     <1>26, <1>27, <1>28, <1>30, <1>31, <1>34 DEF Next, TxnStep, ApplyStep, RecoveryStep

(* Files are written under a prepared backup and a journal that says so.   *)
LEMMA InApplyStep == Typed /\ Phases /\ [Next]_vars => InApply'
<1> SUFFICES ASSUME Typed, Phases, [Next]_vars PROVE InApply'
  OBVIOUS
<1>t. log \in Journal /\ mem \in Journal /\ Typed
  BY DEF Typed, TypeOK
<1>n. NoJournal.batch = "none" /\ NoJournal.ledger = <<>> /\ NoJournal.posted = {}
  BY DEF NoJournal
<1>i. InApply /\ InSetup /\ job \in {"apply", "recovery"}
  BY DEF Phases, Typed, TypeOK
<1>r. pc = "restore" => job = "recovery"
  BY DEF Phases, InRecovery
<1>1. ASSUME NEW C \in plan, BeginComponent(C) PROVE InApply'
  <2>1. /\ pc = "renames" /\ pc' \in {"renames", "intent"} /\ UNCHANGED <<backupVars, job, log>>
    BY <1>1 DEF BeginComponent, txnVars
  <2>2. mem'.batch = mem.batch
    BY <1>1, TxnJournal
  <2> QED
    BY <2>1, <2>2, <1>i DEF InApply, Setup, Writing, Renaming, Prepared, backupVars
<1>2. CASE Intend
  <2>1. /\ pc \in Renaming /\ pc' \in Renaming /\ UNCHANGED <<backupVars, job>>
        /\ mem'.batch = mem.batch /\ log' \in {log, mem'}
    BY <1>2, TxnJournal DEF Intend, Renaming, jobVars
  <2> QED
    BY <2>1, <1>i DEF InApply, Setup, Writing, Renaming, Prepared, backupVars
<1>3. CASE MoveFile
  <2>1. /\ pc \in Renaming /\ pc' \in Renaming /\ UNCHANGED <<backupVars, job>>
        /\ mem'.batch = mem.batch /\ log' \in {log, mem'}
    BY <1>3, TxnJournal DEF MoveFile, Renaming, jobVars
  <2> QED
    BY <2>1, <1>i DEF InApply, Setup, Writing, Renaming, Prepared, backupVars
<1>4. CASE NoteMove
  BY <1>4, <1>i, <1>r, <1>t, <1>n DEF NoteMove, Persist, diskVars, backupVars, jobVars, InApply, InSetup,
     Setup, Writing, Renaming, Prepared, HalfSealed, Journal
<1>5. CASE RollBackMove
  <2>1. /\ pc \in Renaming /\ pc' \in Renaming /\ UNCHANGED <<backupVars, job>>
        /\ mem'.batch = mem.batch /\ log' \in {log, mem'}
    BY <1>5, TxnJournal DEF RollBackMove, Renaming, jobVars
  <2> QED
    BY <2>1, <1>i DEF InApply, Setup, Writing, Renaming, Prepared, backupVars
<1>6. CASE NoteRollback
  BY <1>6, <1>i, <1>r, <1>t, <1>n DEF NoteRollback, Persist, diskVars, backupVars, jobVars, InApply,
     InSetup, Setup, Writing, Renaming, Prepared, HalfSealed, Journal
<1>7. CASE NoteAgain
  BY <1>7, <1>i, <1>r, <1>t, <1>n DEF NoteAgain, Persist, diskVars, backupVars, txnVars, jobVars, InApply,
     InSetup, Setup, Writing, Renaming, Prepared, HalfSealed, Journal
<1>8. CASE BeginApply
  BY <1>8, <1>i, <1>r, <1>t, <1>n DEF BeginApply, Persist, diskVars, backupVars, txnVars, InApply,
     InSetup, Setup, Writing, Renaming, Prepared, HalfSealed, Journal
<1>9. CASE WriteManifest
  BY <1>9, <1>i, <1>r, <1>t, <1>n DEF WriteManifest, BackupFails, diskVars, backupVars, txnVars, jobVars,
     InApply, InSetup, Setup, Writing, Renaming, Prepared, HalfSealed, Journal
<1>10. CASE WriteBinding
  BY <1>10, <1>i, <1>r, <1>t, <1>n DEF WriteBinding, BackupFails, diskVars, backupVars, txnVars, jobVars,
     InApply, InSetup, Setup, Writing, Renaming, Prepared, HalfSealed, Journal
<1>11. CASE Abort
  BY <1>11, <1>i, <1>r, <1>t, <1>n DEF Abort, Persist, diskVars, backupVars, txnVars, jobVars, InApply,
     InSetup, Setup, Writing, Renaming, Prepared, HalfSealed, Journal
<1>12. CASE StartApplying
  BY <1>12, <1>i, <1>r, <1>t, <1>n DEF StartApplying, Persist, diskVars, backupVars, txnVars, jobVars,
     InApply, InSetup, Setup, Writing, Renaming, Prepared, HalfSealed, Journal
<1>13. ASSUME NEW f \in File, WriteTags(f) PROVE InApply'
  BY <1>13, <1>i, <1>r, <1>t, <1>n DEF WriteTags, backupVars, txnVars, InApply, InSetup, Setup, Writing,
     Renaming, Prepared, HalfSealed, Journal
<1>14. CASE Note
  BY <1>14, <1>i, <1>r, <1>t, <1>n DEF Note, Persist, diskVars, backupVars, txnVars, InApply, InSetup,
     Setup, Writing, Renaming, Prepared, HalfSealed, Journal
<1>15. CASE StopWriting
  BY <1>15, <1>i, <1>r, <1>t, <1>n DEF StopWriting, Persist, diskVars, backupVars, txnVars, InApply,
     InSetup, Setup, Writing, Renaming, Prepared, HalfSealed, Journal
<1>16. CASE ApplyComponent
  <2>1. /\ pc = "component" /\ job = "apply" /\ pc' \in {"renames", "closing"} /\ job' = job
        /\ \E s : mem' = [mem EXCEPT !.state = s]
        /\ log' \in {log, mem'} /\ UNCHANGED <<backupVars, plan>>
    BY <1>16, <1>t DEF ApplyComponent, Persist, PartialIn, Typed, TypeOK
  <2> QED
    BY <2>1, <1>i, <1>t DEF backupVars, InApply, InSetup, Setup, Writing, Renaming, Prepared, HalfSealed,
       Journal
<1>17. CASE EndRenames
  BY <1>17, <1>i, <1>r, <1>t, <1>n DEF EndRenames, Persist, diskVars, backupVars, txnVars, InApply,
     InSetup, Setup, Writing, Renaming, Prepared, HalfSealed, Journal
<1>18. CASE Close
  BY <1>18, <1>i, <1>r, <1>t, <1>n DEF Close, Persist, diskVars, backupVars, txnVars, jobVars, InApply,
     InSetup, Setup, Writing, Renaming, Prepared, HalfSealed, Journal
<1>19. CASE RemoveJournal
  BY <1>19, <1>i, <1>r, <1>t, <1>n DEF RemoveJournal, Retire, diskVars, backupVars, txnVars, jobVars,
     InApply, InSetup, Setup, Writing, Renaming, Prepared, HalfSealed, Journal
<1>20. CASE FinalizeManifest
  BY <1>20, <1>i, <1>r, <1>t, <1>n DEF FinalizeManifest, WorkEnds, EndTxn, diskVars, txnVars, jobVars,
     InApply, InSetup, Setup, Writing, Renaming, Prepared, HalfSealed, Journal
<1>21. CASE Seal
  BY <1>21, <1>i, <1>r, <1>t, <1>n DEF Seal, WorkEnds, EndTxn, diskVars, InApply, InSetup, Setup, Writing,
     Renaming, Prepared, HalfSealed, Journal
<1>22. CASE BeginRecovery
  BY <1>22, <1>i, <1>r, <1>t, <1>n DEF BeginRecovery, diskVars, backupVars, txnVars, InApply, InSetup,
     Setup, Writing, Renaming, Prepared, HalfSealed, Journal
<1>23. CASE RecoveryComponent
  BY <1>23, <1>i, <1>r, <1>t, <1>n DEF RecoveryComponent, EndTxn, diskVars, backupVars, InApply, InSetup,
     Setup, Writing, Renaming, Prepared, HalfSealed, Journal
<1>24. CASE BeginRestore
  BY <1>24, <1>i, <1>r, <1>t, <1>n DEF BeginRestore, diskVars, backupVars, txnVars, jobVars, InApply,
     InSetup, Setup, Writing, Renaming, Prepared, HalfSealed, Journal
<1>25. ASSUME NEW f \in File, Restore(f) PROVE InApply'
  BY <1>25, <1>i, <1>r, <1>t, <1>n DEF Restore, backupVars, txnVars, InApply, InSetup, Setup, Writing,
     Renaming, Prepared, HalfSealed, Journal
<1>26. CASE EndRecovery
  BY <1>26, <1>i, <1>r, <1>t, <1>n DEF EndRecovery, Retire, WorkEnds, EndTxn, diskVars, backupVars,
     InApply, InSetup, Setup, Writing, Renaming, Prepared, HalfSealed, Journal
<1>27. CASE Reconcile
  BY <1>27, <1>i, <1>r, <1>t, <1>n DEF Reconcile, Retire, diskVars, backupVars, txnVars, jobVars, InApply,
     InSetup, Setup, Writing, Renaming, Prepared, HalfSealed, Journal
<1>28. CASE Forget \/ Cancel \/ Rest \/ UNCHANGED vars
  BY <1>28, <1>i, <1>r, <1>t, <1>n DEF Forget, Retire, diskVars, backupVars, txnVars, jobVars, InApply,
     InSetup, Setup, Writing, Renaming, Prepared, HalfSealed, Journal, Cancel, Rest, vars
<1>30. CASE Crash
  BY <1>30, <1>i, <1>r, <1>t, <1>n DEF Crash, WorkEnds, EndTxn, diskVars, backupVars, InApply, InSetup,
     Setup, Writing, Renaming, Prepared, HalfSealed, Journal
<1>31. CASE Meddle
  BY <1>31, <1>i, <1>r, <1>t, <1>n DEF Meddle, backupVars, txnVars, jobVars, InApply, InSetup, Setup,
     Writing, Renaming, Prepared, HalfSealed, Journal
<1>34. CASE Look
  BY <1>34, <1>i, <1>r, <1>t, <1>n DEF Look, diskVars, backupVars, txnVars, jobVars, InApply, InSetup,
     Setup, Writing, Renaming, Prepared, HalfSealed, Journal
<1> QED
  BY <1>1, <1>2, <1>3, <1>4, <1>5, <1>6, <1>7, <1>8, <1>9, <1>10, <1>11, <1>12, <1>13,
     <1>14, <1>15, <1>16, <1>17, <1>18, <1>19, <1>20, <1>21, <1>22, <1>23, <1>24, <1>25,
     <1>26, <1>27, <1>28, <1>30, <1>31, <1>34 DEF Next, TxnStep, ApplyStep, RecoveryStep

(* The backup of a batch that was written is never lost.                   *)
LEMMA SealedStep == Typed /\ Phases /\ [Next]_vars => Sealed'
<1> SUFFICES ASSUME Typed, Phases, [Next]_vars PROVE Sealed'
  OBVIOUS
<1>t. log \in Journal /\ mem \in Journal /\ Typed
  BY DEF Typed, TypeOK
<1>n. NoJournal.batch = "none" /\ NoJournal.ledger = <<>> /\ NoJournal.posted = {}
  BY DEF NoJournal
<1>i. InApply /\ InSetup /\ Sealed /\ job \in {"apply", "recovery"}
  BY DEF Phases, Typed, TypeOK
<1>r. /\ job = "recovery" /\ pc \in Recovering => mem.batch = log.batch
      /\ pc = "restore" => job = "recovery"
  BY DEF Phases, InRecovery
<1>1. ASSUME NEW C \in plan, BeginComponent(C) PROVE Sealed'
  BY <1>1, <1>i, <1>r, <1>t, <1>n DEF BeginComponent, diskVars, backupVars, txnVars, Sealed, Readable,
     InApply, InSetup, Setup, Writing, Recovering, Renaming, Prepared, HalfSealed, Journal
<1>2. CASE Intend
  BY <1>2, <1>i, <1>r, <1>t, <1>n DEF Intend, diskVars, backupVars, jobVars, Sealed, Readable, InApply,
     InSetup, Setup, Writing, Recovering, Renaming, Prepared, HalfSealed, Journal
<1>3. CASE MoveFile
  BY <1>3, <1>i, <1>r, <1>t, <1>n DEF MoveFile, backupVars, jobVars, Sealed, Readable, InApply, InSetup,
     Setup, Writing, Recovering, Renaming, Prepared, HalfSealed, Journal
<1>4. CASE NoteMove
  BY <1>4, <1>i, <1>r, <1>t, <1>n DEF NoteMove, Persist, diskVars, backupVars, jobVars, Sealed, Readable,
     InApply, InSetup, Setup, Writing, Recovering, Renaming, Prepared, HalfSealed, Journal
<1>5. CASE RollBackMove
  BY <1>5, <1>i, <1>r, <1>t, <1>n DEF RollBackMove, backupVars, jobVars, Sealed, Readable, InApply,
     InSetup, Setup, Writing, Recovering, Renaming, Prepared, HalfSealed, Journal
<1>6. CASE NoteRollback
  BY <1>6, <1>i, <1>r, <1>t, <1>n DEF NoteRollback, Persist, diskVars, backupVars, jobVars, Sealed,
     Readable, InApply, InSetup, Setup, Writing, Recovering, Renaming, Prepared, HalfSealed, Journal
<1>7. CASE NoteAgain
  BY <1>7, <1>i, <1>r, <1>t, <1>n DEF NoteAgain, Persist, diskVars, backupVars, txnVars, jobVars, Sealed,
     Readable, InApply, InSetup, Setup, Writing, Recovering, Renaming, Prepared, HalfSealed, Journal
<1>8. CASE BeginApply
  BY <1>8, <1>i, <1>r, <1>t, <1>n DEF BeginApply, Persist, diskVars, backupVars, txnVars, Sealed,
     Readable, InApply, InSetup, Setup, Writing, Recovering, Renaming, Prepared, HalfSealed, Journal
<1>9. CASE WriteManifest
  BY <1>9, <1>i, <1>r, <1>t, <1>n DEF WriteManifest, BackupFails, diskVars, backupVars, txnVars, jobVars,
     Sealed, Readable, InApply, InSetup, Setup, Writing, Recovering, Renaming, Prepared, HalfSealed,
     Journal
<1>10. CASE WriteBinding
  BY <1>10, <1>i, <1>r, <1>t, <1>n DEF WriteBinding, BackupFails, diskVars, backupVars, txnVars, jobVars,
     Sealed, Readable, InApply, InSetup, Setup, Writing, Recovering, Renaming, Prepared, HalfSealed,
     Journal
<1>11. CASE Abort
  BY <1>11, <1>i, <1>r, <1>t, <1>n DEF Abort, Persist, diskVars, backupVars, txnVars, jobVars, Sealed,
     Readable, InApply, InSetup, Setup, Writing, Recovering, Renaming, Prepared, HalfSealed, Journal
<1>12. CASE StartApplying
  BY <1>12, <1>i, <1>r, <1>t, <1>n DEF StartApplying, Persist, diskVars, backupVars, txnVars, jobVars,
     Sealed, Readable, InApply, InSetup, Setup, Writing, Recovering, Renaming, Prepared, HalfSealed,
     Journal
<1>13. ASSUME NEW f \in File, WriteTags(f) PROVE Sealed'
  BY <1>13, <1>i, <1>r, <1>t, <1>n DEF WriteTags, backupVars, txnVars, Sealed, Readable, InApply, InSetup,
     Setup, Writing, Recovering, Renaming, Prepared, HalfSealed, Journal
<1>14. CASE Note
  BY <1>14, <1>i, <1>r, <1>t, <1>n DEF Note, Persist, diskVars, backupVars, txnVars, Sealed, Readable,
     InApply, InSetup, Setup, Writing, Recovering, Renaming, Prepared, HalfSealed, Journal
<1>15. CASE StopWriting
  BY <1>15, <1>i, <1>r, <1>t, <1>n DEF StopWriting, Persist, diskVars, backupVars, txnVars, Sealed,
     Readable, InApply, InSetup, Setup, Writing, Recovering, Renaming, Prepared, HalfSealed, Journal
<1>16. CASE ApplyComponent
  <2>1. /\ pc = "component" /\ job = "apply" /\ pc' \in {"renames", "closing"} /\ job' = job
        /\ \E s : mem' = [mem EXCEPT !.state = s]
        /\ log' \in {log, mem'} /\ UNCHANGED <<backupVars, plan>>
    BY <1>16, <1>t DEF ApplyComponent, Persist, PartialIn, Typed, TypeOK
  <2> QED
    BY <2>1, <1>i, <1>t DEF backupVars, Sealed, Readable, InApply, InSetup, Setup, Writing, Renaming,
       Prepared, HalfSealed, Journal
<1>17. CASE EndRenames
  BY <1>17, <1>i, <1>r, <1>t, <1>n DEF EndRenames, Persist, diskVars, backupVars, txnVars, Sealed,
     Readable, InApply, InSetup, Setup, Writing, Recovering, Renaming, Prepared, HalfSealed, Journal
<1>18. CASE Close
  BY <1>18, <1>i, <1>r, <1>t, <1>n DEF Close, Persist, diskVars, backupVars, txnVars, jobVars, Sealed,
     Readable, InApply, InSetup, Setup, Writing, Recovering, Renaming, Prepared, HalfSealed, Journal
<1>19. CASE RemoveJournal
  BY <1>19, <1>i, <1>r, <1>t, <1>n DEF RemoveJournal, Retire, diskVars, backupVars, txnVars, jobVars,
     Sealed, Readable, InApply, InSetup, Setup, Writing, Recovering, Renaming, Prepared, HalfSealed,
     Journal
<1>20. CASE FinalizeManifest
  BY <1>20, <1>i, <1>r, <1>t, <1>n DEF FinalizeManifest, WorkEnds, EndTxn, diskVars, txnVars, jobVars,
     Sealed, Readable, InApply, InSetup, Setup, Writing, Recovering, Renaming, Prepared, HalfSealed,
     Journal
<1>21. CASE Seal
  BY <1>21, <1>i, <1>r, <1>t, <1>n DEF Seal, WorkEnds, EndTxn, diskVars, Sealed, Readable, InApply,
     InSetup, Setup, Writing, Recovering, Renaming, Prepared, HalfSealed, Journal
<1>22. CASE BeginRecovery
  BY <1>22, <1>i, <1>r, <1>t, <1>n DEF BeginRecovery, diskVars, backupVars, txnVars, Sealed, Readable,
     InApply, InSetup, Setup, Writing, Recovering, Renaming, Prepared, HalfSealed, Journal
<1>23. CASE RecoveryComponent
  BY <1>23, <1>i, <1>r, <1>t, <1>n DEF RecoveryComponent, EndTxn, diskVars, backupVars, Sealed, Readable,
     InApply, InSetup, Setup, Writing, Recovering, Renaming, Prepared, HalfSealed, Journal
<1>24. CASE BeginRestore
  BY <1>24, <1>i, <1>r, <1>t, <1>n DEF BeginRestore, diskVars, backupVars, txnVars, jobVars, Sealed,
     Readable, InApply, InSetup, Setup, Writing, Recovering, Renaming, Prepared, HalfSealed, Journal
<1>25. ASSUME NEW f \in File, Restore(f) PROVE Sealed'
  BY <1>25, <1>i, <1>r, <1>t, <1>n DEF Restore, backupVars, txnVars, Sealed, Readable, InApply, InSetup,
     Setup, Writing, Recovering, Renaming, Prepared, HalfSealed, Journal
<1>26. CASE EndRecovery
  BY <1>26, <1>i, <1>r, <1>t, <1>n DEF EndRecovery, Retire, WorkEnds, EndTxn, diskVars, backupVars,
     Sealed, Readable, InApply, InSetup, Setup, Writing, Recovering, Renaming, Prepared, HalfSealed,
     Journal
<1>27. CASE Reconcile
  BY <1>27, <1>i, <1>r, <1>t, <1>n DEF Reconcile, Retire, diskVars, backupVars, txnVars, jobVars, Sealed,
     Readable, InApply, InSetup, Setup, Writing, Recovering, Renaming, Prepared, HalfSealed, Journal
<1>28. CASE Forget \/ Cancel \/ Rest \/ UNCHANGED vars
  BY <1>28, <1>i, <1>r, <1>t, <1>n DEF Forget, Retire, diskVars, backupVars, txnVars, jobVars, Sealed,
     Readable, InApply, InSetup, Setup, Writing, Recovering, Renaming, Prepared, HalfSealed, Journal,
     Cancel, Rest, vars
<1>30. CASE Crash
  BY <1>30, <1>i, <1>r, <1>t, <1>n DEF Crash, WorkEnds, EndTxn, diskVars, backupVars, Sealed, Readable,
     InApply, InSetup, Setup, Writing, Recovering, Renaming, Prepared, HalfSealed, Journal
<1>31. CASE Meddle
  BY <1>31, <1>i, <1>r, <1>t, <1>n DEF Meddle, backupVars, txnVars, jobVars, Sealed, Readable, InApply,
     InSetup, Setup, Writing, Recovering, Renaming, Prepared, HalfSealed, Journal
<1>34. CASE Look
  BY <1>34, <1>i, <1>r, <1>t, <1>n DEF Look, diskVars, backupVars, txnVars, jobVars, Sealed, Readable,
     InApply, InSetup, Setup, Writing, Recovering, Renaming, Prepared, HalfSealed, Journal
<1> QED
  BY <1>1, <1>2, <1>3, <1>4, <1>5, <1>6, <1>7, <1>8, <1>9, <1>10, <1>11, <1>12, <1>13,
     <1>14, <1>15, <1>16, <1>17, <1>18, <1>19, <1>20, <1>21, <1>22, <1>23, <1>24, <1>25,
     <1>26, <1>27, <1>28, <1>30, <1>31, <1>34 DEF Next, TxnStep, ApplyStep, RecoveryStep

(* A plan without moves has no component.                                  *)
LEMMA NothingPlanned == Components({}) = {} /\ \A T : Blocked({}, T) = {}
  BY DEF Components, Blocked, Clashing

(* Recovering a batch that touched nothing finds nothing to move, and only *)
(* files with their old tags.                                              *)
LEMMA NothingToRecover ==
    ASSUME Typed, Phases, BeginRecovery, log.batch # "applying"
    PROVE  plan' = {} /\ \A f \in File : outcome'[f] = "success" => tags'[f].what = "old"
<1> DEFINE here == [f \in File |-> Here(f)]
           sure == {f \in File : here[f] \in Path /\ Evidence(log, f, at[here[f]])}
           back == {Move(f, here[f], Home[f]) : f \in {g \in sure : here[g] # Home[g]}}
           bad == Blocked(back, Taken)
<1>0. /\ plan' = Components(back \ bad)
      /\ outcome' = [f \in File |-> IF f \in sure \ OwnersOf(bad) THEN "success" ELSE "failed"]
      /\ UNCHANGED tags
  BY DEF BeginRecovery, diskVars
<1>1. log.batch \in {"backing_up", "failed"} /\ log \in Journal
  BY DEF BeginRecovery, Offered, Typed, TypeOK, Journal
<1>2. /\ \A f \in File : at[Home[f]] = f /\ tags[f].what # "new"
      /\ log.ledger = <<>> /\ log.posted = {}
  BY <1>1 DEF Phases, Unwritten
<1>3. \A f \in File : here[f] = Home[f]
  <2>1. \A f \in File : Home[f] \in Taken
    BY <1>2, PathsAssumption, FilesAssumption DEF Taken
  <2> QED
    BY <2>1, <1>2 DEF Here, Located
<1>4. ASSUME NEW f \in sure PROVE tags[f].what = "old"
  <2>1. f \in File /\ Evidence(log, f, f)
    BY <1>3, <1>2
  <2>2. tags[f].what \in {"old", "theirs"} /\ (tags[f].what = "theirs" => stamp[f] = "edited")
    BY <2>1, <1>2 DEF Typed, TypeOK, Stamped
  <2> QED
    BY <2>1, <2>2, <1>2 DEF Evidence, SameIdentity, HasExpectedFields, HasSavedTags
<1>5. back = {}
  BY <1>3
<1>6. plan' = {}
  BY <1>0, <1>5, NothingPlanned
<1> HIDE DEF sure, bad
<1> QED
  BY <1>0, <1>4, <1>6

(* A recovery keeps to what the journal says of the batch.                 *)
LEMMA InRecoveryStep == Typed /\ Phases /\ [Next]_vars => InRecovery'
<1> SUFFICES ASSUME Typed, Phases, [Next]_vars PROVE InRecovery'
  OBVIOUS
<1>t. log \in Journal /\ mem \in Journal /\ Typed
  BY DEF Typed, TypeOK
<1>n. NoJournal.batch = "none"
  BY DEF NoJournal
<1>i. InRecovery /\ job \in {"apply", "recovery"}
  BY DEF Phases, Typed, TypeOK
<1>s. since \subseteq since' \/ pc' = "idle"
  BY PastSteps
<1>a. pc \in {"new", "backup", "bind", "abort", "start", "tags", "note", "stopped",
              "closing", "remove", "finalize", "seal"} => job = "apply"
  BY DEF Phases, InApply, Setup
<1>q. /\ job = "recovery" /\ log.batch # "applying" => pc \notin Renaming
      /\ job = "recovery" /\ pc \in Recovering /\ log.batch # "applying" => plan = {}
  BY <1>i, <1>s DEF InRecovery, Recovering, Renaming
<1>1. ASSUME NEW C \in plan, BeginComponent(C) PROVE InRecovery'
  <2>1. /\ pc = "renames" /\ pc' \in {"renames", "intent"} /\ plan # {}
        /\ UNCHANGED <<backupVars, job, log>> /\ (job = "recovery" => mem' = mem)
    BY <1>1 DEF BeginComponent, txnVars
  <2> QED
    BY <2>1, <1>i, <1>s, <1>q DEF InRecovery, Readable, Offered, Recovering, Renaming, backupVars
<1>2. CASE Intend
  <2>1. /\ pc \in Renaming /\ pc' \in Renaming /\ UNCHANGED <<backupVars, job, plan, outcome, tags>>
        /\ mem'.batch = mem.batch /\ mem'.state = mem.state /\ log' \in {log, mem'}
    BY <1>2, TxnJournal DEF Intend, Renaming, jobVars, diskVars
  <2> QED
    BY <2>1, <1>i, <1>s, <1>q DEF InRecovery, Readable, Offered, Recovering, Renaming, backupVars
<1>3. CASE MoveFile
  <2>1. /\ pc \in Renaming /\ pc' \in Renaming /\ UNCHANGED <<backupVars, job, plan, outcome, tags>>
        /\ mem'.batch = mem.batch /\ mem'.state = mem.state /\ log' \in {log, mem'}
    BY <1>3, TxnJournal DEF MoveFile, Renaming, jobVars
  <2> QED
    BY <2>1, <1>i, <1>s, <1>q DEF InRecovery, Readable, Offered, Recovering, Renaming, backupVars
<1>4. CASE NoteMove
  BY <1>4, <1>i, <1>s, <1>q, <1>a, <1>t, <1>n DEF NoteMove, Persist, diskVars, backupVars, jobVars,
     InRecovery, Readable, Offered, Recovering, Renaming, Journal
<1>5. CASE RollBackMove
  <2>1. /\ pc \in Renaming /\ pc' \in Renaming /\ UNCHANGED <<backupVars, job, plan, outcome, tags>>
        /\ mem'.batch = mem.batch /\ mem'.state = mem.state /\ log' \in {log, mem'}
    BY <1>5, TxnJournal DEF RollBackMove, Renaming, jobVars
  <2> QED
    BY <2>1, <1>i, <1>s, <1>q DEF InRecovery, Readable, Offered, Recovering, Renaming, backupVars
<1>6. CASE NoteRollback
  BY <1>6, <1>i, <1>s, <1>q, <1>a, <1>t, <1>n DEF NoteRollback, Persist, diskVars, backupVars, jobVars,
     InRecovery, Readable, Offered, Recovering, Renaming, Journal
<1>7. CASE NoteAgain
  BY <1>7, <1>i, <1>s, <1>q, <1>a, <1>t, <1>n DEF NoteAgain, Persist, diskVars, backupVars, txnVars,
     jobVars, InRecovery, Readable, Offered, Recovering, Renaming, Journal
<1>8. CASE BeginApply
  BY <1>8, <1>a DEF BeginApply, Persist, txnVars, InRecovery, Recovering, Renaming
<1>9. CASE WriteManifest
  BY <1>9, <1>a DEF WriteManifest, BackupFails, txnVars, jobVars, InRecovery, Recovering, Renaming
<1>10. CASE WriteBinding
  BY <1>10, <1>a DEF WriteBinding, BackupFails, txnVars, jobVars, InRecovery, Recovering, Renaming
<1>11. CASE Abort
  BY <1>11, <1>a DEF Abort, Persist, txnVars, jobVars, InRecovery, Recovering, Renaming
<1>12. CASE StartApplying
  BY <1>12, <1>a DEF StartApplying, Persist, txnVars, jobVars, InRecovery, Recovering, Renaming
<1>13. ASSUME NEW f \in File, WriteTags(f) PROVE InRecovery'
  BY <1>13, <1>a DEF WriteTags, txnVars, InRecovery, Recovering, Renaming
<1>14. CASE Note
  BY <1>14, <1>a DEF Note, Persist, txnVars, InRecovery, Recovering, Renaming
<1>15. CASE StopWriting
  BY <1>15, <1>a DEF StopWriting, Persist, txnVars, InRecovery, Recovering, Renaming
<1>16. CASE ApplyComponent
  <2>1. job' = "apply" /\ pc' # "restore"
    BY <1>16, <1>t DEF ApplyComponent, Persist, Typed, TypeOK
  <2> QED
    BY <2>1 DEF InRecovery
<1>17. CASE EndRenames
  BY <1>17, <1>a DEF EndRenames, Persist, txnVars, InRecovery, Recovering, Renaming
<1>18. CASE Close
  BY <1>18, <1>a DEF Close, Persist, txnVars, jobVars, InRecovery, Recovering, Renaming
<1>19. CASE RemoveJournal
  BY <1>19, <1>a DEF RemoveJournal, txnVars, jobVars, InRecovery, Recovering, Renaming
<1>20. CASE FinalizeManifest
  BY <1>20, <1>a DEF FinalizeManifest, WorkEnds, txnVars, jobVars, InRecovery, Recovering, Renaming
<1>21. CASE Seal
  BY <1>21, <1>i, <1>s, <1>q, <1>a, <1>t, <1>n DEF Seal, WorkEnds, EndTxn, diskVars, InRecovery, Readable,
     Offered, Recovering, Renaming, Journal
<1>22. CASE BeginRecovery
  <2>1. /\ pc' = "renames" /\ Readable /\ Offered /\ mem' = log
        /\ UNCHANGED <<backupVars, log>>
    BY <1>22 DEF BeginRecovery
  <2>2. log.batch # "applying" =>
          plan' = {} /\ \A f \in File : outcome'[f] = "success" => tags'[f].what = "old"
    BY <1>22, NothingToRecover
  <2> QED
    BY <2>1, <2>2 DEF InRecovery, Readable, Offered, Recovering, Renaming, backupVars
<1>23. CASE RecoveryComponent
  <2>1. /\ pc = "component" /\ pc' = "renames" /\ UNCHANGED <<backupVars, mem, log, job, plan>>
    BY <1>23 DEF RecoveryComponent
  <2> QED
    BY <2>1, <1>i, <1>s, <1>q DEF InRecovery, Readable, Offered, Recovering, Renaming, backupVars
<1>24. CASE BeginRestore
  BY <1>24, <1>i, <1>s, <1>q, <1>a, <1>t, <1>n DEF BeginRestore, diskVars, backupVars, txnVars, jobVars,
     InRecovery, Readable, Offered, Recovering, Renaming, Journal
<1>25. ASSUME NEW f \in File, Restore(f) PROVE InRecovery'
  <2>1. /\ pc = "restore" /\ pc' = pc /\ UNCHANGED <<backupVars, mem, log, job, plan>>
    BY <1>25 DEF Restore
  <2>2. /\ outcome' \in {outcome, [outcome EXCEPT ![f] = "failed"]}
        /\ DOMAIN outcome = File
    BY <1>25 DEF Restore, Typed, TypeOK
  <2>3. log.batch # "applying" => \A g \in File \ since : tags'[g] = tags[g]
    <3> SUFFICES ASSUME log.batch # "applying", NEW g \in File \ since
                 PROVE  tags'[g] = tags[g]
      OBVIOUS
    <3>1. at[Home[f]] = f /\ tags[f].of = f
      BY <2>1, <1>i DEF Phases, Unwritten, InRecovery, Offered, Recovering, Typed, TypeOK, Journal
    <3>2. tags[f] \in [of : File, what : {"old", "new", "theirs"}] /\ DOMAIN tags = File
      BY DEF Typed, TypeOK
    <3>3. tags' = tags \/ tags' = [tags EXCEPT ![f] = [of |-> f, what |-> "old"]]
      BY <1>25, <3>1 DEF Restore, Put
    <3>4. g = f /\ outcome[f] = "success" => HasSavedTags(f, at[Home[f]])
      <4>1. g = f /\ outcome[f] = "success" => tags[f].what = "old"
        BY <2>1, <1>i DEF InRecovery, Recovering
      <4> QED
        BY <3>1, <3>2, <4>1 DEF HasSavedTags
    <3>5. g = f => tags' = tags
      BY <1>25, <3>4 DEF Restore
    <3> QED
      BY <3>2, <3>3, <3>5
  <2>4. \A g \in File : outcome'[g] = "success" => outcome[g] = "success"
    BY <2>2
  <2> QED
    BY <2>1, <2>3, <2>4, <1>i, <1>s DEF InRecovery, Readable, Offered, Recovering, Renaming, backupVars
<1>26. CASE EndRecovery
  BY <1>26, <1>i, <1>s, <1>q, <1>a, <1>t, <1>n DEF EndRecovery, Retire, WorkEnds, EndTxn, diskVars,
     backupVars, InRecovery, Readable, Offered, Recovering, Renaming, Journal
<1>27. CASE Reconcile
  BY <1>27, <1>i, <1>s, <1>q, <1>a, <1>t, <1>n DEF Reconcile, Retire, diskVars, backupVars, txnVars,
     jobVars, InRecovery, Readable, Offered, Recovering, Renaming, Journal
<1>28. CASE Forget \/ Cancel \/ Rest \/ UNCHANGED vars
  BY <1>28, <1>i, <1>s, <1>q, <1>a, <1>t, <1>n DEF Forget, Retire, diskVars, backupVars, txnVars, jobVars,
     InRecovery, Readable, Offered, Recovering, Renaming, Journal, Cancel, Rest, vars
<1>30. CASE Crash
  BY <1>30, <1>i, <1>s, <1>q, <1>a, <1>t, <1>n DEF Crash, WorkEnds, EndTxn, diskVars, backupVars,
     InRecovery, Readable, Offered, Recovering, Renaming, Journal
<1>31. CASE Meddle
  <2>1. /\ UNCHANGED <<backupVars, mem, log, job, plan, pc, outcome>>
        /\ \/ tags' = tags
           \/ pc = "idle"
           \/ \E f \in File : Edit(f) /\ since' = since \cup {f}
    BY <1>31 DEF Meddle, jobVars, txnVars
  <2>2. ASSUME NEW f \in File, Edit(f) PROVE \A g \in File \ {f} : tags'[g] = tags[g]
    BY <2>2, <1>t DEF Edit, Put, Typed, TypeOK
  <2> QED
    BY <2>1, <2>2, <1>i, <1>s DEF InRecovery, Readable, Offered, Recovering, Renaming, backupVars
<1>34. CASE Look
  BY <1>34, <1>i, <1>s, <1>q, <1>a, <1>t, <1>n DEF Look, diskVars, backupVars, txnVars, jobVars,
     InRecovery, Readable, Offered, Recovering, Renaming, Journal
<1> QED
  BY <1>1, <1>2, <1>3, <1>4, <1>5, <1>6, <1>7, <1>8, <1>9, <1>10, <1>11, <1>12, <1>13,
     <1>14, <1>15, <1>16, <1>17, <1>18, <1>19, <1>20, <1>21, <1>22, <1>23, <1>24, <1>25,
     <1>26, <1>27, <1>28, <1>30, <1>31, <1>34 DEF Next, TxnStep, ApplyStep, RecoveryStep

(* So every step keeps the phases. *)
LEMMA PhasesStep == Typed /\ Phases /\ [Next]_vars => Phases'
  BY UnwrittenStep, InSetupStep, InApplyStep, InRecoveryStep, SealedStep DEF Phases

(* And the batch begins in the first one. *)
LEMMA InitPhases == Init => Phases
<1> SUFFICES ASSUME Init PROVE Phases
  OBVIOUS
<1>1. /\ pc = "new" /\ job = "apply" /\ log = NoJournal
      /\ manifest = "none" /\ binding = "none"
      /\ log.batch = "none" /\ log.ledger = <<>> /\ log.posted = {}
  BY DEF Init, NoWork, NoJournal
<1>2. \A f \in File : at[Home[f]] = f
  BY PathsAssumption DEF Init
<1>3. \A f \in File : tags[f].of = f /\ tags[f].what = "old"
  BY DEF Init
<1> QED
  BY <1>1, <1>2, <1>3 DEF Phases, Unwritten, InSetup, InApply, InRecovery, Sealed, Setup, Writing,
     Recovering, Renaming

(* The worker writes tags with the journal's word on disk for it, but to a *)
(* file of an untouched batch that was edited under a recovery of it.      *)
LEMMA WritesAreNoted ==
    ASSUME Typed, Phases, [Next]_vars,
           NEW f \in File, tags'[f] # tags[f], stamp'[f] # "edited"
    PROVE  Readable /\ (log.batch = "applying" \/ (job = "recovery" /\ f \in since))
<1>t. TypeOK /\ Unwritten /\ InApply /\ InRecovery /\ job \in {"apply", "recovery"}
  BY DEF Typed, Phases, TypeOK
<1>k. /\ pc = "tags" => log.batch = "applying" /\ Readable
      /\ pc = "restore" => /\ Readable /\ log.batch \in {"backing_up", "failed", "applying"}
                           /\ job = "recovery"
  BY <1>t DEF InApply, InRecovery, Writing, Recovering, Renaming, Readable, Prepared, Offered, TypeOK,
     Journal
<1>d. DOMAIN tags = File /\ DOMAIN stamp = File
  BY <1>t DEF TypeOK
<1>1. ASSUME NEW g \in File, WriteTags(g)
      PROVE  Readable /\ (log.batch = "applying" \/ (job = "recovery" /\ f \in since))
  BY <1>1, <1>k DEF WriteTags
<1>2. ASSUME NEW g \in File, Restore(g)
      PROVE  Readable /\ (log.batch = "applying" \/ (job = "recovery" /\ f \in since))
  <2>1. /\ pc = "restore" /\ at[Home[g]] \in File /\ outcome[g] = "success"
        /\ ~HasSavedTags(g, at[Home[g]])
        /\ tags' = [tags EXCEPT ![at[Home[g]]] = [of |-> g, what |-> "old"]]
    BY <1>2 DEF Restore, Put
  <2>2. at[Home[g]] = f
    BY <2>1, <1>d
  <2>3. ASSUME log.batch # "applying" PROVE f \in since
    <3>1. at[Home[g]] = g /\ tags[g].of = g
      BY <2>1, <2>3, <1>t, <1>k DEF Unwritten
    <3>2. tags[g] \in [of : File, what : {"old", "new", "theirs"}]
      BY <1>t DEF TypeOK
    <3>3. tags[g].what # "old"
      BY <2>1, <3>1, <3>2 DEF HasSavedTags
    <3>4. g \in since
      BY <2>1, <2>3, <3>3, <1>t, <1>k DEF InRecovery, Recovering
    <3> QED
      BY <3>1, <3>4, <2>2
  <2> QED
    BY <2>1, <2>3, <1>k
<1>3. CASE Meddle
  <2>1. tags' = tags \/ \E g \in File : Edit(g)
    BY <1>3 DEF Meddle
  <2>2. ASSUME NEW g \in File, Edit(g) PROVE FALSE
    <3>1. /\ stamp' = [stamp EXCEPT ![g] = "edited"]
          /\ \E w : tags' = [tags EXCEPT ![g] = w]
      BY <2>2 DEF Edit, Put
    <3> QED
      BY <3>1, <1>d
  <2> QED
    BY <2>1, <2>2
<1> QED
  BY <1>1, <1>2, <1>3, Writers

(* And moves a file with the journal's word for it.                        *)
LEMMA MovesAreNoted ==
    ASSUME Typed, Phases, [Next]_vars, NEW p \in Path, at[p] \in File, at'[p] # at[p]
    PROVE  log.batch = "applying" /\ Readable
<1>k. pc \in {"move", "rollback"} => log.batch = "applying" /\ Readable
  BY DEF Typed, Phases, InApply, InRecovery, Writing, Recovering, Renaming, Readable, Prepared, TypeOK,
     Journal
<1>1. CASE MoveFile \/ RollBackMove
  BY <1>1, <1>k DEF MoveFile, RollBackMove
<1>2. CASE Meddle
  <2>1. \E q \in Path \ Taken : at' = [at EXCEPT ![q] = Stranger]
    BY <1>2 DEF Meddle
  <2> QED
    BY <2>1, FilesAssumption DEF Taken
<1> QED
  BY <1>1, <1>2, Writers

(* Media files change only under a journal that says so on disk, with the  *)
(* backup complete and readable: whatever write fails, wherever the worker *)
(* crashes and whatever others do. A file edited while an untouched batch  *)
(* is recovered is the one exception.                                      *)
THEOREM WritesUnderJournal == Spec => WrittenUnderJournal
<1>1. Init => Typed /\ Phases
  BY InitTyped, InitPhases
<1>2. Typed /\ Phases /\ [Next]_vars => (Typed /\ Phases)'
  BY TypedStep, PhasesStep
<1> DEFINE A == /\ \A f \in File : tags'[f] # tags[f] /\ stamp'[f] # "edited" =>
                       Readable /\ (log.batch = "applying" \/ (job = "recovery" /\ f \in since))
                /\ (\E p \in Path : at[p] \in File /\ at'[p] # at[p]) =>
                       Readable /\ log.batch = "applying"
<1>3. Typed /\ Phases /\ [Next]_vars => [A]_vars
  BY WritesAreNoted, MovesAreNoted
<1> QED
  BY <1>1, <1>2, <1>3, PTL DEF Spec, WrittenUnderJournal

(* As long as the batch is open, what may have to be restored has its      *)
(* backup.                                                                 *)
THEOREM BackupKept == Spec => []BackupStands
<1>1. Typed /\ Phases => BackupStands
  <2> SUFFICES ASSUME Typed, Phases, Offered, NEW f \in File, ~AtHome(f)
               PROVE  Readable \/ HalfSealed
    BY DEF BackupStands, HalfSealed
  <2>1. log.batch \in {"backing_up", "failed", "applying"}
    BY DEF Offered, Typed, TypeOK, Journal
  <2>2. ASSUME log.batch \in {"backing_up", "failed"} PROVE AtHome(f)
    <3>1. at[Home[f]] = f /\ tags[f].what # "new"
      BY <2>2 DEF Phases, Unwritten
    <3>2. tags[f].what \in {"old", "new", "theirs"} /\ (tags[f].what = "theirs" => stamp[f] = "edited")
      BY DEF Typed, TypeOK, Stamped
    <3> QED
      BY <3>1, <3>2 DEF AtHome
  <2> QED
    BY <2>1, <2>2 DEF Phases, Sealed
<1>2. Init => Typed /\ Phases
  BY InitTyped, InitPhases
<1>3. Typed /\ Phases /\ [Next]_vars => (Typed /\ Phases)'
  BY TypedStep, PhasesStep
<1> QED
  BY <1>1, <1>2, <1>3, PTL DEF Spec

(* Every move is in a component: the moves that are in each closed part    *)
(* with it.                                                                *)
LEMMA ComponentCovers ==
    ASSUME NEW M, NEW m \in M
    PROVE  \E C \in Components(M) : m \in C
<1> DEFINE C == {x \in M : \A D \in SUBSET M : m \in D /\ ClosedIn(D, M) => x \in D}
<1>1. m \in C /\ C \in SUBSET M
  OBVIOUS
<1>2. ClosedIn(C, M)
  BY DEF ClosedIn
<1>3. ASSUME NEW D \in SUBSET M, D # {}, ClosedIn(D, M), D \subseteq C PROVE D = C
  <2>1. CASE m \in D
    BY <2>1, <1>3
  <2>2. CASE m \notin D
    <3>1. ClosedIn(C \ D, M)
      <4> SUFFICES ASSUME NEW x \in C \ D, NEW n \in M, Linked(x, n) PROVE n \in C \ D
        BY DEF ClosedIn
      <4>1. Linked(n, x) /\ x \in M
        BY DEF Linked
      <4>2. n \in C
        BY <1>2 DEF ClosedIn
      <4>3. n \notin D
        BY <4>1, <1>3 DEF ClosedIn
      <4> QED
        BY <4>2, <4>3
    <3>2. C \subseteq C \ D
      BY <3>1, <2>2, <1>1
    <3> QED
      BY <3>2, <1>3
  <2> QED
    BY <2>1, <2>2
<1> HIDE DEF C
<1>4. C \in Components(M)
  BY <1>1, <1>2, <1>3 DEF Components
<1> QED
  BY <1>1, <1>4

(* A file that is to be renamed stays in sight.                            *)
LEMMA CoveredStep == Typed /\ Phases /\ Covered /\ [Next]_vars => Covered'
<1> SUFFICES ASSUME Typed, Phases, Covered, [Next]_vars PROVE Covered'
  OBVIOUS
<1>t. mem \in Journal /\ TypeOK /\ Quiet
  BY DEF Typed, TypeOK
<1>i. Covered /\ job \in {"apply", "recovery"}
  BY DEF Typed, TypeOK
<1>1. ASSUME NEW C \in plan, BeginComponent(C) PROVE Covered'
  <2> SUFFICES ASSUME job' = "apply", pc' \in {"renames"} \cup Renaming,
                      NEW f \in OwnersOf(ApplyMoves), outcome'[f] = "success"
               PROVE  mem'.state[f] = "complete" \/ f \in members' \/ Planned(f)'
    BY <1>1 DEF BeginComponent, Covered, txnVars
  <2>1. f \in File /\ job = "apply" /\ pc = "renames" /\ members = {} /\ plan' = plan \ {C}
    BY <1>1, <1>t DEF BeginComponent, Quiet, Renaming, OwnersOf, ApplyMoves, Move
  <2>2. CASE mem' = mem /\ outcome' = outcome /\ members' = OwnersOf(C)
    BY <2>1, <2>2, <1>i DEF Covered, Planned
  <2>3. CASE mem' = PartialIn(OwnersOf(C)) /\ outcome' = PartsOf(OwnersOf(C)) /\ members' = members
    <3>1. outcome[f] = "success" /\ f \notin OwnersOf(C)
      BY <2>1, <2>3 DEF PartsOf
    <3>2. mem'.state[f] = mem.state[f]
      BY <2>1, <2>3, <3>1, <1>t DEF PartialIn, Journal
    <3>3. mem.state[f] = "complete" \/ \E D \in plan : f \in OwnersOf(D)
      BY <2>1, <3>1, <1>i DEF Covered, Planned
    <3> QED
      BY <2>1, <3>1, <3>2, <3>3 DEF Planned
  <2> QED
    BY <1>1, <2>2, <2>3 DEF BeginComponent, txnVars
<1>2. CASE Intend
  <2>1. /\ pc \in Renaming /\ pc' \in Renaming /\ UNCHANGED <<job, left, plan, outcome, members>>
        /\ mem'.state = mem.state
    BY <1>2, TxnJournal DEF Intend, Renaming, jobVars
  <2> QED
    BY <2>1, <1>i DEF Covered, Planned, Renaming
<1>3. CASE MoveFile
  <2>1. /\ pc \in Renaming /\ pc' \in Renaming /\ UNCHANGED <<job, left, plan, outcome, members>>
        /\ mem'.state = mem.state
    BY <1>3, TxnJournal DEF MoveFile, Renaming, jobVars
  <2> QED
    BY <2>1, <1>i DEF Covered, Planned, Renaming
<1>4. CASE NoteMove
  BY <1>4, <1>i, <1>t DEF NoteMove, Persist, diskVars, backupVars, jobVars, Covered, Planned, Renaming
<1>5. CASE RollBackMove
  <2>1. /\ pc \in Renaming /\ pc' \in Renaming /\ UNCHANGED <<job, left, plan, outcome, members>>
        /\ mem'.state = mem.state
    BY <1>5, TxnJournal DEF RollBackMove, Renaming, jobVars
  <2> QED
    BY <2>1, <1>i DEF Covered, Planned, Renaming
<1>6. CASE NoteRollback
  BY <1>6, <1>i, <1>t DEF NoteRollback, Persist, diskVars, backupVars, jobVars, Covered, Planned, Renaming
<1>7. CASE NoteAgain
  BY <1>7, <1>i, <1>t DEF NoteAgain, Persist, diskVars, backupVars, txnVars, jobVars, Covered, Planned,
     Renaming
<1>8. CASE BeginApply
  BY <1>8, <1>i, <1>t DEF BeginApply, Persist, diskVars, backupVars, txnVars, Covered, Planned, Renaming
<1>9. CASE WriteManifest
  BY <1>9, <1>i, <1>t DEF WriteManifest, BackupFails, diskVars, backupVars, txnVars, jobVars, Covered,
     Planned, Renaming
<1>10. CASE WriteBinding
  BY <1>10, <1>i, <1>t DEF WriteBinding, BackupFails, diskVars, backupVars, txnVars, jobVars, Covered,
     Planned, Renaming
<1>11. CASE Abort
  BY <1>11, <1>i, <1>t DEF Abort, Persist, diskVars, backupVars, txnVars, jobVars, Covered, Planned,
     Renaming
<1>12. CASE StartApplying
  BY <1>12, <1>i, <1>t DEF StartApplying, Persist, diskVars, backupVars, txnVars, jobVars, Covered,
     Planned, Renaming
<1>13. ASSUME NEW f \in File, WriteTags(f) PROVE Covered'
  BY <1>13, <1>i, <1>t DEF WriteTags, backupVars, txnVars, Covered, Planned, Renaming
<1>14. CASE Note
  <2>1. /\ plan' = plan /\ plan = Components(ApplyMoves)
        /\ pc' \in {"renames", "tags", "stopped"}
    BY <1>14, <1>i DEF Note, Persist, Covered
  <2>2. \A f \in OwnersOf(ApplyMoves) : Planned(f)'
    BY <2>1, ComponentCovers DEF Planned, OwnersOf
  <2> QED
    BY <2>1, <2>2 DEF Covered, Renaming
<1>15. CASE StopWriting
  BY <1>15, <1>i, <1>t DEF StopWriting, Persist, diskVars, backupVars, txnVars, Covered, Planned, Renaming
<1>16. CASE ApplyComponent
  <2> SUFFICES ASSUME pc' = "renames", NEW f \in OwnersOf(ApplyMoves), outcome'[f] = "success"
               PROVE  mem'.state[f] = "complete" \/ f \in members' \/ Planned(f)'
    <3>1. pc' \in {"renames", "closing"}
      BY <1>16, <1>t DEF ApplyComponent, Persist, TypeOK
    <3> QED
      BY <3>1 DEF Covered, Renaming
  <2>1. f \in File /\ job = "apply" /\ pc = "component" /\ plan' = plan
    BY <1>16 DEF ApplyComponent, OwnersOf, ApplyMoves, Move
  <2>2. CASE status = "ok"
    <3>1. /\ mem' = [mem EXCEPT !.state = [g \in File |-> IF g \in members THEN "complete" ELSE @[g]]]
          /\ outcome' = outcome
      BY <1>16, <2>2 DEF ApplyComponent, Persist
    <3>2. mem'.state[f] = IF f \in members THEN "complete" ELSE mem.state[f]
      BY <3>1, <2>1, <1>t DEF Journal
    <3> QED
      BY <3>1, <3>2, <2>1, <1>i DEF Covered, Planned, Renaming
  <2>3. CASE status = "rolled_back"
    <3>1. mem' = PartialIn(members) /\ outcome' = PartsOf(members)
      BY <1>16, <2>3 DEF ApplyComponent
    <3>2. outcome[f] = "success" /\ f \notin members
      BY <3>1, <2>1 DEF PartsOf
    <3>3. mem'.state[f] = mem.state[f]
      BY <3>1, <3>2, <2>1, <1>t DEF PartialIn, Journal
    <3> QED
      BY <3>2, <3>3, <2>1, <1>i DEF Covered, Planned, Renaming
  <2>4. CASE status = "unresolved"
    <3>1. /\ outcome' = [g \in File |-> IF g \in members THEN "partial" ELSE outcome[g]]
          /\ mem' = [mem EXCEPT !.state = [g \in File |->
                              IF g \in members THEN "unresolved" ELSE @[g]]]
      BY <1>16, <2>4 DEF ApplyComponent
    <3>2. outcome[f] = "success" /\ f \notin members
      BY <3>1, <2>1
    <3>3. mem'.state[f] = mem.state[f]
      BY <3>1, <3>2, <2>1, <1>t DEF Journal
    <3> QED
      BY <3>2, <3>3, <2>1, <1>i DEF Covered, Planned, Renaming
  <2> QED
    BY <2>2, <2>3, <2>4, <1>t DEF TypeOK
<1>17. CASE EndRenames
  BY <1>17, <1>i, <1>t DEF EndRenames, Persist, diskVars, backupVars, txnVars, Covered, Planned, Renaming
<1>18. CASE Close
  BY <1>18, <1>i, <1>t DEF Close, Persist, diskVars, backupVars, txnVars, jobVars, Covered, Planned,
     Renaming
<1>19. CASE RemoveJournal
  BY <1>19, <1>i, <1>t DEF RemoveJournal, Retire, diskVars, backupVars, txnVars, jobVars, Covered,
     Planned, Renaming
<1>20. CASE FinalizeManifest
  BY <1>20, <1>i, <1>t DEF FinalizeManifest, WorkEnds, EndTxn, diskVars, txnVars, jobVars, Covered,
     Planned, Renaming
<1>21. CASE Seal
  BY <1>21, <1>i, <1>t DEF Seal, WorkEnds, EndTxn, diskVars, Covered, Planned, Renaming
<1>22. CASE BeginRecovery
  BY <1>22 DEF BeginRecovery, Covered
<1>23. CASE RecoveryComponent
  BY <1>23, <1>i, <1>t DEF RecoveryComponent, EndTxn, diskVars, backupVars, Covered, Planned, Renaming
<1>24. CASE BeginRestore
  BY <1>24, <1>i, <1>t DEF BeginRestore, diskVars, backupVars, txnVars, jobVars, Covered, Planned,
     Renaming
<1>25. ASSUME NEW f \in File, Restore(f) PROVE Covered'
  BY <1>25, <1>i, <1>t DEF Restore, backupVars, txnVars, Covered, Planned, Renaming
<1>26. CASE EndRecovery
  BY <1>26, <1>i, <1>t DEF EndRecovery, Retire, WorkEnds, EndTxn, diskVars, backupVars, Covered, Planned,
     Renaming
<1>27. CASE Reconcile
  BY <1>27, <1>i, <1>t DEF Reconcile, Retire, diskVars, backupVars, txnVars, jobVars, Covered, Planned,
     Renaming
<1>28. CASE Forget \/ Cancel \/ Rest \/ UNCHANGED vars
  BY <1>28, <1>i, <1>t DEF Forget, Retire, diskVars, backupVars, txnVars, jobVars, Covered, Planned,
     Renaming, Cancel, Rest, vars
<1>30. CASE Crash
  BY <1>30, <1>i, <1>t DEF Crash, WorkEnds, EndTxn, diskVars, backupVars, Covered, Planned, Renaming
<1>31. CASE Meddle
  BY <1>31, <1>i, <1>t DEF Meddle, backupVars, txnVars, jobVars, Covered, Planned, Renaming
<1>34. CASE Look
  BY <1>34, <1>i, <1>t DEF Look, diskVars, backupVars, txnVars, jobVars, Covered, Planned, Renaming
<1> QED
  BY <1>1, <1>2, <1>3, <1>4, <1>5, <1>6, <1>7, <1>8, <1>9, <1>10, <1>11, <1>12, <1>13,
     <1>14, <1>15, <1>16, <1>17, <1>18, <1>19, <1>20, <1>21, <1>22, <1>23, <1>24, <1>25,
     <1>26, <1>27, <1>28, <1>30, <1>31, <1>34 DEF Next, TxnStep, ApplyStep, RecoveryStep

(* The worker ends clean only when the journal says so of every file.      *)
LEMMA ClosingStep == Typed /\ Phases /\ Covered /\ Closing /\ [Next]_vars => Closing'
<1> SUFFICES ASSUME Typed, Phases, Covered, Closing, [Next]_vars PROVE Closing'
  OBVIOUS
<1>t. mem \in Journal /\ log \in Journal /\ TypeOK
  BY DEF Typed, TypeOK
<1>b. broken \in BOOLEAN /\ cancel \in BOOLEAN
  BY DEF Typed, TypeOK
<1>n. NoJournal.batch = "none"
  BY DEF NoJournal
<1>i. Closing
  OBVIOUS
<1>p. /\ manifest = "completed" =>
            /\ pc \notin Setup /\ pc \notin {"remove", "finalize"}
            /\ pc \in Writing => job = "recovery"
      /\ job = "recovery" /\ pc \in Recovering => mem.batch = log.batch /\ mem.state = log.state
      /\ pc \in {"new", "backup", "bind", "abort", "start", "tags", "note", "stopped", "closing",
                 "remove", "finalize", "seal"} => job = "apply"
      /\ pc = "restore" => job = "recovery"
      /\ job \in {"apply", "recovery"}
  BY <1>t DEF Phases, InSetup, InApply, InRecovery, Setup, Writing, Prepared, TypeOK
<1>c. ASSUME manifest = "completed" => manifest' = manifest,
             UNCHANGED manifest,
             manifest = "completed" => log' = log \/ Closed',
             pc' \in {"tags", "stopped", "closing", "remove", "finalize"} => FALSE
      PROVE  Closing'
  BY <1>c, <1>i DEF Closing, Closed, Offered
<1>1. ASSUME NEW C \in plan, BeginComponent(C) PROVE Closing'
  <2>1. /\ UNCHANGED manifest /\ pc' \notin {"tags", "stopped", "closing", "remove", "finalize"}
        /\ log' = log
    BY <1>1 DEF BeginComponent, backupVars, txnVars
  <2> QED
    BY <2>1, <1>c
<1>2. CASE Intend
  <2>1. /\ UNCHANGED <<manifest, job>> /\ pc \in Renaming /\ pc' \in Renaming
        /\ mem'.batch = mem.batch /\ mem'.state = mem.state /\ log' \in {log, mem'}
    BY <1>2, TxnJournal DEF Intend, backupVars, Renaming, jobVars
  <2>2. manifest = "completed" => Closed'
    BY <2>1, <1>p, <1>i DEF Closing, Closed, Offered, Writing, Recovering
  <2> QED
    BY <2>1, <2>2 DEF Closing, Renaming
<1>3. CASE MoveFile
  <2>1. /\ UNCHANGED manifest /\ pc' \notin {"tags", "stopped", "closing", "remove", "finalize"}
        /\ log' = log
    BY <1>3 DEF MoveFile, backupVars
  <2> QED
    BY <2>1, <1>c
<1>4. CASE NoteMove
  <2>1. /\ UNCHANGED <<manifest, job>> /\ pc \in Renaming /\ pc' \in Renaming
        /\ mem'.batch = mem.batch /\ mem'.state = mem.state /\ log' \in {log, mem'}
    BY <1>4, TxnJournal DEF NoteMove, backupVars, Persist, Renaming, jobVars
  <2>2. manifest = "completed" => Closed'
    BY <2>1, <1>p, <1>i DEF Closing, Closed, Offered, Writing, Recovering
  <2> QED
    BY <2>1, <2>2 DEF Closing, Renaming
<1>5. CASE RollBackMove
  <2>1. /\ UNCHANGED manifest /\ pc' \notin {"tags", "stopped", "closing", "remove", "finalize"}
        /\ log' = log
    BY <1>5 DEF RollBackMove, backupVars
  <2> QED
    BY <2>1, <1>c
<1>6. CASE NoteRollback
  <2>1. /\ UNCHANGED <<manifest, job>> /\ pc \in Renaming /\ pc' \in Renaming
        /\ mem'.batch = mem.batch /\ mem'.state = mem.state /\ log' \in {log, mem'}
    BY <1>6, TxnJournal DEF NoteRollback, backupVars, Persist, Renaming, jobVars
  <2>2. manifest = "completed" => Closed'
    BY <2>1, <1>p, <1>i DEF Closing, Closed, Offered, Writing, Recovering
  <2> QED
    BY <2>1, <2>2 DEF Closing, Renaming
<1>7. CASE NoteAgain
  <2>1. /\ UNCHANGED <<manifest, job>> /\ pc \in Renaming /\ pc' \in Renaming
        /\ mem'.batch = mem.batch /\ mem'.state = mem.state /\ log' \in {log, mem'}
    BY <1>7, TxnJournal DEF NoteAgain, backupVars, Persist, Renaming, jobVars
  <2>2. manifest = "completed" => Closed'
    BY <2>1, <1>p, <1>i DEF Closing, Closed, Offered, Writing, Recovering
  <2> QED
    BY <2>1, <2>2 DEF Closing, Renaming
<1>8. CASE BeginApply
  <2>1. /\ pc' \notin {"tags", "stopped", "closing", "remove", "finalize"}
        /\ manifest' # "completed"
    BY <1>8, <1>p DEF BeginApply, Persist, backupVars, Setup
  <2> QED
    BY <2>1 DEF Closing
<1>9. CASE WriteManifest
  <2>1. /\ pc' \notin {"tags", "stopped", "closing", "remove", "finalize"} /\ log' = log
        /\ manifest' # "completed"
    BY <1>9, <1>p DEF WriteManifest, BackupFails, backupVars, Setup
  <2> QED
    BY <2>1 DEF Closing
<1>10. CASE WriteBinding
  <2>1. /\ pc' \notin {"tags", "stopped", "closing", "remove", "finalize"} /\ log' = log
        /\ manifest' # "completed"
    BY <1>10, <1>p DEF WriteBinding, BackupFails, backupVars, Setup
  <2> QED
    BY <2>1 DEF Closing
<1>11. CASE Abort
  <2>1. /\ pc' \notin {"tags", "stopped", "closing", "remove", "finalize"}
        /\ manifest' # "completed"
    BY <1>11, <1>p DEF Abort, Persist, backupVars, Setup
  <2> QED
    BY <2>1 DEF Closing
<1>12. CASE StartApplying
  <2>1. /\ pc' \in {"tags", "idle"} /\ manifest' # "completed" /\ left' = left /\ left = File
    BY <1>12, <1>p DEF StartApplying, Persist, backupVars, Setup, jobVars, Covered
  <2> QED
    BY <2>1 DEF Closing
<1>13. ASSUME NEW f \in File, WriteTags(f) PROVE Closing'
  <2>1. pc' = "note" /\ manifest' # "completed"
    BY <1>13, <1>p DEF WriteTags, backupVars, Writing
  <2> QED
    BY <2>1 DEF Closing
<1>14. CASE Note
  <2>1. /\ pc' \in {"renames", "tags", "stopped"} /\ manifest' # "completed" /\ left' = left
        /\ pc' = "tags" => left # {}
    BY <1>14, <1>p DEF Note, Persist, backupVars, Writing
  <2>2. pc' = "stopped" => broken'
    BY <1>14 DEF Note
  <2> QED
    BY <2>1, <2>2 DEF Closing
<1>15. CASE StopWriting
  <2>1. /\ pc' = "closing" /\ manifest' # "completed"
        /\ outcome' = [f \in File |-> IF f \in left THEN "cancelled" ELSE outcome[f]]
    BY <1>15, <1>p DEF StopWriting, Persist, backupVars, Writing
  <2>2. pc = "stopped" => broken'
    BY <1>15, <1>i, <1>b DEF StopWriting, Closing
  <2>3. pc = "tags" /\ left = {} => File = {}
    BY <1>i DEF Closing
  <2>4. left \subseteq File /\ pc \in {"tags", "stopped"}
    BY <1>15, <1>t DEF StopWriting, TypeOK
  <2>5. Clean' => File = {}
    BY <2>1, <2>2, <2>3, <2>4 DEF Clean
  <2> QED
    BY <2>1, <2>5 DEF Closing, Closed
<1>16. CASE ApplyComponent
  <2>1. pc' \in {"renames", "closing"} /\ manifest' # "completed"
    BY <1>16, <1>p, <1>t DEF ApplyComponent, Persist, backupVars, Writing, Renaming, TypeOK
  <2>2. pc' = "closing" => broken'
    BY <1>16, <1>t DEF ApplyComponent, Persist, TypeOK
  <2> QED
    BY <2>1, <2>2 DEF Closing, Clean
<1>17. CASE EndRenames
  <2> DEFINE s == [f \in File |-> IF outcome[f] = "success" /\ f \notin OwnersOf(ApplyMoves)
                                 THEN "complete" ELSE mem.state[f]]
  <2>1. /\ pc' = "closing" /\ manifest' # "completed" /\ outcome' = outcome
        /\ pc = "renames" /\ job = "apply" /\ plan = {} /\ mem' = [mem EXCEPT !.state = s]
    BY <1>17, <1>p DEF EndRenames, Persist, backupVars, Writing
  <2>2. ~broken' => log' = mem'
    <3>1. Fault => budget' # budget
      <4>1. budget \in Bounds
        BY <1>t DEF TypeOK, Bounds
      <4>2. budget.faults \in Nat
        BY <4>1, BoundsAssumption DEF Bounds
      <4>3. ASSUME Fault PROVE budget'.faults = budget.faults - 1
        BY <4>1, <4>3 DEF Fault, Bounds
      <4> QED
        BY <4>2, <4>3
    <3>2. broken' = (budget' # budget)
      BY <1>17 DEF EndRenames
    <3>3. log' = mem' \/ Fault
      BY <1>17 DEF EndRenames, Persist
    <3> QED
      BY <3>1, <3>2, <3>3
  <2>3. ASSUME Clean' PROVE Closed'
    <3>1. log' = mem' /\ \A f \in File : outcome[f] = "success"
      BY <2>1, <2>2, <2>3 DEF Clean
    <3>2. members = {}
      BY <2>1 DEF Typed, Quiet, Renaming
    <3>3. \A f \in OwnersOf(ApplyMoves) : f \in File => mem.state[f] = "complete"
      BY <2>1, <3>1, <3>2 DEF Covered, Planned
    <3>4. \A f \in File : s[f] = "complete"
      BY <3>1, <3>3
    <3>5. mem'.state = s
      BY <2>1, <1>t DEF Journal
    <3> QED
      BY <3>1, <3>4, <3>5 DEF Closed
  <2> QED
    BY <2>1, <2>3 DEF Closing
<1>18. CASE Close
  <2>1. /\ pc' \in {"remove", "finalize"} /\ manifest' # "completed" /\ pc = "closing"
        /\ UNCHANGED <<outcome, broken>>
    BY <1>18, <1>p DEF Close, Persist, backupVars, jobVars, Writing
  <2>2. Clean' => Clean /\ Closed
    BY <2>1, <1>i DEF Clean, Closing
  <2>3. Clean => log' \in {log, [mem EXCEPT !.batch = "done"]}
    BY <1>18 DEF Close, Persist
  <2>4. log' = [mem EXCEPT !.batch = "done"] => log'.batch = "done"
    BY <1>t DEF Journal
  <2> QED
    BY <2>1, <2>2, <2>3, <2>4 DEF Closing, Closed, Offered
<1>19. CASE RemoveJournal
  <2>1. /\ pc' = "finalize" /\ manifest' # "completed" /\ pc = "remove"
        /\ UNCHANGED <<outcome, broken>> /\ log' \in {log, NoJournal}
    BY <1>19, <1>p DEF RemoveJournal, Retire, backupVars, jobVars
  <2> QED
    BY <2>1, <1>i, <1>n DEF Closing, Clean, Closed, Offered
<1>20. CASE FinalizeManifest
  <2>1. /\ pc' \in {"seal", "idle"} /\ log' = log /\ pc = "finalize"
        /\ manifest' = "completed" => Clean \/ manifest = "completed"
    BY <1>20 DEF FinalizeManifest, WorkEnds
  <2> QED
    BY <2>1, <1>i DEF Closing, Closed, Offered
<1>21. CASE Seal
  <2>1. pc' = "idle" /\ UNCHANGED <<manifest, log>>
    BY <1>21 DEF Seal, WorkEnds
  <2> QED
    BY <2>1, <1>c
<1>22. CASE BeginRecovery
  <2>1. /\ UNCHANGED manifest /\ pc' \notin {"tags", "stopped", "closing", "remove", "finalize"}
        /\ log' = log
    BY <1>22 DEF BeginRecovery, backupVars, txnVars
  <2> QED
    BY <2>1, <1>c
<1>23. CASE RecoveryComponent
  <2>1. /\ UNCHANGED manifest /\ pc' \notin {"tags", "stopped", "closing", "remove", "finalize"}
        /\ log' = log
    BY <1>23 DEF RecoveryComponent, backupVars
  <2> QED
    BY <2>1, <1>c
<1>24. CASE BeginRestore
  <2>1. /\ UNCHANGED manifest /\ pc' \notin {"tags", "stopped", "closing", "remove", "finalize"}
        /\ log' = log
    BY <1>24 DEF BeginRestore, backupVars, txnVars
  <2> QED
    BY <2>1, <1>c
<1>25. ASSUME NEW f \in File, Restore(f) PROVE Closing'
  <2>1. /\ UNCHANGED manifest /\ pc' \notin {"tags", "stopped", "closing", "remove", "finalize"}
        /\ log' = log
    BY <1>25 DEF Restore, backupVars, txnVars
  <2> QED
    BY <2>1, <1>c
<1>26. CASE EndRecovery
  <2>1. pc' = "idle" /\ UNCHANGED manifest /\ log' \in {log, NoJournal}
    BY <1>26 DEF EndRecovery, Retire, WorkEnds, backupVars
  <2> QED
    BY <2>1, <1>c, <1>n DEF Closed, Offered
<1>27. CASE Reconcile
  <2>1. pc' = "idle" /\ UNCHANGED manifest /\ log' \in {log, NoJournal}
    BY <1>27 DEF Reconcile, Retire, backupVars
  <2> QED
    BY <2>1, <1>c, <1>n DEF Closed, Offered
<1>28. CASE Forget
  <2>1. pc' = "idle" /\ UNCHANGED manifest /\ log' \in {log, NoJournal}
    BY <1>28 DEF Forget, Retire, backupVars
  <2> QED
    BY <2>1, <1>c, <1>n DEF Closed, Offered
<1>29. CASE Cancel
  <2>1. UNCHANGED <<manifest, log, pc, left, broken, outcome>>
    BY <1>29 DEF Cancel, backupVars, jobVars, vars
  <2> QED
    BY <2>1, <1>i DEF Closing, Closed, Offered, Clean
<1>30. CASE Crash
  <2>1. pc' = "idle" /\ UNCHANGED <<manifest, log>>
    BY <1>30 DEF Crash, WorkEnds, backupVars
  <2> QED
    BY <2>1, <1>c
<1>31. CASE Meddle
  <2>1. UNCHANGED <<manifest, log, pc, left, broken, outcome>>
    BY <1>31 DEF Meddle, backupVars, jobVars, vars
  <2> QED
    BY <2>1, <1>i DEF Closing, Closed, Offered, Clean
<1>32. CASE Rest
  <2>1. UNCHANGED <<manifest, log, pc, left, broken, outcome>>
    BY <1>32 DEF Rest, backupVars, jobVars, vars
  <2> QED
    BY <2>1, <1>i DEF Closing, Closed, Offered, Clean
<1>33. CASE UNCHANGED vars
  <2>1. UNCHANGED <<manifest, log, pc, left, broken, outcome>>
    BY <1>33 DEF backupVars, jobVars, vars
  <2> QED
    BY <2>1, <1>i DEF Closing, Closed, Offered, Clean
<1>34. CASE Look
  <2>1. UNCHANGED <<manifest, log, pc, left, broken, outcome>>
    BY <1>34 DEF Look, backupVars, jobVars, vars
  <2> QED
    BY <2>1, <1>i DEF Closing, Closed, Offered, Clean
<1> QED
  BY <1>1, <1>2, <1>3, <1>4, <1>5, <1>6, <1>7, <1>8, <1>9, <1>10, <1>11, <1>12, <1>13,
     <1>14, <1>15, <1>16, <1>17, <1>18, <1>19, <1>20, <1>21, <1>22, <1>23, <1>24, <1>25,
     <1>26, <1>27, <1>28, <1>29, <1>30, <1>31, <1>32, <1>33, <1>34
     DEF Next, TxnStep, ApplyStep, RecoveryStep

(* What holds whatever values the files are given.                         *)
Invariant == Typed /\ Phases /\ Covered /\ Closing

(* The whole invariant holds at first, and every step keeps it.            *)
LEMMA Inductive == (Init => Invariant) /\ (Invariant /\ [Next]_vars => Invariant')
<1>1. Init => Covered /\ Closing
  <2> SUFFICES ASSUME Init PROVE Covered /\ Closing
    OBVIOUS
  <2>1. pc = "new" /\ manifest = "none"
    BY DEF Init
  <2> QED
    BY <2>1 DEF Covered, Closing, Renaming
<1> QED
  BY <1>1, InitTyped, InitPhases, TypedStep, PhasesStep, CoveredStep, ClosingStep DEF Invariant

(* A completed manifest, which Undo works from, is the end of the batch:   *)
(* no recovery of it has anything left to do.                              *)
THEOREM CompletedCloses == Spec => []CompletedIsClosed
<1>1. Invariant => CompletedIsClosed
  BY DEF Invariant, Closing, Closed, CompletedIsClosed
<1>2. (Init => Invariant) /\ (Invariant /\ [Next]_vars => Invariant')
  BY Inductive
<1> QED
  BY <1>1, <1>2, PTL DEF Spec

----------------------------------------------------------------------------
(* Where the files are, as long as recovery can tell them apart.           *)

(* Where the worker wants a file; the ledger's entry of a done move and of *)
(* the last noted one.                                                     *)
Goal(f) == IF job = "apply" THEN Target[f] ELSE Home[f]
Ledgered(k) == mem.ledger[moved[k]]
Noted == mem.ledger[Len(mem.ledger)]

(* A file is at one place only, and has its own tags.                      *)
Single ==
    /\ \A x, y \in Path : at[x] = at[y] /\ at[x] \in File => x = y
    /\ \A f \in File : tags[f].of = f

(* A planned move starts where its owner is, and no file is in two.        *)
PlanSound ==
    pc \notin {"new", "idle"} =>
        /\ \A C \in plan : \A m \in C :
                at[m.src] = m.owner /\ m.dst = Goal(m.owner) /\ m.owner \notin members
        /\ \A C, D \in plan : \A m \in C, n \in D : m.owner = n.owner => m = n /\ C = D

(* A move noted last may be a detour to a temporary name.                  *)
Detour == pc = "move" /\ Noted.dst \in Temps
(* A move of the component under way starts where its owner is, or where   *)
(* the detour that was noted last takes it.                                *)
Underway ==
    pc \in {"intent", "move", "moved"} =>
        /\ status = "ok"
        /\ \A m \in moves :
                /\ m.owner \in members /\ m.dst = Goal(m.owner)
                /\ \/ at[m.src] = m.owner
                   \/ Detour /\ Noted.owner = m.owner /\ Noted.dst = m.src
        /\ \A m, n \in moves : m.owner = n.owner => m = n
        /\ \A f \in members :
                \/ \E m \in moves : m.owner = f
                \/ at[Goal(f)] = f
                \/ pc = "move" /\ Noted.owner = f
        /\ pc = "move" =>
                /\ at[Noted.src] = Noted.owner /\ Noted.owner \in members
                /\ \/ Detour /\ \E m \in moves : m.owner = Noted.owner /\ m.src = Noted.dst
                   \/ Noted.dst = Goal(Noted.owner) /\ \A m \in moves : m.owner # Noted.owner

(* What was moved is where the ledger says, or has left a detour.          *)
Ledgers ==
    /\ \A k \in 1 .. Len(moved) :
            /\ Ledgered(k).owner \in members
            /\ Ledgered(k).dst \in Temps => at[Ledgered(k).dst] \in members \cup {Nobody}
            /\ Ledgered(k).dst \notin Temps => at[Ledgered(k).dst] = Ledgered(k).owner
    /\ \A k, l \in 1 .. Len(moved) :
            Ledgered(k).dst \notin Temps /\ Ledgered(l).dst \notin Temps /\ k # l
                => Ledgered(k).owner # Ledgered(l).owner
    /\ pc \in {"intent", "move", "moved"} =>
            \A k \in 1 .. Len(moved) :
                Ledgered(k).dst \notin Temps =>
                    /\ \A m \in moves : m.owner # Ledgered(k).owner
                    /\ pc = "move" => Noted.owner # Ledgered(k).owner

(* A component is rolled back because it failed, and ends well with each of *)
(* its files where it should be.                                           *)
Ending ==
    /\ pc \in {"rollback", "rolled"} => status # "ok"
    /\ pc = "component" /\ status = "ok" => \A f \in members : at[Goal(f)] = f

(* A file recovery counts as good is back, or about to be brought back,    *)
(* and nobody had changed its tags when recovery began.                    *)
Returning ==
    /\ job = "recovery" /\ pc \in Recovering =>
            \A f \in File : outcome[f] = "success" =>
                /\ tags[f].what = "theirs" => f \in since
                /\ at[Home[f]] = f \/ f \in members \/ Planned(f)
    /\ pc = "restore" => plan = {}

(* The steps within a component; those that leave the work in hand alone.  *)
Carrying == Intend \/ MoveFile \/ NoteMove \/ RollBackMove \/ NoteRollback \/ NoteAgain
Aside == UNCHANGED <<pc, mem, txnVars, job, plan, outcome>>

(* The steps from which a component is under way.                          *)
LEMMA RenamingSteps ==
    ASSUME Typed, [Next]_vars, pc' \in Renaming
    PROVE  \/ \E C \in plan : BeginComponent(C) /\ pc' = "intent"
           \/ Carrying
           \/ Aside
<1>t. TypeOK
  BY DEF Typed
<1> DEFINE G == \/ \E C \in plan : BeginComponent(C) /\ pc' = "intent"
                \/ Carrying
                \/ Aside
<1>1. ASSUME NEW C \in plan, BeginComponent(C) PROVE G
  BY <1>1 DEF BeginComponent, Renaming
<1>2. CASE Intend
  BY <1>2 DEF Carrying
<1>3. CASE MoveFile
  BY <1>3 DEF Carrying
<1>4. CASE NoteMove
  BY <1>4 DEF Carrying
<1>5. CASE RollBackMove
  BY <1>5 DEF Carrying
<1>6. CASE NoteRollback
  BY <1>6 DEF Carrying
<1>7. CASE NoteAgain
  BY <1>7 DEF Carrying
<1>8. CASE BeginApply
  BY <1>8 DEF BeginApply, Persist, txnVars, Renaming
<1>9. CASE WriteManifest
  BY <1>9 DEF WriteManifest, BackupFails, txnVars, jobVars, Renaming
<1>10. CASE WriteBinding
  BY <1>10 DEF WriteBinding, BackupFails, txnVars, jobVars, Renaming
<1>11. CASE Abort
  BY <1>11 DEF Abort, Persist, txnVars, jobVars, Renaming
<1>12. CASE StartApplying
  BY <1>12 DEF StartApplying, Persist, txnVars, jobVars, Renaming
<1>13. ASSUME NEW f \in File, WriteTags(f) PROVE G
  BY <1>13 DEF WriteTags, txnVars, Renaming
<1>14. CASE Note
  BY <1>14 DEF Note, Persist, txnVars, Renaming
<1>15. CASE StopWriting
  BY <1>15 DEF StopWriting, Persist, txnVars, Renaming
<1>16. CASE ApplyComponent
  BY <1>16, <1>t DEF ApplyComponent, Persist, Renaming, TypeOK
<1>17. CASE EndRenames
  BY <1>17 DEF EndRenames, Persist, txnVars, Renaming
<1>18. CASE Close
  BY <1>18 DEF Close, Persist, txnVars, jobVars, Renaming
<1>19. CASE RemoveJournal
  BY <1>19 DEF RemoveJournal, Retire, txnVars, jobVars, Renaming
<1>20. CASE FinalizeManifest
  BY <1>20 DEF FinalizeManifest, WorkEnds, txnVars, jobVars, Renaming
<1>21. CASE Seal
  BY <1>21 DEF Seal, WorkEnds, Renaming
<1>22. CASE BeginRecovery
  BY <1>22 DEF BeginRecovery, txnVars, Renaming
<1>23. CASE RecoveryComponent
  BY <1>23 DEF RecoveryComponent, Renaming
<1>24. CASE BeginRestore
  BY <1>24 DEF BeginRestore, txnVars, jobVars, Renaming
<1>25. ASSUME NEW f \in File, Restore(f) PROVE G
  BY <1>25 DEF Restore, txnVars, Renaming
<1>26. CASE EndRecovery
  BY <1>26 DEF EndRecovery, Retire, WorkEnds, Renaming
<1>27. CASE Reconcile
  BY <1>27 DEF Reconcile, Retire, txnVars, jobVars, Renaming
<1>28. CASE Forget \/ Cancel \/ Rest \/ UNCHANGED vars
  BY <1>28 DEF Forget, Retire, txnVars, jobVars, Renaming, Cancel, Aside, diskVars, Rest, vars
<1>30. CASE Crash
  BY <1>30 DEF Crash, WorkEnds, Renaming
<1>31. CASE Meddle
  <2>1. pc # "idle"
    BY <1>31 DEF Meddle, Renaming
  <2> QED
    BY <1>31, <2>1 DEF Meddle, Aside, txnVars, jobVars
<1>34. CASE Look
  BY <1>34 DEF Look, Aside, txnVars, jobVars, diskVars
<1> QED
  BY <1>1, <1>2, <1>3, <1>4, <1>5, <1>6, <1>7, <1>8, <1>9, <1>10, <1>11, <1>12, <1>13,
     <1>14, <1>15, <1>16, <1>17, <1>18, <1>19, <1>20, <1>21, <1>22, <1>23, <1>24, <1>25,
     <1>26, <1>27, <1>28, <1>30, <1>31, <1>34 DEF Next, TxnStep, ApplyStep, RecoveryStep

(* A move that was noted stays in the ledger; only its state changes.      *)
LEMMA LedgerKept ==
    ASSUME Typed, Carrying
    PROVE  /\ Len(mem.ledger) \in Nat /\ Len(mem'.ledger) \in Nat
           /\ Len(mem.ledger) <= Len(mem'.ledger)
           /\ \A i \in 1 .. Len(mem.ledger) :
                /\ mem'.ledger[i].owner = mem.ledger[i].owner
                /\ mem'.ledger[i].src = mem.ledger[i].src
                /\ mem'.ledger[i].dst = mem.ledger[i].dst
           /\ Intend => \E s \in Steps(moves, FreshTemps) :
                LET e == mem'.ledger[Len(mem.ledger) + 1]
                IN  /\ Len(mem'.ledger) = Len(mem.ledger) + 1
                    /\ e.owner = s.step.owner /\ e.src = s.step.src /\ e.dst = s.step.dst
                    /\ pc' = "move" => moves' = s.left
                    /\ pc' \in {"move", "rollback"}
           /\ ~Intend => Len(mem'.ledger) = Len(mem.ledger)
<1>t. mem \in Journal /\ Len(mem.ledger) \in Nat /\ mem.ledger \in Seq(Entry)
  BY DEF Typed, TypeOK, Journal
<1>s. ASSUME NEW j \in Journal, NEW i \in 1 .. Len(j.ledger),
             NEW s \in {"intent", "completed", "rolled_back", "unresolved"}
      PROVE  /\ Len(InState(j, i, s).ledger) = Len(j.ledger)
             /\ \A k \in 1 .. Len(j.ledger) :
                    /\ InState(j, i, s).ledger[k].owner = j.ledger[k].owner
                    /\ InState(j, i, s).ledger[k].src = j.ledger[k].src
                    /\ InState(j, i, s).ledger[k].dst = j.ledger[k].dst
  <2>1. Len(InState(j, i, s).ledger) = Len(j.ledger)
    BY JournalStep
  <2>2. j.ledger \in Seq(Entry) /\ \A k \in 1 .. Len(j.ledger) : j.ledger[k] \in Entry
    BY DEF Journal
  <2>3. InState(j, i, s).ledger = [j.ledger EXCEPT ![i] = [j.ledger[i] EXCEPT !.state = s]]
    BY DEF InState, Journal
  <2>4. ASSUME NEW r \in Entry
        PROVE  LET x == [r EXCEPT !.state = s]
               IN  x.owner = r.owner /\ x.src = r.src /\ x.dst = r.dst
    BY DEF Entry
  <2>5. ASSUME NEW k \in 1 .. Len(j.ledger)
        PROVE  InState(j, i, s).ledger[k] =
                    IF k = i THEN [j.ledger[k] EXCEPT !.state = s] ELSE j.ledger[k]
    BY <2>2, <2>3
  <2> QED
    BY <2>1, <2>2, <2>4, <2>5
<1>1. CASE Intend
  <2>1. PICK s \in Steps(moves, FreshTemps) :
          LET e == [owner |-> s.step.owner, src |-> s.step.src, dst |-> s.step.dst, state |-> "intent"]
              j == [mem EXCEPT !.ledger = Append(@, e)]
          IN  \/ mem' = j /\ moves' = s.left /\ pc' = "move"
              \/ mem' = InState(j, Len(j.ledger), "rolled_back") /\ pc' = "rollback"
    BY <1>1 DEF Intend
  <2> DEFINE e == [owner |-> s.step.owner, src |-> s.step.src, dst |-> s.step.dst, state |-> "intent"]
             j == [mem EXCEPT !.ledger = Append(@, e)]
             n == Len(mem.ledger) + 1
  <2>2. e \in Entry
    <3>1. moves \in SUBSET [owner : File, src : Path, dst : Path]
      BY DEF Typed, TypeOK
    <3>2. s.step \in [owner : File, src : Path, dst : Path]
      BY <3>1, StepsTyped
    <3> QED
      BY <3>2 DEF Entry
  <2>e. e.owner = s.step.owner /\ e.src = s.step.src /\ e.dst = s.step.dst
    OBVIOUS
  <2>3. j \in Journal
    <3> HIDE DEF e
    <3> QED
      BY <2>2, <1>t, JournalStep
  <2>4. j.ledger = Append(mem.ledger, e)
    BY <1>t DEF Journal
  <2>5. /\ Len(j.ledger) = n /\ n \in 1 .. n /\ j.ledger[n] = e
        /\ \A i \in 1 .. Len(mem.ledger) : j.ledger[i] = mem.ledger[i] /\ i \in 1 .. n
    <3> HIDE DEF j, e
    <3> QED
      BY <2>2, <2>4, <1>t
  <2>6. LET k == InState(j, n, "rolled_back")
        IN  /\ Len(k.ledger) = n
            /\ k.ledger[n].owner = e.owner /\ k.ledger[n].src = e.src /\ k.ledger[n].dst = e.dst
            /\ \A i \in 1 .. Len(mem.ledger) :
                 /\ k.ledger[i].owner = mem.ledger[i].owner
                 /\ k.ledger[i].src = mem.ledger[i].src
                 /\ k.ledger[i].dst = mem.ledger[i].dst
    <3> HIDE DEF j, e, n
    <3> QED
      BY <2>3, <2>5, <1>s
  <2>7. \/ mem' = j /\ moves' = s.left /\ pc' = "move"
        \/ mem' = InState(j, n, "rolled_back") /\ pc' = "rollback"
    BY <2>1, <2>5
  <2> HIDE DEF j, e
  <2> QED
    BY <2>5, <2>6, <2>7, <2>e, <1>t, <1>1
<1>2. CASE MoveFile
  <2>1. Len(mem.ledger) \in 1 .. Len(mem.ledger)
    BY <1>2, <1>t DEF MoveFile, Quiet, Typed
  <2>2. \E s \in {"completed", "rolled_back"} : mem' = InState(mem, Len(mem.ledger), s)
    BY <1>2 DEF MoveFile
  <2>3. ~Intend
    BY <1>2 DEF MoveFile, Intend
  <2> QED
    BY <2>1, <2>2, <2>3, <1>t, <1>s
<1>3. CASE RollBackMove
  <2>1. Last(moved) \in 1 .. Len(mem.ledger)
    BY <1>3, <1>t DEF RollBackMove, Last, Typed, TypeOK
  <2>2. \E s \in {"unresolved", "rolled_back"} : mem' = InState(mem, Last(moved), s)
    BY <1>3 DEF RollBackMove
  <2>3. ~Intend
    BY <1>3 DEF RollBackMove, Intend
  <2> QED
    BY <2>1, <2>2, <2>3, <1>t, <1>s
<1>4. CASE NoteMove \/ NoteRollback \/ NoteAgain
  BY <1>4, <1>t DEF NoteMove, NoteRollback, NoteAgain, Persist, Intend
<1> QED
  BY <1>1, <1>2, <1>3, <1>4 DEF Carrying

(* A rename takes a file of the component to a name that is free, but for  *)
(* what came there after the look.                                         *)
LEMMA Carries ==
    ASSUME Typed, Underway, Ledgers, MoveFile \/ RollBackMove
    PROVE  \/ UNCHANGED at
           \/ \E s, d \in Path :
                /\ at[s] \in members /\ Open(d)
                /\ at' = [at EXCEPT ![d] = at[s], ![s] = Nobody]
                /\ MoveFile => s = Noted.src /\ d = Noted.dst /\ at[s] = Noted.owner
                /\ RollBackMove => s = mem.ledger[Last(moved)].dst
<1>t. TypeOK /\ Quiet /\ Looked /\ mem.ledger \in Seq(Entry)
  BY DEF Typed, TypeOK, Journal
<1>1. CASE MoveFile
  <2>1. mem.ledger # <<>> /\ pc = "move"
    BY <1>1, <1>t DEF MoveFile, Quiet
  <2>2. Noted.src \in Path /\ Noted.dst \in Path
    <3>1. Len(mem.ledger) \in 1 .. Len(mem.ledger)
      BY <2>1, <1>t
    <3>2. mem.ledger[Len(mem.ledger)] \in Entry
      BY <3>1, <1>t
    <3> QED
      BY <3>2 DEF Noted, Entry
  <2>3. at[Noted.src] = Noted.owner /\ Noted.owner \in members
    BY <2>1 DEF Underway
  <2>4. \/ UNCHANGED at
        \/ clear /\ at' = [at EXCEPT ![Noted.dst] = at[Noted.src], ![Noted.src] = Nobody]
    BY <1>1 DEF MoveFile, Noted
  <2>5. ~RollBackMove
    BY <2>1 DEF RollBackMove
  <2>6. clear => Open(Noted.dst)
    BY <2>1, <1>t DEF Looked, Noted
  <2> QED
    BY <2>2, <2>3, <2>4, <2>5, <2>6
<1>2. CASE RollBackMove
  <2> DEFINE e == mem.ledger[Last(moved)]
  <2>1. /\ Len(moved) \in 1 .. Len(moved) /\ Last(moved) = moved[Len(moved)]
        /\ Last(moved) \in 1 .. Len(mem.ledger) /\ e = Ledgered(Len(moved))
    BY <1>2, <1>t DEF RollBackMove, Last, TypeOK, Ledgered
  <2>2. e.src \in Path /\ e.dst \in Path /\ ~MoveFile
    <3>1. e \in Entry
      BY <2>1, <1>t
    <3>2. ~MoveFile
      BY <1>2 DEF RollBackMove, MoveFile
    <3> QED
      BY <3>1, <3>2 DEF Entry
  <2>3. e.dst \in Taken => at[e.dst] \in members
    BY <2>1, <2>2 DEF Ledgers, Taken
  <2>4. \/ UNCHANGED at
        \/ clear /\ at' = [at EXCEPT ![e.src] = at[e.dst], ![e.dst] = Nobody]
    BY <1>2 DEF RollBackMove
  <2>5. clear => Open(e.src) /\ e.dst \in Taken
    BY <1>2, <2>2, <1>t DEF RollBackMove, Looked, Taken
  <2> HIDE DEF e
  <2> QED
    BY <2>2, <2>3, <2>4, <2>5 DEF e
<1> QED
  BY <1>1, <1>2

(* A file stays where it is as long as it is not of the component under    *)
(* way, and so does a file of somebody else that did not come late.        *)
LEMMA Kept ==
    ASSUME Typed, Underway, Ledgers, [Next]_vars
    PROVE  \A x \in Path :
              at[x] \notin members \cup {Nobody} => at'[x] = at[x] \/ (at[x] = Stranger /\ x \in late)
<1>t. at \in [Path -> File \cup {Nobody, Stranger}]
  BY DEF Typed, TypeOK
<1>1. CASE UNCHANGED at
  BY <1>1
<1>2. CASE MoveFile \/ RollBackMove
  BY <1>2, <1>t, Carries DEF Open
<1>3. CASE Meddle
  BY <1>3, <1>t DEF Meddle, Taken
<1> QED
  BY <1>1, <1>2, <1>3, Writers

(* Each file stays at one place.                                           *)
LEMMA SinglePlace ==
    ASSUME Typed, Underway, Ledgers, Single, [Next]_vars
    PROVE  \A x, y \in Path : at'[x] = at'[y] /\ at'[x] \in File => x = y
<1>t. at \in [Path -> File \cup {Nobody, Stranger}] /\ members \subseteq File
  BY DEF Typed, TypeOK
<1>s. \A x, y \in Path : at[x] = at[y] /\ at[x] \in File => x = y
  BY DEF Single
<1>1. CASE UNCHANGED at
  BY <1>1, <1>s
<1>2. ASSUME MoveFile \/ RollBackMove, at' # at
      PROVE  \A x, y \in Path : at'[x] = at'[y] /\ at'[x] \in File => x = y
  <2>1. PICK s, d \in Path : /\ at[s] \in members /\ at[d] \notin File
                             /\ at' = [at EXCEPT ![d] = at[s], ![s] = Nobody]
    BY <1>2, Carries, FilesAssumption DEF Open
  <2> QED
    BY <2>1, <1>t, <1>s, FilesAssumption
<1>3. CASE Meddle
  BY <1>3, <1>t, <1>s, FilesAssumption DEF Meddle, Taken
<1> QED
  BY <1>1, <1>2, <1>3, Writers

(* Two components have no move in common.                                  *)
LEMMA ComponentsDisjoint ==
    ASSUME NEW M, NEW C \in Components(M), NEW D \in Components(M),
           NEW m \in C, m \in D
    PROVE  C = D
<1>1. /\ C \in SUBSET M /\ ClosedIn(C, M) /\ D \in SUBSET M /\ ClosedIn(D, M)
      /\ \A E \in SUBSET M : E # {} /\ ClosedIn(E, M) /\ E \subseteq C => E = C
      /\ \A E \in SUBSET M : E # {} /\ ClosedIn(E, M) /\ E \subseteq D => E = D
  BY DEF Components
<1>2. ClosedIn(C \cap D, M)
  BY <1>1 DEF ClosedIn
<1> QED
  BY <1>1, <1>2

(* A plan made of one move of each file that moves is sound.               *)
LEMMA FreshPlan ==
    ASSUME NEW M, \A m \in M : at[m.src] = m.owner /\ m.dst = Goal(m.owner)',
           \A m, n \in M : m.owner = n.owner => m = n,
           plan' = Components(M), members' = {}, at' = at
    PROVE  PlanSound'
<1>1. ASSUME NEW C \in plan', NEW m \in C
      PROVE  at'[m.src] = m.owner /\ m.dst = Goal(m.owner)' /\ m.owner \notin members'
  BY DEF Components
<1>2. ASSUME NEW C \in plan', NEW D \in plan', NEW m \in C, NEW n \in D, m.owner = n.owner
      PROVE  m = n /\ C = D
  <2>1. m \in M /\ n \in M
    BY DEF Components
  <2>2. m = n
    BY <2>1, <1>2
  <2> QED
    BY <2>2, ComponentsDisjoint
<1> QED
  BY <1>1, <1>2 DEF PlanSound

(* Which steps change the plan.                                            *)
LEMMA PlanSteps ==
    ASSUME Typed, [Next]_vars, pc' \notin {"new", "idle"}
    PROVE  \/ BeginApply \/ BeginRecovery \/ \E C \in plan : BeginComponent(C)
           \/ /\ pc \notin {"new", "idle"} /\ plan' = plan /\ job' = job
              /\ members' = members \/ members' = {}
<1>t. TypeOK
  BY DEF Typed
<1> DEFINE G == \/ BeginApply \/ BeginRecovery \/ \E C \in plan : BeginComponent(C)
                \/ /\ pc \notin {"new", "idle"} /\ plan' = plan /\ job' = job
                   /\ members' = members \/ members' = {}
<1>1. ASSUME NEW C \in plan, BeginComponent(C) PROVE G
  BY <1>1
<1>2. CASE Intend
  BY <1>2 DEF Intend, txnVars, jobVars, vars
<1>3. CASE MoveFile
  BY <1>3 DEF MoveFile, txnVars, jobVars, vars
<1>4. CASE NoteMove
  BY <1>4 DEF NoteMove, Persist, txnVars, jobVars, vars
<1>5. CASE RollBackMove
  BY <1>5 DEF RollBackMove, txnVars, jobVars, vars
<1>6. CASE NoteRollback
  BY <1>6 DEF NoteRollback, Persist, txnVars, jobVars, vars
<1>7. CASE NoteAgain
  BY <1>7 DEF NoteAgain, Persist, txnVars, jobVars, vars
<1>8. CASE BeginApply
  BY <1>8
<1>9. CASE WriteManifest
  BY <1>9 DEF WriteManifest, BackupFails, txnVars, jobVars, vars
<1>10. CASE WriteBinding
  BY <1>10 DEF WriteBinding, BackupFails, txnVars, jobVars, vars
<1>11. CASE Abort
  BY <1>11 DEF Abort, Persist, txnVars, jobVars, vars
<1>12. CASE StartApplying
  BY <1>12 DEF StartApplying, Persist, txnVars, jobVars, vars
<1>13. ASSUME NEW f \in File, WriteTags(f) PROVE G
  BY <1>13 DEF WriteTags, txnVars, jobVars, vars
<1>14. CASE Note
  BY <1>14 DEF Note, Persist, txnVars, jobVars, vars
<1>15. CASE StopWriting
  BY <1>15 DEF StopWriting, Persist, txnVars, jobVars, vars
<1>16. CASE ApplyComponent
  BY <1>16 DEF ApplyComponent, Persist, EndTxn, txnVars, jobVars, vars
<1>17. CASE EndRenames
  BY <1>17 DEF EndRenames, Persist, txnVars, jobVars, vars
<1>18. CASE Close
  BY <1>18 DEF Close, Persist, txnVars, jobVars, vars
<1>19. CASE RemoveJournal
  BY <1>19 DEF RemoveJournal, Retire, txnVars, jobVars, vars
<1>20. CASE FinalizeManifest
  BY <1>20 DEF FinalizeManifest, WorkEnds, EndTxn, txnVars, jobVars, vars
<1>21. CASE Seal
  BY <1>21 DEF Seal, WorkEnds, EndTxn, txnVars, jobVars, vars
<1>22. CASE BeginRecovery
  BY <1>22
<1>23. CASE RecoveryComponent
  BY <1>23 DEF RecoveryComponent, EndTxn, txnVars, jobVars, vars
<1>24. CASE BeginRestore
  BY <1>24 DEF BeginRestore, txnVars, jobVars, vars
<1>25. ASSUME NEW f \in File, Restore(f) PROVE G
  BY <1>25 DEF Restore, txnVars, jobVars, vars
<1>26. CASE EndRecovery
  BY <1>26 DEF EndRecovery, Retire, WorkEnds, EndTxn, txnVars, jobVars, vars
<1>27. CASE Reconcile
  BY <1>27 DEF Reconcile, Retire, txnVars, jobVars, vars
<1>28. CASE Forget \/ Cancel \/ Rest \/ UNCHANGED vars
  BY <1>28 DEF Forget, Retire, txnVars, jobVars, vars, Cancel, Rest
<1>30. CASE Crash
  BY <1>30 DEF Crash, WorkEnds, EndTxn, txnVars, jobVars, vars
<1>31. CASE Meddle
  BY <1>31 DEF Meddle, txnVars, jobVars, vars
<1>34. CASE Look
  BY <1>34 DEF Look, txnVars, jobVars, vars
<1> QED
  BY <1>1, <1>2, <1>3, <1>4, <1>5, <1>6, <1>7, <1>8, <1>9, <1>10, <1>11, <1>12, <1>13,
     <1>14, <1>15, <1>16, <1>17, <1>18, <1>19, <1>20, <1>21, <1>22, <1>23, <1>24, <1>25,
     <1>26, <1>27, <1>28, <1>30, <1>31, <1>34 DEF Next, TxnStep, ApplyStep, RecoveryStep

(* The files of a batch are where they were planned, when it begins.       *)
LEMMA ApplyPlan ==
    ASSUME Typed, Phases, BeginApply
    PROVE  PlanSound'
<1>1. /\ pc = "new" /\ plan' = Components(ApplyMoves) /\ at' = at /\ members' = members /\ job' = job
  BY DEF BeginApply, diskVars, txnVars
<1>2. job = "apply" /\ members = {} /\ \A f \in File : at[Home[f]] = f
  BY <1>1 DEF Phases, InApply, Unwritten, Setup, Typed, Quiet, Renaming
<1>3. \A m \in ApplyMoves : m.owner \in File /\ m = Move(m.owner, Home[m.owner], Target[m.owner])
  BY DEF ApplyMoves, Move
<1>4. \A m \in ApplyMoves : at[m.src] = m.owner /\ m.dst = Goal(m.owner)'
  BY <1>1, <1>2, <1>3 DEF Move, Goal
<1>5. \A m, n \in ApplyMoves : m.owner = n.owner => m = n
  BY <1>3
<1> QED
  BY <1>1, <1>2, <1>4, <1>5, FreshPlan

(* Where recovery takes a file for the one it looks for, it is that one.   *)
Recognised ==
    pc = "idle" /\ Offered => \A f \in File :
        Here(f) \in Path /\ Evidence(log, f, at[Here(f)]) => at[Here(f)] = f

(* A recovery plans with files it has found, each the one it looked for,   *)
(* and counts the others as failed.                                        *)
LEMMA RecoveryPlan ==
    ASSUME Typed, Recognised, BeginRecovery
    PROVE  PlanSound' /\ Returning'
<1> DEFINE here == [f \in File |-> Here(f)]
           sure == {f \in File : here[f] \in Path /\ Evidence(log, f, at[here[f]])}
           back == {Move(f, here[f], Home[f]) : f \in {g \in sure : here[g] # Home[g]}}
           bad == Blocked(back, Taken)
<1>1. /\ plan' = Components(back \ bad) /\ UNCHANGED diskVars /\ members' = members
      /\ outcome' = [f \in File |-> IF f \in sure \ OwnersOf(bad) THEN "success" ELSE "failed"]
      /\ job' = "recovery" /\ pc = "idle" /\ pc' = "renames" /\ Offered
  BY DEF BeginRecovery, txnVars
<1>2. members = {}
  BY <1>1 DEF Typed, Quiet, Renaming
<1>3. ASSUME NEW f \in sure
      PROVE  f \in File /\ at[here[f]] = f /\ tags[f].what # "theirs"
  <2>1. f \in File /\ here[f] = Here(f) /\ Here(f) \in Path /\ Evidence(log, f, at[here[f]])
    OBVIOUS
  <2> DEFINE x == at[here[f]]
  <2>2. x \in File /\ (SameIdentity(log, f, x) \/ HasExpectedFields(f, x) \/ HasSavedTags(f, x))
    BY <2>1 DEF Evidence
  <2>3. x = f
    BY <2>1, <1>1 DEF Recognised
  <2> HIDE DEF x, here
  <2>4. tags[f].what = "theirs" => stamp[f] = "edited"
    BY <2>1 DEF Typed, Stamped
  <2>5. stamp[f] = "edited" => ~SameIdentity(log, f, f)
    BY DEF SameIdentity, Posted
  <2>6. tags[f].what # "theirs"
    BY <2>2, <2>3, <2>4, <2>5 DEF HasExpectedFields, HasSavedTags
  <2> QED
    BY <2>1, <2>3, <2>6 DEF x
<1>4. \A m \in back : m.owner \in sure /\ m = Move(m.owner, here[m.owner], Home[m.owner])
  BY DEF Move
<1>5. /\ \A m \in back : at[m.src] = m.owner /\ m.dst = Goal(m.owner)'
      /\ \A m, n \in back : m.owner = n.owner => m = n
  <2> HIDE DEF back, sure, here
  <2> QED
    BY <1>1, <1>3, <1>4 DEF Move, Goal
<1>6. PlanSound'
  <2> HIDE DEF back, bad
  <2> QED
    BY <1>1, <1>2, <1>5, FreshPlan DEF diskVars
<1>7. ASSUME NEW f \in File, outcome'[f] = "success"
      PROVE  tags'[f].what # "theirs" /\ (at'[Home[f]] = f \/ Planned(f)')
  <2>1. f \in sure /\ f \notin OwnersOf(bad) /\ UNCHANGED <<at, tags>>
    BY <1>1, <1>7 DEF diskVars
  <2>2. CASE here[f] = Home[f]
    BY <2>1, <2>2, <1>3
  <2>3. CASE here[f] # Home[f]
    <3> DEFINE m == Move(f, here[f], Home[f])
    <3>1. m \in back /\ m.owner = f
      BY <2>1, <2>3 DEF Move
    <3>2. m \in back \ bad
      BY <3>1, <2>1 DEF OwnersOf
    <3> HIDE DEF m, back, bad
    <3>3. PICK C \in Components(back \ bad) : m \in C
      BY <3>2, ComponentCovers
    <3>4. Planned(f)'
      BY <3>1, <3>3, <1>1 DEF Planned, OwnersOf
    <3> QED
      BY <3>4, <2>1, <1>3
  <2> QED
    BY <2>2, <2>3
<1>8. Returning'
  BY <1>1, <1>7 DEF Returning
<1> QED
  BY <1>6, <1>8

(* No step leaves a planned move without its file.                         *)
LEMMA PlanSoundStep ==
    ASSUME Typed, Phases, Recognised, PlanSound, Underway, Ledgers, [Next]_vars
    PROVE  PlanSound'
<1>t. TypeOK /\ Quiet
  BY DEF Typed
<1>1. CASE pc' \in {"new", "idle"}
  BY <1>1 DEF PlanSound
<1>2. CASE BeginApply \/ BeginRecovery
  BY <1>2, ApplyPlan, RecoveryPlan
<1>k. ASSUME NEW C \in plan, NEW m \in C, pc \notin {"new", "idle"}
      PROVE  at'[m.src] = m.owner /\ m.dst = Goal(m.owner) /\ m.owner \notin members
  <2>1. at[m.src] = m.owner /\ m.dst = Goal(m.owner) /\ m.owner \notin members
    BY <1>k DEF PlanSound
  <2>2. m.owner \in File /\ m.src \in Path
    BY <1>t DEF TypeOK
  <2> QED
    BY <2>1, <2>2, Kept, FilesAssumption
<1>3. ASSUME NEW C \in plan, BeginComponent(C) PROVE PlanSound'
  <2>1. /\ plan' = plan \ {C} /\ job' = job /\ pc = "renames"
        /\ members' = OwnersOf(C) \/ members' = members
    BY <1>3 DEF BeginComponent, txnVars
  <2>2. ASSUME NEW D \in plan', NEW m \in D PROVE m.owner \notin OwnersOf(C)
    BY <2>1, <2>2 DEF PlanSound, OwnersOf
  <2> QED
    BY <2>1, <2>2, <1>k DEF PlanSound, Goal
<1>4. CASE /\ pc \notin {"new", "idle"} /\ plan' = plan /\ job' = job
           /\ members' = members \/ members' = {}
  BY <1>4, <1>k DEF PlanSound, Goal
<1> QED
  BY <1>1, <1>2, <1>3, <1>4, PlanSteps

(* Beside the renames nothing is moved, and temporary names are left alone. *)
LEMMA AsideKeeps ==
    ASSUME Typed, [Next]_vars, ~MoveFile, ~RollBackMove
    PROVE  \A x \in Path : at[x] # Nobody \/ x \in Temps => at'[x] = at[x]
<1>t. at \in [Path -> File \cup {Nobody, Stranger}]
  BY DEF Typed, TypeOK
<1> QED
  BY Writers, <1>t DEF Meddle, Taken

(* The step to be noted next, and what is then left.                       *)
LEMMA NextStep ==
    ASSUME Typed, Underway, pc = "intent", NEW s \in Steps(moves, FreshTemps)
    PROVE  /\ at[s.step.src] = s.step.owner /\ s.step.owner \in members
           /\ s.step.src \in Path /\ s.step.dst \in Path
           /\ \A n \in s.left :
                /\ n.owner \in members /\ n.dst = Goal(n.owner)
                /\ \/ n \in moves /\ n.owner # s.step.owner
                   \/ s.step.dst \in Temps /\ n.owner = s.step.owner /\ n.src = s.step.dst
           /\ \A n, l \in s.left : n.owner = l.owner => n = l
           /\ \A n \in moves : n.owner # s.step.owner => n \in s.left
           /\ \/ s.step.dst = Goal(s.step.owner) /\ \A n \in s.left : n.owner # s.step.owner
              \/ s.step.dst \in Temps /\ \E n \in s.left : n.owner = s.step.owner /\ n.src = s.step.dst
<1>u. /\ \A m \in moves : m.owner \in members /\ m.dst = Goal(m.owner) /\ at[m.src] = m.owner
      /\ \A m, n \in moves : m.owner = n.owner => m = n
  BY DEF Underway, Detour
<1>t. moves \in SUBSET [owner : File, src : Path, dst : Path]
  BY DEF Typed, TypeOK
<1>f. FreshTemps \subseteq Temps /\ FreshTemps \subseteq Path
  BY FilesAssumption DEF FreshTemps
<1>1. ASSUME NEW m \in moves, s = [step |-> m, left |-> moves \ {m}]
      PROVE  /\ s.step = m /\ s.left = moves \ {m} /\ s.step.src \in Path /\ s.step.dst \in Path
  BY <1>1, <1>t
<1>2. ASSUME NEW m \in moves, NEW t \in FreshTemps,
             s = [step |-> [m EXCEPT !.dst = t],
                  left |-> (moves \ {m}) \cup {[m EXCEPT !.src = t]}]
      PROVE  /\ s.step.owner = m.owner /\ s.step.src = m.src /\ s.step.dst = t
             /\ s.left = (moves \ {m}) \cup {[m EXCEPT !.src = t]}
             /\ [m EXCEPT !.src = t].owner = m.owner /\ [m EXCEPT !.src = t].dst = m.dst
             /\ [m EXCEPT !.src = t].src = t
             /\ s.step.src \in Path /\ s.step.dst \in Path
  <2>1. m \in [owner : File, src : Path, dst : Path]
    BY <1>t
  <2> QED
    BY <1>2, <2>1, <1>f
<1>3. \/ \E m \in moves : s = [step |-> m, left |-> moves \ {m}]
      \/ \E m \in moves, t \in FreshTemps :
            s = [step |-> [m EXCEPT !.dst = t],
                 left |-> (moves \ {m}) \cup {[m EXCEPT !.src = t]}]
  BY DEF Steps, Free
<1>4. CASE \E m \in moves : s = [step |-> m, left |-> moves \ {m}]
  BY <1>4, <1>1, <1>u
<1>5. CASE \E m \in moves, t \in FreshTemps :
            s = [step |-> [m EXCEPT !.dst = t],
                 left |-> (moves \ {m}) \cup {[m EXCEPT !.src = t]}]
  <2>1. PICK m \in moves, t \in FreshTemps :
            s = [step |-> [m EXCEPT !.dst = t],
                 left |-> (moves \ {m}) \cup {[m EXCEPT !.src = t]}]
    BY <1>5
  <2> DEFINE r == [m EXCEPT !.src = t]
  <2>2. /\ s.step.owner = m.owner /\ s.step.src = m.src /\ s.step.dst = t
        /\ s.left = (moves \ {m}) \cup {r}
        /\ r.owner = m.owner /\ r.dst = m.dst /\ r.src = t
        /\ s.step.src \in Path /\ s.step.dst \in Path /\ t \in Temps
    BY <2>1, <1>2, <1>f
  <2> HIDE DEF r
  <2>3. \A n \in s.left : n = r \/ (n \in moves /\ n # m)
    BY <2>2
  <2>4. \A n \in moves : n # m => n.owner # m.owner /\ n \in s.left
    BY <2>2, <1>u
  <2>5. \A n \in s.left :
            /\ n.owner \in members /\ n.dst = Goal(n.owner)
            /\ \/ n \in moves /\ n.owner # s.step.owner
               \/ s.step.dst \in Temps /\ n.owner = s.step.owner /\ n.src = s.step.dst
    BY <2>2, <2>3, <2>4, <1>u
  <2>6. \A n, l \in s.left : n.owner = l.owner => n = l
    BY <2>2, <2>3, <2>4, <1>u
  <2>7. r \in s.left
    BY <2>2
  <2> QED
    BY <2>2, <2>4, <2>5, <2>6, <2>7, <1>u
<1> QED
  BY <1>3, <1>4, <1>5

(* No step leaves a move of the component under way without its file.      *)
LEMMA UnderwayStep ==
    ASSUME Typed, PlanSound, Underway, Ledgers, [Next]_vars
    PROVE  Underway'
<1> SUFFICES ASSUME pc' \in {"intent", "move", "moved"} PROVE Underway'
  BY DEF Underway
<1>t. TypeOK /\ Quiet
  BY DEF Typed
<1>1. ASSUME NEW C \in plan, BeginComponent(C), pc' = "intent" PROVE Underway'
  <2>1. /\ moves' = C /\ members' = OwnersOf(C) /\ status' = "ok" /\ at' = at /\ job' = job
        /\ pc = "renames"
    BY <1>1 DEF BeginComponent, diskVars
  <2>2. /\ \A m \in C : at[m.src] = m.owner /\ m.dst = Goal(m.owner)
        /\ \A m, n \in C : m.owner = n.owner => m = n
    BY <2>1 DEF PlanSound
  <2>3. \A m \in C : m.dst = Goal(m.owner)'
    BY <2>1, <2>2 DEF Goal
  <2> QED
    BY <2>1, <2>2, <2>3, <1>1 DEF Underway, OwnersOf
<1>2. CASE Intend
  <2> DEFINE e == mem'.ledger[Len(mem.ledger) + 1]
  <2>1. PICK s \in Steps(moves, FreshTemps) :
            /\ Len(mem'.ledger) = Len(mem.ledger) + 1
            /\ e.owner = s.step.owner /\ e.src = s.step.src /\ e.dst = s.step.dst
            /\ moves' = s.left /\ pc' = "move"
    BY <1>2, LedgerKept DEF Carrying
  <2>2. /\ pc = "intent" /\ at' = at /\ members' = members /\ job' = job /\ Noted' = e
        /\ status' = status
    BY <1>2, <2>1 DEF Intend, diskVars, jobVars, Noted
  <2> HIDE DEF e
  <2>3. status = "ok" /\ \A n \in moves : at[n.src] = n.owner
    BY <2>2 DEF Underway, Detour
  <2>4. \A f \in members : (\E m \in moves : m.owner = f) \/ at[Goal(f)] = f
    BY <2>2 DEF Underway
  <2>n. /\ at[s.step.src] = s.step.owner /\ s.step.owner \in members
        /\ \A n \in s.left :
                /\ n.owner \in members /\ n.dst = Goal(n.owner)
                /\ \/ n \in moves /\ n.owner # s.step.owner
                   \/ s.step.dst \in Temps /\ n.owner = s.step.owner /\ n.src = s.step.dst
        /\ \A n, l \in s.left : n.owner = l.owner => n = l
        /\ \A n \in moves : n.owner # s.step.owner => n \in s.left
        /\ \/ s.step.dst = Goal(s.step.owner) /\ \A n \in s.left : n.owner # s.step.owner
           \/ s.step.dst \in Temps /\ \E n \in s.left : n.owner = s.step.owner /\ n.src = s.step.dst
    BY <2>2, NextStep
  <2>5. \A f : Goal(f)' = Goal(f)
    BY <2>2 DEF Goal
  <2>6. Detour' <=> s.step.dst \in Temps
    BY <2>1, <2>2 DEF Detour
  <2>7. \A m \in moves' : \/ at'[m.src] = m.owner
                          \/ Detour' /\ Noted'.owner = m.owner /\ Noted'.dst = m.src
    BY <2>1, <2>2, <2>3, <2>n, <2>6
  <2>8. \A f \in members' : \/ \E m \in moves' : m.owner = f
                            \/ at'[Goal(f)'] = f
                            \/ Noted'.owner = f
    BY <2>1, <2>2, <2>4, <2>n, <2>5
  <2>9. \A m \in moves' : m.owner \in members' /\ m.dst = Goal(m.owner)'
    BY <2>1, <2>2, <2>n, <2>5
  <2>10. /\ at'[Noted'.src] = Noted'.owner /\ Noted'.owner \in members'
         /\ \/ Detour' /\ \E m \in moves' : m.owner = Noted'.owner /\ m.src = Noted'.dst
            \/ (Noted.dst = Goal(Noted.owner))' /\ \A m \in moves' : m.owner # Noted'.owner
    BY <2>1, <2>2, <2>n, <2>5, <2>6
  <2>11. \A m, n \in moves' : m.owner = n.owner => m = n
    BY <2>1, <2>n
  <2> QED
    BY <2>1, <2>2, <2>3, <2>7, <2>8, <2>9, <2>10, <2>11 DEF Underway
<1>3. CASE MoveFile
  <2>1. /\ pc = "move" /\ pc' = "moved" /\ clear
        /\ at' = [at EXCEPT ![Noted.dst] = at[Noted.src], ![Noted.src] = Nobody]
        /\ moves' = moves /\ members' = members /\ job' = job /\ status' = status
    BY <1>3 DEF MoveFile, jobVars, Noted
  <2>2. /\ status = "ok"
        /\ at[Noted.src] = Noted.owner /\ at[Noted.dst] \in {Nobody, Stranger}
        /\ Noted.owner \in members
        /\ \/ Noted.dst \in Temps /\ \E m \in moves : m.owner = Noted.owner /\ m.src = Noted.dst
           \/ Noted.dst = Goal(Noted.owner) /\ \A m \in moves : m.owner # Noted.owner
    BY <2>1 DEF Underway, Detour, Typed, Looked, Open, Noted
  <2>3. /\ Noted.src \in Path /\ Noted.dst \in Path /\ Noted.owner \in File
    <3>1. Len(mem.ledger) \in 1 .. Len(mem.ledger) /\ mem.ledger \in Seq(Entry)
      BY <2>1, <1>t DEF Quiet, TypeOK, Journal
    <3>2. mem.ledger[Len(mem.ledger)] \in Entry
      BY <3>1
    <3> QED
      BY <3>2 DEF Noted, Entry
  <2>4. /\ at'[Noted.dst] = Noted.owner
        /\ \A x \in Path : at[x] \in File /\ at[x] # Noted.owner => at'[x] = at[x]
    BY <2>1, <2>2, <2>3, <1>t, FilesAssumption DEF TypeOK
  <2>5. \A f : Goal(f)' = Goal(f)
    BY <2>1 DEF Goal
  <2>6. ASSUME NEW m \in moves PROVE at'[m.src] = m.owner
    <3>1. m.src \in Path /\ m.owner \in File
      BY <1>t DEF TypeOK
    <3>2. CASE m.owner = Noted.owner
      <4>1. m.src = Noted.dst
        BY <3>2, <2>1, <2>2 DEF Underway
      <4> QED
        BY <4>1, <3>2, <2>4
    <3>3. CASE m.owner # Noted.owner
      <4>1. at[m.src] = m.owner
        BY <3>3, <2>1 DEF Underway
      <4> QED
        BY <4>1, <3>1, <3>3, <2>4, FilesAssumption
    <3> QED
      BY <3>2, <3>3
  <2>7. ASSUME NEW f \in members, \A m \in moves : m.owner # f PROVE at'[Goal(f)] = f
    <3>1. at[Goal(f)] = f \/ Noted.owner = f
      BY <2>7, <2>1 DEF Underway
    <3>2. f \in File /\ Goal(f) \in Path
      BY <1>t, PathsAssumption DEF Goal, TypeOK
    <3>3. Noted.owner = f => Noted.dst = Goal(f)
      BY <2>2, <2>7
    <3> QED
      BY <3>1, <3>2, <3>3, <2>4, FilesAssumption
  <2>8. \A m \in moves' : m.owner \in members' /\ m.dst = Goal(m.owner)'
    BY <2>1, <2>5 DEF Underway
  <2>9. \A m, n \in moves' : m.owner = n.owner => m = n
    BY <2>1 DEF Underway
  <2> QED
    BY <2>1, <2>2, <2>5, <2>6, <2>7, <2>8, <2>9 DEF Underway
<1>4. CASE NoteMove
  <2>1. /\ pc = "moved" /\ pc' = "intent" /\ at' = at /\ moves' = moves /\ members' = members
        /\ job' = job /\ status' = status
    BY <1>4 DEF NoteMove, Persist, diskVars, jobVars
  <2> QED
    BY <2>1 DEF Underway, Detour, Goal
<1>5. CASE RollBackMove \/ NoteRollback \/ NoteAgain
  BY <1>5 DEF RollBackMove, NoteRollback, NoteAgain, Persist
<1>6. CASE Aside
  <2>1. /\ pc' = pc /\ mem' = mem /\ moves' = moves /\ members' = members /\ moved' = moved
        /\ status' = status /\ job' = job
    BY <1>6 DEF Aside, txnVars
  <2>2. ~MoveFile /\ ~RollBackMove
    BY <2>1 DEF MoveFile, RollBackMove
  <2>3. \A x \in Path : at[x] # Nobody => at'[x] = at[x]
    BY <2>2, AsideKeeps
  <2>4. /\ \A m \in moves : m.src \in Path /\ m.owner \in File
        /\ members \subseteq File /\ \A f \in File : Goal(f) \in Path
    <3>1. moves \in SUBSET [owner : File, src : Path, dst : Path] /\ members \subseteq File
      BY <1>t DEF TypeOK
    <3>2. \A f \in File : Goal(f) \in Path
      BY PathsAssumption DEF Goal
    <3> QED
      BY <3>1, <3>2
  <2>5. pc = "move" => Noted.src \in Path
    <3> SUFFICES ASSUME pc = "move" PROVE Noted.src \in Path
      OBVIOUS
    <3>1. Len(mem.ledger) \in 1 .. Len(mem.ledger) /\ mem.ledger \in Seq(Entry)
      BY <1>t DEF Quiet, TypeOK, Journal
    <3>2. mem.ledger[Len(mem.ledger)] \in Entry
      BY <3>1
    <3> QED
      BY <3>2 DEF Noted, Entry
  <2>6. /\ Noted' = Noted /\ (Detour' <=> Detour) /\ \A f : Goal(f)' = Goal(f)
    BY <2>1 DEF Noted, Detour, Goal
  <2>7. \A m \in moves' : /\ m.owner \in members' /\ m.dst = Goal(m.owner)'
                          /\ \/ at'[m.src] = m.owner
                             \/ Detour' /\ Noted'.owner = m.owner /\ Noted'.dst = m.src
    BY <2>1, <2>3, <2>4, <2>6, FilesAssumption DEF Underway
  <2>8. \A f \in members' : \/ \E m \in moves' : m.owner = f
                            \/ at'[Goal(f)'] = f
                            \/ pc' = "move" /\ Noted'.owner = f
    BY <2>1, <2>3, <2>4, <2>6, FilesAssumption DEF Underway
  <2>9. pc' = "move" =>
          /\ at'[Noted'.src] = Noted'.owner /\ Noted'.owner \in members'
          /\ \/ Detour' /\ \E m \in moves' : m.owner = Noted'.owner /\ m.src = Noted'.dst
             \/ (Noted.dst = Goal(Noted.owner))' /\ \A m \in moves' : m.owner # Noted'.owner
    BY <2>1, <2>3, <2>4, <2>5, <2>6, FilesAssumption DEF Underway
  <2> QED
    BY <2>1, <2>7, <2>8, <2>9 DEF Underway
<1> QED
  BY <1>1, <1>2, <1>3, <1>4, <1>5, <1>6, RenamingSteps DEF Carrying, Renaming

(* Taking the last element off a sequence leaves the others.               *)
LEMMA FrontOf ==
    ASSUME NEW S, NEW q \in Seq(S), q # <<>>
    PROVE  /\ Len(q) \in Nat /\ Len(q) \in 1 .. Len(q)
           /\ Len(Front(q)) = Len(q) - 1
           /\ \A k \in 1 .. Len(q) - 1 : Front(q)[k] = q[k]
           /\ Last(q) = q[Len(q)]
<1>1. Len(q) \in Nat /\ Len(q) # 0
  OBVIOUS
<1>2. /\ Len(SubSeq(q, 1, Len(q) - 1)) = IF 1 <= Len(q) - 1 THEN Len(q) - 1 - 1 + 1 ELSE 0
      /\ \A k \in 1 .. Len(q) - 1 - 1 + 1 : SubSeq(q, 1, Len(q) - 1)[k] = q[1 + k - 1]
  BY <1>1, SubSeqProperties
<1> QED
  BY <1>1, <1>2 DEF Front, Last

(* What was moved stays where the ledger says.                             *)
LEMMA LedgersStep ==
    ASSUME Typed, Underway, Ledgers, [Next]_vars
    PROVE  Ledgers'
<1>t. TypeOK /\ Quiet /\ mem.ledger \in Seq(Entry) /\ moved \in Seq(1 .. Len(mem.ledger))
  BY DEF Typed, TypeOK, Journal
<1>q. pc' \notin Renaming => moved' = <<>>
  BY QuietStep DEF Quiet
<1>0. ASSUME moved' = <<>> PROVE Ledgers'
  <2>1. 1 .. Len(moved') = {}
    BY <1>0
  <2> QED
    BY <2>1 DEF Ledgers
<1>e. \A k \in 1 .. Len(moved) :
        /\ moved[k] \in 1 .. Len(mem.ledger)
        /\ Ledgered(k).owner \in File /\ Ledgered(k).src \in Path /\ Ledgered(k).dst \in Path
  <2> SUFFICES ASSUME NEW k \in 1 .. Len(moved)
               PROVE  /\ moved[k] \in 1 .. Len(mem.ledger)
                      /\ Ledgered(k).owner \in File /\ Ledgered(k).src \in Path
                      /\ Ledgered(k).dst \in Path
    OBVIOUS
  <2>1. moved[k] \in 1 .. Len(mem.ledger)
    BY <1>t
  <2>2. mem.ledger[moved[k]] \in Entry
    BY <2>1, <1>t
  <2> QED
    BY <2>1, <2>2 DEF Ledgered, Entry
<1>n. Nobody \notin members /\ members \subseteq File
  BY <1>t, FilesAssumption DEF TypeOK
<1>i. /\ \A k \in 1 .. Len(moved) :
            /\ Ledgered(k).owner \in members
            /\ Ledgered(k).dst \in Temps => at[Ledgered(k).dst] \in members \cup {Nobody}
            /\ Ledgered(k).dst \notin Temps => at[Ledgered(k).dst] = Ledgered(k).owner
      /\ \A k, l \in 1 .. Len(moved) :
            Ledgered(k).dst \notin Temps /\ Ledgered(l).dst \notin Temps /\ k # l
                => Ledgered(k).owner # Ledgered(l).owner
  BY DEF Ledgers
(* The same places and the same entries, or fewer.                         *)
<1>k. ASSUME members' = members, moved' = moved,
             \A k \in 1 .. Len(moved) : /\ Ledgered(k)'.owner = Ledgered(k).owner
                                        /\ Ledgered(k)'.dst = Ledgered(k).dst,
             \A x \in Path : at[x] # Nobody \/ x \in Temps => at'[x] = at[x],
             pc' \in {"intent", "move", "moved"} =>
                \A k \in 1 .. Len(moved) :
                    Ledgered(k).dst \notin Temps =>
                        /\ \A m \in moves' : m.owner # Ledgered(k).owner
                        /\ pc' = "move" => Noted'.owner # Ledgered(k).owner
      PROVE  Ledgers'
  <2>1. \A k \in 1 .. Len(moved') :
            /\ Ledgered(k)'.owner \in members'
            /\ Ledgered(k)'.dst \in Temps => at'[Ledgered(k)'.dst] \in members' \cup {Nobody}
            /\ Ledgered(k)'.dst \notin Temps => at'[Ledgered(k)'.dst] = Ledgered(k)'.owner
    BY <1>k, <1>i, <1>e, <1>n
  <2>2. \A k, l \in 1 .. Len(moved') :
            Ledgered(k)'.dst \notin Temps /\ Ledgered(l)'.dst \notin Temps /\ k # l
                => Ledgered(k)'.owner # Ledgered(l)'.owner
    BY <1>k, <1>i
  <2>3. pc' \in {"intent", "move", "moved"} =>
            \A k \in 1 .. Len(moved') :
                Ledgered(k)'.dst \notin Temps =>
                    /\ \A m \in moves' : m.owner # Ledgered(k)'.owner
                    /\ pc' = "move" => Noted'.owner # Ledgered(k)'.owner
    BY <1>k
  <2> QED
    BY <2>1, <2>2, <2>3 DEF Ledgers
<1>1. ASSUME NEW C \in plan, BeginComponent(C), pc' = "intent" PROVE Ledgers'
  BY <1>1, <1>0 DEF BeginComponent
<1>2. CASE Aside
  <2>1. /\ pc' = pc /\ mem' = mem /\ moves' = moves /\ members' = members /\ moved' = moved
    BY <1>2 DEF Aside, txnVars
  <2>2. ~MoveFile /\ ~RollBackMove
    <3>1. ~MoveFile
      BY <2>1 DEF MoveFile
    <3>2. RollBackMove => moved # <<>> /\ Len(moved') = Len(moved) - 1
      BY <1>t, FrontOf DEF RollBackMove
    <3>3. Len(moved) \in Nat
      BY <1>t
    <3> QED
      BY <2>1, <3>1, <3>2, <3>3
  <2>3. /\ \A k \in 1 .. Len(moved) : Ledgered(k)' = Ledgered(k)
        /\ Noted' = Noted
    BY <2>1 DEF Ledgered, Noted
  <2> QED
    BY <2>1, <2>2, <2>3, <1>k, AsideKeeps DEF Ledgers
<1>c. ASSUME Carrying
      PROVE  /\ \A k \in 1 .. Len(moved) :
                    /\ mem'.ledger[moved[k]].owner = Ledgered(k).owner
                    /\ mem'.ledger[moved[k]].dst = Ledgered(k).dst
             /\ members' = members
  <2>1. members' = members
    BY <1>c DEF Carrying, Intend, MoveFile, NoteMove, RollBackMove, NoteRollback, NoteAgain, txnVars
  <2> QED
    BY <2>1, <1>c, <1>e, LedgerKept DEF Ledgered
<1>d. ASSUME Carrying, moved' = moved
      PROVE  \A k \in 1 .. Len(moved) : /\ Ledgered(k)'.owner = Ledgered(k).owner
                                        /\ Ledgered(k)'.dst = Ledgered(k).dst
  BY <1>d, <1>c DEF Ledgered
<1>3. CASE Intend
  <2> DEFINE e == mem'.ledger[Len(mem.ledger) + 1]
  <2>1. PICK s \in Steps(moves, FreshTemps) :
            /\ Len(mem'.ledger) = Len(mem.ledger) + 1
            /\ e.owner = s.step.owner /\ e.src = s.step.src /\ e.dst = s.step.dst
            /\ pc' = "move" => moves' = s.left
            /\ pc' \in {"move", "rollback"}
    BY <1>3, LedgerKept DEF Carrying
  <2>2. /\ pc = "intent" /\ at' = at /\ moved' = moved /\ members' = members /\ Noted' = e
    BY <1>3, <2>1 DEF Intend, diskVars, Noted
  <2> HIDE DEF e
  <2>3. \E m \in moves : m.owner = s.step.owner
    <3>1. moves \in SUBSET [owner : File, src : Path, dst : Path]
      BY <1>t DEF TypeOK
    <3> QED
      BY <3>1, StepsTyped
  <2>4. \A n \in s.left : \E m \in moves : m.owner = n.owner
    <3>1. \A n \in s.left : n \in moves \/ n.owner = s.step.owner
      BY <2>2, NextStep
    <3> QED
      BY <3>1, <2>3
  <2>5. \A k \in 1 .. Len(moved) :
            Ledgered(k).dst \notin Temps => \A m \in moves : m.owner # Ledgered(k).owner
    BY <2>2 DEF Ledgers
  <2> QED
    BY <2>1, <2>2, <2>3, <2>4, <2>5, <1>k, <1>d, <1>3 DEF Carrying
<1>4. CASE MoveFile
  <2>1. CASE UNCHANGED at
    <3>1. pc' = "rollback" /\ moved' = moved
      <4>1. at[Noted.src] = Noted.owner /\ Noted.owner \in members /\ Noted.src \in Path
        <5>1. pc = "move" /\ Len(mem.ledger) \in 1 .. Len(mem.ledger)
          BY <1>4, <1>t DEF MoveFile, Quiet
        <5>2. mem.ledger[Len(mem.ledger)] \in Entry
          BY <5>1, <1>t
        <5> QED
          BY <5>1, <5>2 DEF Underway, Noted, Entry
      <4>2. ~(clear /\ at' = [at EXCEPT ![Noted.dst] = at[Noted.src], ![Noted.src] = Nobody])
        <5>1. at[Noted.src] \in File /\ Noted.src \in Path /\ at \in [Path -> File \cup {Nobody, Stranger}]
          BY <4>1, <1>n, <1>t DEF TypeOK
        <5>2. clear => at[Noted.dst] \notin File
          BY <1>4, FilesAssumption DEF MoveFile, Typed, Looked, Open, Noted
        <5> QED
          BY <5>1, <5>2, <2>1, FilesAssumption
      <4> QED
        BY <1>4, <4>2 DEF MoveFile, Noted
    <3> QED
      BY <2>1, <3>1, <1>k, <1>d, <1>c, <1>4 DEF Carrying
  <2>2. CASE ~UNCHANGED at
    <3>1. PICK s, d \in Path :
                /\ at[s] \in members /\ at[d] \notin File
                /\ at' = [at EXCEPT ![d] = at[s], ![s] = Nobody]
                /\ s = Noted.src /\ d = Noted.dst /\ at[s] = Noted.owner
      BY <1>4, <2>2, Carries, FilesAssumption DEF Open
    <3>2. /\ moved' = Append(moved, Len(mem.ledger)) /\ pc = "move" /\ pc' = "moved"
          /\ moves' = moves /\ Len(mem.ledger) \in 1 .. Len(mem.ledger)
      BY <1>4, <2>2, <1>t DEF MoveFile, Quiet
    <3>3. /\ Len(moved') = Len(moved) + 1 /\ moved'[Len(moved) + 1] = Len(mem.ledger)
          /\ \A k \in 1 .. Len(moved) : moved'[k] = moved[k]
          /\ Len(moved) \in Nat
      BY <3>2, <1>t
    <3>a. \A k \in 1 .. Len(moved) : /\ Ledgered(k)'.owner = Ledgered(k).owner
                                     /\ Ledgered(k)'.dst = Ledgered(k).dst
      BY <3>3, <1>c, <1>4 DEF Carrying, Ledgered
    <3>n. PICK new \in Nat : new = Len(moved) + 1
      BY <3>3
    <3>b. Ledgered(new)' = mem'.ledger[Len(mem.ledger)]
      BY <3>3, <3>n DEF Ledgered
    <3>4. Ledgered(new)'.owner = Noted.owner /\ Ledgered(new)'.dst = Noted.dst
      BY <3>2, <3>b, <1>4, LedgerKept DEF Carrying, Noted
    <3>5. \A k \in 1 .. Len(moved) :
                Ledgered(k).dst \notin Temps =>
                    /\ \A m \in moves : m.owner # Ledgered(k).owner
                    /\ Noted.owner # Ledgered(k).owner
      BY <3>2 DEF Ledgers
    <3>6. /\ at'[d] = at[s] /\ at'[s] = Nobody
          /\ \A x \in Path : x # d /\ x # s => at'[x] = at[x]
      BY <3>1, <1>n, <1>t DEF TypeOK
    <3>7. \A k \in 1 .. Len(moved) :
            /\ Ledgered(k).dst \in Temps => at'[Ledgered(k).dst] \in members \cup {Nobody}
            /\ Ledgered(k).dst \notin Temps => at'[Ledgered(k).dst] = Ledgered(k).owner
      BY <3>1, <3>5, <3>6, <1>i, <1>e, <1>n
    <3>8. \A k \in 1 .. Len(moved') : k \in 1 .. Len(moved) \/ k = Len(moved) + 1
      BY <3>3
    <3>9. Noted.dst \notin Temps => \A m \in moves : m.owner # Noted.owner
      BY <3>2 DEF Underway, Detour
    <3>10. members' = members
      BY <1>c, <1>4 DEF Carrying
    <3> DEFINE owner(k) == Ledgered(k)'.owner
               dst(k) == Ledgered(k)'.dst
    <3>c. /\ owner(new) = Noted.owner /\ dst(new) = Noted.dst
          /\ \A k \in 1 .. Len(moved) : owner(k) = Ledgered(k).owner /\ dst(k) = Ledgered(k).dst
          /\ \A k \in 1 .. Len(moved') : k \in 1 .. Len(moved) \/ k = new
      BY <3>a, <3>4, <3>8, <3>n
    <3> HIDE DEF owner, dst
    <3>11. \A k \in 1 .. Len(moved') :
            /\ owner(k) \in members
            /\ dst(k) \in Temps => at'[dst(k)] \in members \cup {Nobody}
            /\ dst(k) \notin Temps => at'[dst(k)] = owner(k)
      <4>1. /\ owner(new) \in members
            /\ dst(new) \in Temps => at'[dst(new)] \in members \cup {Nobody}
            /\ dst(new) \notin Temps => at'[dst(new)] = owner(new)
        BY <3>1, <3>6, <3>c
      <4> QED
        BY <3>7, <3>c, <4>1, <1>i
    <3>12. \A k, l \in 1 .. Len(moved') :
            dst(k) \notin Temps /\ dst(l) \notin Temps /\ k # l => owner(k) # owner(l)
      BY <3>c, <3>5, <1>i
    <3>13. \A k \in 1 .. Len(moved') :
                dst(k) \notin Temps => \A m \in moves' : m.owner # owner(k)
      BY <3>2, <3>c, <3>5, <3>9
    <3> QED
      BY <3>2, <3>10, <3>11, <3>12, <3>13 DEF Ledgers, owner, dst
  <2> QED
    BY <2>1, <2>2
<1>5. CASE NoteMove
  <2>1. /\ pc = "moved" /\ at' = at /\ moves' = moves /\ moved' = moved /\ members' = members
        /\ pc' \in {"component", "intent", "rollback"}
    BY <1>5 DEF NoteMove, Persist, diskVars
  <2> QED
    BY <2>1, <1>5, <1>k, <1>d DEF Carrying, Ledgers
<1>6. CASE RollBackMove
  <2>1. /\ moved # <<>> /\ moved' = Front(moved) /\ pc' = pc /\ pc = "rollback"
    BY <1>6 DEF RollBackMove
  <2>2. /\ Len(moved') = Len(moved) - 1 /\ Len(moved) \in 1 .. Len(moved)
        /\ \A k \in 1 .. Len(moved') : moved'[k] = moved[k] /\ k \in 1 .. Len(moved) /\ k # Len(moved)
        /\ Last(moved) = moved[Len(moved)]
    BY <2>1, <1>t, FrontOf
  <2>3. \A k \in 1 .. Len(moved') : /\ Ledgered(k)'.owner = Ledgered(k).owner
                                    /\ Ledgered(k)'.dst = Ledgered(k).dst
    BY <2>2, <1>c, <1>6 DEF Carrying, Ledgered
  <2>4. members' = members
    BY <1>c, <1>6 DEF Carrying
  <2>5. \A k \in 1 .. Len(moved') :
            /\ Ledgered(k).dst \in Temps => at'[Ledgered(k).dst] \in members \cup {Nobody}
            /\ Ledgered(k).dst \notin Temps => at'[Ledgered(k).dst] = Ledgered(k).owner
    <3>1. CASE UNCHANGED at
      BY <3>1, <2>2, <1>i
    <3>2. CASE ~UNCHANGED at
      <4>1. PICK s, d \in Path :
                /\ at[s] \in members /\ at[d] \notin File
                /\ at' = [at EXCEPT ![d] = at[s], ![s] = Nobody]
                /\ s = mem.ledger[Last(moved)].dst
        BY <1>6, <3>2, Carries, FilesAssumption DEF Open
      <4>2. s = Ledgered(Len(moved)).dst
        BY <4>1, <2>2 DEF Ledgered
      <4>3. /\ at'[d] = at[s] /\ at'[s] = Nobody
            /\ \A x \in Path : x # d /\ x # s => at'[x] = at[x]
        BY <4>1, <1>n, <1>t DEF TypeOK
      <4>4. ASSUME NEW k \in 1 .. Len(moved'), Ledgered(k).dst \notin Temps
            PROVE  Ledgered(k).dst # s /\ Ledgered(k).dst # d
        <5>1. at[Ledgered(k).dst] = Ledgered(k).owner /\ Ledgered(k).owner \in members
          BY <4>4, <2>2, <1>i
        <5>2. ASSUME Ledgered(k).dst = s PROVE FALSE
          <6>1. at[s] = Ledgered(Len(moved)).owner
            BY <5>2, <4>2, <4>4, <2>2, <1>i
          <6>2. Ledgered(k).owner # Ledgered(Len(moved)).owner
            BY <5>2, <4>2, <4>4, <2>2, <1>i
          <6> QED
            BY <6>1, <6>2, <5>1, <5>2
        <5> QED
          BY <5>1, <5>2, <4>1, <1>n
      <4> QED
        BY <4>1, <4>3, <4>4, <2>2, <1>i, <1>e
    <3> QED
      BY <3>1, <3>2
  <2>6. \A k, l \in 1 .. Len(moved') :
            Ledgered(k)'.dst \notin Temps /\ Ledgered(l)'.dst \notin Temps /\ k # l
                => Ledgered(k)'.owner # Ledgered(l)'.owner
    BY <2>2, <2>3, <1>i
  <2>7. \A k \in 1 .. Len(moved') :
            /\ Ledgered(k)'.owner \in members'
            /\ Ledgered(k)'.dst \in Temps => at'[Ledgered(k)'.dst] \in members' \cup {Nobody}
            /\ Ledgered(k)'.dst \notin Temps => at'[Ledgered(k)'.dst] = Ledgered(k)'.owner
    BY <2>2, <2>3, <2>4, <2>5, <1>i
  <2> QED
    BY <2>1, <2>6, <2>7 DEF Ledgers
<1>7. CASE NoteRollback \/ NoteAgain
  <2>1. /\ at' = at /\ moved' = moved /\ members' = members /\ pc' \in {"component", "rolled"}
    BY <1>7 DEF NoteRollback, NoteAgain, Persist, diskVars, txnVars
  <2> QED
    BY <2>1, <1>7, <1>k, <1>d DEF Carrying
<1>8. CASE pc' \notin Renaming
  BY <1>8, <1>q, <1>0
<1> QED
  BY <1>1, <1>2, <1>3, <1>4, <1>5, <1>6, <1>7, <1>8, RenamingSteps DEF Carrying

(* A component ends well only with all its files where they should be.     *)
LEMMA EndingStep ==
    ASSUME Typed, Underway, Ending, [Next]_vars
    PROVE  Ending'
<1> SUFFICES ASSUME pc' \in Renaming PROVE Ending'
  BY DEF Ending, Renaming
<1>t. TypeOK
  BY DEF Typed
<1>1. ASSUME NEW C \in plan, BeginComponent(C), pc' = "intent" PROVE Ending'
  BY <1>1 DEF Ending
<1>2. CASE Intend
  BY <1>2 DEF Intend, Ending
<1>3. CASE MoveFile
  BY <1>3 DEF MoveFile, Ending
<1>4. CASE NoteMove
  <2>1. /\ pc = "moved" /\ UNCHANGED <<at, members, job>>
        /\ pc' \in {"component", "intent", "rollback"}
        /\ pc' = "rollback" => status' = "rolled_back"
        /\ pc' = "component" => moves = {}
    BY <1>4 DEF NoteMove, Persist, diskVars, jobVars
  <2>2. moves = {} => \A f \in members : at[Goal(f)] = f
    BY <2>1 DEF Underway
  <2> QED
    BY <2>1, <2>2 DEF Ending, Goal
<1>5. CASE RollBackMove
  BY <1>5 DEF RollBackMove, Ending
<1>6. CASE NoteRollback
  BY <1>6 DEF NoteRollback, Persist, Ending
<1>7. CASE NoteAgain
  BY <1>7 DEF NoteAgain, Persist, txnVars, Ending
<1>8. CASE Aside
  <2>1. UNCHANGED <<pc, status, moved, members, job>>
    BY <1>8 DEF Aside, txnVars
  <2>2. pc = "component" => ~MoveFile /\ ~RollBackMove
    BY DEF MoveFile, RollBackMove
  <2>3. pc = "component" => \A x \in Path : at[x] # Nobody => at'[x] = at[x]
    BY <2>2, AsideKeeps
  <2>4. \A f \in members : f \in File /\ Goal(f) \in Path
    BY <1>t, PathsAssumption DEF Goal, TypeOK
  <2> QED
    BY <2>1, <2>3, <2>4, FilesAssumption DEF Ending, Goal
<1> QED
  BY <1>1, <1>2, <1>3, <1>4, <1>5, <1>6, <1>7, <1>8, RenamingSteps DEF Carrying

(* No file is changed but by others.                                       *)
KeepsTags ==
    \A f \in File : tags'[f] = tags[f] \/ f \in since'

(* The steps of a recovery.                                                *)
LEMMA RecoverySteps ==
    ASSUME Typed, Phases, [Next]_vars, job' = "recovery", pc' \in Recovering
    PROVE  \/ BeginRecovery
           \/ /\ job = "recovery" /\ pc \in Recovering /\ KeepsTags
              /\ \/ \E C \in plan : BeginComponent(C)
                 \/ RecoveryComponent \/ BeginRestore
                 \/ Carrying \/ UNCHANGED <<pc, outcome, members, plan>>
           \/ job = "recovery" /\ pc = "restore" /\ \E f \in File : Restore(f)
<1>t. TypeOK
  BY DEF Typed
<1>a. /\ pc \in {"new", "backup", "bind", "abort", "start", "tags", "note", "stopped", "closing",
                 "remove", "finalize", "seal"} => job = "apply"
      /\ pc = "restore" => job = "recovery"
      /\ job \in {"apply", "recovery"}
  BY <1>t DEF Phases, InApply, InRecovery, Setup, TypeOK
<1> DEFINE G == \/ BeginRecovery
                \/ /\ job = "recovery" /\ pc \in Recovering /\ KeepsTags
                   /\ \/ \E C \in plan : BeginComponent(C)
                      \/ RecoveryComponent \/ BeginRestore
                      \/ Carrying \/ UNCHANGED <<pc, outcome, members, plan>>
                \/ job = "recovery" /\ pc = "restore" /\ \E f \in File : Restore(f)
<1>1. ASSUME NEW C \in plan, BeginComponent(C) PROVE G
  BY <1>1, <1>a DEF BeginComponent, Carrying, KeepsTags, diskVars, txnVars, Recovering, Renaming
<1>2. CASE Intend
  BY <1>2, <1>a DEF Intend, Carrying, KeepsTags, diskVars, jobVars, Recovering, Renaming
<1>3. CASE MoveFile
  BY <1>3, <1>a DEF MoveFile, Carrying, KeepsTags, jobVars, Recovering, Renaming
<1>4. CASE NoteMove
  BY <1>4, <1>a DEF NoteMove, Carrying, Persist, KeepsTags, diskVars, jobVars, Recovering, Renaming
<1>5. CASE RollBackMove
  BY <1>5, <1>a DEF RollBackMove, Carrying, KeepsTags, jobVars, Recovering, Renaming
<1>6. CASE NoteRollback
  BY <1>6, <1>a DEF NoteRollback, Carrying, Persist, KeepsTags, diskVars, jobVars, Recovering, Renaming
<1>7. CASE NoteAgain
  BY <1>7, <1>a DEF NoteAgain, Carrying, Persist, KeepsTags, diskVars, txnVars, jobVars, Recovering,
     Renaming
<1>8. CASE BeginApply
  BY <1>8, <1>a DEF BeginApply, Carrying, Persist, KeepsTags, diskVars, txnVars, Recovering, Renaming
<1>9. CASE WriteManifest
  BY <1>9, <1>a DEF WriteManifest, Carrying, BackupFails, KeepsTags, diskVars, txnVars, jobVars,
     Recovering, Renaming
<1>10. CASE WriteBinding
  BY <1>10, <1>a DEF WriteBinding, Carrying, BackupFails, KeepsTags, diskVars, txnVars, jobVars,
     Recovering, Renaming
<1>11. CASE Abort
  BY <1>11, <1>a DEF Abort, Carrying, Persist, KeepsTags, diskVars, txnVars, jobVars, Recovering, Renaming
<1>12. CASE StartApplying
  BY <1>12, <1>a DEF StartApplying, Carrying, Persist, KeepsTags, diskVars, txnVars, jobVars, Recovering,
     Renaming
<1>13. ASSUME NEW f \in File, WriteTags(f) PROVE G
  BY <1>13, <1>a DEF WriteTags, Carrying, KeepsTags, txnVars, Recovering, Renaming
<1>14. CASE Note
  BY <1>14, <1>a DEF Note, Carrying, Persist, KeepsTags, diskVars, txnVars, Recovering, Renaming
<1>15. CASE StopWriting
  BY <1>15, <1>a DEF StopWriting, Carrying, Persist, KeepsTags, diskVars, txnVars, Recovering, Renaming
<1>16. CASE ApplyComponent
  BY <1>16 DEF ApplyComponent
<1>17. CASE EndRenames
  BY <1>17, <1>a DEF EndRenames, Carrying, Persist, KeepsTags, diskVars, txnVars, Recovering, Renaming
<1>18. CASE Close
  BY <1>18, <1>a DEF Close, Carrying, Persist, KeepsTags, diskVars, txnVars, jobVars, Recovering, Renaming
<1>19. CASE RemoveJournal
  BY <1>19, <1>a DEF RemoveJournal, Carrying, Retire, KeepsTags, diskVars, txnVars, jobVars, Recovering,
     Renaming
<1>20. CASE FinalizeManifest
  BY <1>20, <1>a DEF FinalizeManifest, Carrying, WorkEnds, EndTxn, KeepsTags, diskVars, txnVars, jobVars,
     Recovering, Renaming
<1>21. CASE Seal
  BY <1>21, <1>a DEF Seal, Carrying, WorkEnds, EndTxn, KeepsTags, diskVars, Recovering, Renaming
<1>22. CASE BeginRecovery
  BY <1>22
<1>23. CASE RecoveryComponent
  BY <1>23, <1>a DEF RecoveryComponent, Carrying, EndTxn, KeepsTags, diskVars, Recovering, Renaming
<1>24. CASE BeginRestore
  BY <1>24, <1>a DEF BeginRestore, Carrying, KeepsTags, diskVars, txnVars, jobVars, Recovering, Renaming
<1>25. ASSUME NEW f \in File, Restore(f) PROVE G
  BY <1>25, <1>a DEF Restore
<1>26. CASE EndRecovery
  BY <1>26, <1>a DEF EndRecovery, Carrying, Retire, WorkEnds, EndTxn, KeepsTags, diskVars, Recovering,
     Renaming
<1>27. CASE Reconcile
  BY <1>27, <1>a DEF Reconcile, Carrying, Retire, KeepsTags, diskVars, txnVars, jobVars, Recovering,
     Renaming
<1>28. CASE Forget \/ Cancel \/ Rest \/ UNCHANGED vars
  BY <1>28, <1>a DEF Forget, Carrying, Retire, KeepsTags, diskVars, txnVars, jobVars, Recovering,
     Renaming, Cancel, Rest, vars
<1>30. CASE Crash
  BY <1>30, <1>a DEF Crash, Carrying, WorkEnds, EndTxn, KeepsTags, diskVars, Recovering, Renaming
<1>31. CASE Meddle
  <2>1. pc' = pc /\ job' = job /\ UNCHANGED <<outcome, members, plan>>
    BY <1>31 DEF Meddle, txnVars, jobVars
  <2>2. pc # "idle"
    BY <2>1 DEF Recovering, Renaming
  <2>3. KeepsTags
    BY <1>31, <2>2, <1>t DEF Meddle, KeepsTags, Edit, Put, TypeOK
  <2> QED
    BY <2>1, <2>3
<1>34. CASE Look
  BY <1>34, <1>a DEF Look, Carrying, KeepsTags, diskVars, txnVars, jobVars, Recovering, Renaming
<1> QED
  BY <1>1, <1>2, <1>3, <1>4, <1>5, <1>6, <1>7, <1>8, <1>9, <1>10, <1>11, <1>12, <1>13,
     <1>14, <1>15, <1>16, <1>17, <1>18, <1>19, <1>20, <1>21, <1>22, <1>23, <1>24, <1>25,
     <1>26, <1>27, <1>28, <1>30, <1>31, <1>34 DEF Next, TxnStep, ApplyStep, RecoveryStep

(* A file a recovery counts as good is not lost sight of.                  *)
LEMMA ReturningStep ==
    ASSUME Typed, Phases, Recognised, Underway, Ledgers, Ending, Returning, [Next]_vars
    PROVE  Returning'
<1>t. TypeOK /\ Quiet
  BY DEF Typed
<1>0. pc' = "restore" => job' = "recovery" /\ pc' \in Recovering
  <2>1. Phases'
    BY PhasesStep
  <2> QED
    BY <2>1 DEF Phases, InRecovery, Recovering
<1> SUFFICES ASSUME job' = "recovery", pc' \in Recovering PROVE Returning'
  BY <1>0 DEF Returning
<1>1. CASE BeginRecovery
  BY <1>1, RecoveryPlan
<1>r. ASSUME job = "recovery", pc \in Recovering, NEW f \in File, outcome[f] = "success"
      PROVE  /\ tags[f].what = "theirs" => f \in since'
             /\ KeepsTags => (tags'[f].what = "theirs" => f \in since')
             /\ \/ at'[Home[f]] = f /\ at[Home[f]] = f
                \/ f \in members \/ Planned(f)
  <2>1. /\ tags[f].what = "theirs" => f \in since
        /\ at[Home[f]] = f \/ f \in members \/ Planned(f)
    BY <1>r DEF Returning
  <2>3. since \subseteq since'
    BY PastSteps DEF Recovering, Renaming
  <2>2. at[Home[f]] = f /\ f \notin members => at'[Home[f]] = f
    BY Kept, PathsAssumption, FilesAssumption
  <2> QED
    BY <2>1, <2>2, <2>3 DEF KeepsTags
<1>2. ASSUME job = "recovery", pc \in Recovering, KeepsTags, NEW C \in plan, BeginComponent(C)
      PROVE  Returning'
  <2>1. pc = "renames" /\ plan' = plan \ {C} /\ pc' \in {"renames", "intent"}
    BY <1>2 DEF BeginComponent, txnVars
  <2>2. outcome' = outcome /\ members' = OwnersOf(C)
    BY <1>2 DEF BeginComponent
  <2>3. members = {}
    BY <2>1, <1>t DEF Quiet, Renaming
  <2>4. \A f \in File : Planned(f) => f \in OwnersOf(C) \/ Planned(f)'
    BY <2>1 DEF Planned
  <2> QED
    BY <1>2, <1>r, <2>1, <2>2, <2>3, <2>4 DEF Returning
<1>3. ASSUME job = "recovery", pc \in Recovering, KeepsTags, RecoveryComponent
      PROVE  Returning'
  <2>1. /\ pc = "component" /\ pc' = "renames" /\ plan' = plan /\ at' = at
        /\ outcome' = [f \in File |-> IF f \in members /\ status # "ok" THEN "failed"
                                                                       ELSE outcome[f]]
    BY <1>3 DEF RecoveryComponent, diskVars
  <2>2. status = "ok" => \A f \in members : at[Home[f]] = f
    BY <2>1, <1>3 DEF Ending, Goal
  <2>3. \A f \in File : Planned(f)' <=> Planned(f)
    BY <2>1 DEF Planned
  <2>4. \A f \in File : outcome'[f] = "success" =>
            outcome[f] = "success" /\ (f \in members => status = "ok")
    BY <2>1
  <2> QED
    BY <1>3, <1>r, <2>1, <2>2, <2>3, <2>4 DEF Returning
<1>4. ASSUME job = "recovery", pc \in Recovering, KeepsTags, BeginRestore
      PROVE  Returning'
  <2>1. plan = {} /\ UNCHANGED <<outcome, members, plan>>
    BY <1>4 DEF BeginRestore, txnVars, jobVars
  <2>2. \A f \in File : Planned(f)' <=> Planned(f)
    BY <2>1 DEF Planned
  <2> QED
    BY <1>4, <1>r, <2>1, <2>2 DEF Returning
<1>5. ASSUME job = "recovery", pc \in Recovering, KeepsTags, Carrying
      PROVE  Returning'
  <2>1. pc' # "restore" /\ UNCHANGED <<outcome, members, plan>>
    BY <1>5 DEF Carrying, Intend, MoveFile, NoteMove, RollBackMove, NoteRollback, NoteAgain, Persist,
       txnVars, jobVars
  <2>2. \A f \in File : Planned(f)' <=> Planned(f)
    BY <2>1 DEF Planned
  <2> QED
    BY <1>5, <1>r, <2>1, <2>2 DEF Returning
<1>6. ASSUME job = "recovery", pc \in Recovering, KeepsTags,
             UNCHANGED <<pc, outcome, members, plan>>
      PROVE  Returning'
  <2>1. \A f \in File : Planned(f)' <=> Planned(f)
    BY <1>6 DEF Planned
  <2> QED
    BY <1>6, <1>r, <2>1 DEF Returning
<1>7. ASSUME job = "recovery", pc = "restore", NEW g \in File, Restore(g)
      PROVE  Returning'
  <2>1. /\ UNCHANGED <<pc, members, plan>> /\ plan = {}
        /\ outcome' \in {outcome, [outcome EXCEPT ![g] = "failed"]}
        /\ \/ tags' = tags
           \/ \E x \in File : tags' = [tags EXCEPT ![x] = [of |-> g, what |-> "old"]]
    BY <1>7 DEF Restore, Put, txnVars, Returning
  <2>2. \A f \in File : Planned(f)' <=> Planned(f)
    BY <2>1 DEF Planned
  <2>3. /\ \A f \in File : outcome'[f] = "success" => outcome[f] = "success"
        /\ \A f \in File : tags'[f].what = "theirs" => tags[f].what = "theirs"
    <3>1. DOMAIN outcome = File /\ DOMAIN tags = File
      BY <1>t DEF TypeOK
    <3> QED
      BY <2>1, <3>1
  <2>4. pc \in Recovering
    BY <1>7 DEF Recovering
  <2> QED
    BY <1>7, <1>r, <2>1, <2>2, <2>3, <2>4 DEF Returning
<1> QED
  BY <1>1, <1>2, <1>3, <1>4, <1>5, <1>6, <1>7, RecoverySteps

(* What recovery writes it writes to the file it was saved for.            *)
LEMMA RestoresOwn ==
    ASSUME Typed, Phases, Returning, NEW f \in File, Restore(f), ~UNCHANGED <<tags, lost>>
    PROVE  /\ at[Home[f]] = f
           /\ tags' = [tags EXCEPT ![f] = [of |-> f, what |-> "old"]]
           /\ \/ lost' = lost
              \/ lost' = lost \cup {tags[f].what} /\ tags[f].what # "theirs"
<1>1. pc = "restore" /\ outcome[f] = "success" /\ job = "recovery"
  BY DEF Restore, Phases, InRecovery
<1>2. members = {} /\ plan = {}
  BY <1>1 DEF Returning, Typed, Quiet, Renaming
<1>3. at[Home[f]] = f /\ (tags[f].what = "theirs" => f \in since)
  BY <1>1, <1>2 DEF Returning, Planned, Recovering
<1> QED
  BY <1>1, <1>3 DEF Restore, Put

(* Each file has its own tags.                                             *)
LEMMA SingleStep ==
    ASSUME Typed, Phases, Single, Underway, Ledgers, Returning, [Next]_vars
    PROVE  Single'
<1>t. DOMAIN tags = File /\ \A f \in File : tags[f].of = f
  BY DEF Typed, TypeOK, Single
<1> DEFINE Own == \A f \in File : tags[f].of = f
<1>1. Own'
  <2>1. CASE UNCHANGED tags
    BY <2>1, <1>t
  <2>2. ASSUME NEW f \in File, WriteTags(f) PROVE Own'
    <3>1. tags' = tags \/ tags' = [tags EXCEPT ![f] = [of |-> f, what |-> "new"]]
      BY <2>2 DEF WriteTags, Put
    <3> QED
      BY <3>1, <1>t
  <2>3. ASSUME NEW f \in File, Restore(f) PROVE Own'
    <3>1. tags' = tags \/ tags' = [tags EXCEPT ![f] = [of |-> f, what |-> "old"]]
      BY <2>3, RestoresOwn
    <3> QED
      BY <3>1, <1>t
  <2>4. CASE Meddle
    <3>1. UNCHANGED tags \/ \E g \in File : Edit(g)
      BY <2>4 DEF Meddle
    <3>2. ASSUME NEW g \in File, Edit(g) PROVE Own'
      <4>1. tags' = [tags EXCEPT ![g] = [tags[g] EXCEPT !.what = "theirs"]] \/ tags' = tags
        <5>1. tags \in [File -> [of : File, what : {"old", "new", "theirs"}]]
          BY DEF Typed, TypeOK
        <5>2. [tags EXCEPT ![g] = tags[g]] = tags
          BY <5>1
        <5> QED
          BY <3>2, <5>2 DEF Edit, Put
      <4>2. tags[g] \in [of : File, what : {"old", "new", "theirs"}]
        BY DEF Typed, TypeOK
      <4>3. [tags[g] EXCEPT !.what = "theirs"].of = g
        BY <4>2, <1>t
      <4> QED
        BY <4>1, <4>3, <1>t
    <3> QED
      BY <3>1, <3>2, <2>1
  <2> QED
    BY <2>1, <2>2, <2>3, <2>4, Writers
<1> QED
  BY <1>1, SinglePlace DEF Single

(* Where the files are, as long as recovery can tell them apart.           *)
Places == Single /\ PlanSound /\ Underway /\ Ledgers /\ Ending /\ Returning

(* They are there when the batch begins. *)
LEMMA InitPlaces == Init => Places
<1> SUFFICES ASSUME Init PROVE Places
  OBVIOUS
<1>1. pc = "new" /\ job = "apply" /\ moved = <<>> /\ 1 .. Len(moved) = {}
  BY DEF Init, NoWork
<1>2. Single
  <2>1. \A f \in File : tags[f].of = f
    BY DEF Init
  <2>2. ASSUME NEW x \in Path, NEW y \in Path, at[x] = at[y], at[x] \in File PROVE x = y
    <3>1. Home[at[x]] = x /\ Home[at[y]] = y
      BY <2>2, FilesAssumption DEF Init
    <3> QED
      BY <3>1, <2>2
  <2> QED
    BY <2>1, <2>2 DEF Single
<1> QED
  BY <1>1, <1>2 DEF Places, PlanSound, Underway, Ledgers, Ending, Returning, Recovering, Renaming

(* As long as recovery takes each file for itself, every step keeps the    *)
(* files where the worker takes them to be.                                *)
LEMMA PlacesStep == Invariant /\ Places /\ Recognised /\ [Next]_vars => Places'
BY SingleStep, PlanSoundStep, UnderwayStep, LedgersStep, EndingStep, ReturningStep DEF Invariant, Places

----------------------------------------------------------------------------
(* How recovery knows the files: the journals tell where each of them is.  *)

(* A worker runs.                                                          *)
Runs == pc \notin {"new", "idle"}

(* What is written to disk is the journal in memory; and which steps end    *)
(* the offer of a recovery.                                                *)
LEMMA LogSteps ==
    ASSUME Typed, Phases, [Next]_vars
    PROVE  /\ \/ log' = log
              \/ log' = mem' /\ (pc' # "idle" \/ pc \in Setup)
              \/ log' = NoJournal /\ (pc \in {"remove", "idle"} \/ pc' = "idle")
           /\ Offered /\ ~Offered' =>
                (Close /\ Clean) \/ RemoveJournal \/ Reconcile \/ Forget \/ (EndRecovery /\ Recovered)
<1>t. log \in Journal /\ mem \in Journal /\ Typed
  BY DEF Typed, TypeOK
<1> DEFINE G == /\ \/ log' = log
                   \/ log' = mem' /\ (pc' # "idle" \/ pc \in Setup)
                   \/ log' = NoJournal /\ (pc \in {"remove", "idle"} \/ pc' = "idle")
                /\ Offered /\ ~Offered' =>
                     (Close /\ Clean) \/ RemoveJournal \/ Reconcile \/ Forget \/ (EndRecovery /\ Recovered)
<1>i. /\ job = "apply" /\ pc \in Writing => log.batch = "applying" /\ mem.batch = "applying"
      /\ job = "recovery" /\ pc \in Recovering => mem.batch = log.batch /\ Offered
      /\ job \in {"apply", "recovery"}
      /\ pc \in {"tags", "note", "stopped", "closing"} => job = "apply"
      /\ pc \in {"backup", "bind", "abort", "start"} => mem.batch \in {"backing_up", "failed"}
  BY DEF Phases, InSetup, InApply, InRecovery, Typed, TypeOK, Setup
<1>1. ASSUME NEW C \in plan, BeginComponent(C) PROVE G
  BY <1>1 DEF BeginComponent, Offered
<1>2. CASE Intend
  <2>1. /\ pc \in Renaming /\ mem'.batch = mem.batch /\ log' \in {log, mem'} /\ pc' # "idle"
    BY <1>2, <1>t, TxnJournal DEF Intend, Renaming
  <2> QED
    BY <2>1, <1>i DEF Offered, Writing, Recovering
<1>3. CASE MoveFile
  BY <1>3 DEF MoveFile, Offered
<1>4. CASE NoteMove
  BY <1>4, <1>i, <1>t DEF NoteMove, diskVars, jobVars, Persist, Fault, Offered, Journal, Setup, Writing,
     Recovering, Renaming
<1>5. CASE RollBackMove
  BY <1>5 DEF RollBackMove, Offered
<1>6. CASE NoteRollback
  BY <1>6, <1>i, <1>t DEF NoteRollback, diskVars, jobVars, Persist, Fault, Offered, Journal, Setup,
     Writing, Recovering, Renaming
<1>7. CASE NoteAgain
  BY <1>7, <1>i, <1>t DEF NoteAgain, diskVars, txnVars, jobVars, Persist, Fault, Offered, Journal, Setup,
     Writing, Recovering, Renaming
<1>8. CASE BeginApply
  <2>1. [NoJournal EXCEPT !.batch = "backing_up"].batch = "backing_up"
    BY DEF NoJournal
  <2> QED
    BY <1>8, <2>1 DEF BeginApply, Persist, Offered
<1>9. CASE WriteManifest
  BY <1>9, <1>i, <1>t DEF WriteManifest, diskVars, txnVars, jobVars, BackupFails, Fault, Offered, Journal,
     Setup, Writing, Recovering, Renaming
<1>10. CASE WriteBinding
  BY <1>10, <1>i, <1>t DEF WriteBinding, diskVars, txnVars, jobVars, BackupFails, Fault, Offered, Journal,
     Setup, Writing, Recovering, Renaming
<1>11. CASE Abort
  BY <1>11, <1>i, <1>t DEF Abort, diskVars, txnVars, jobVars, Persist, Fault, Offered, Journal, Setup,
     Writing, Recovering, Renaming
<1>12. CASE StartApplying
  BY <1>12, <1>i, <1>t DEF StartApplying, diskVars, txnVars, jobVars, Persist, Fault, Offered, Journal,
     Setup, Writing, Recovering, Renaming
<1>13. ASSUME NEW f \in File, WriteTags(f) PROVE G
  BY <1>13 DEF WriteTags, Offered
<1>14. CASE Note
  BY <1>14, <1>i, <1>t DEF Note, diskVars, txnVars, Persist, Fault, Offered, Journal, Setup, Writing,
     Recovering, Renaming
<1>15. CASE StopWriting
  BY <1>15, <1>i, <1>t DEF StopWriting, diskVars, txnVars, Persist, Fault, Offered, Journal, Setup,
     Writing, Recovering, Renaming
<1>16. CASE ApplyComponent
  <2>1. /\ pc \in Renaming /\ job = "apply"
        /\ \E s : mem' = [mem EXCEPT !.state = s]
        /\ log' \in {log, mem'} /\ pc' # "idle"
    BY <1>16, <1>t DEF ApplyComponent, Persist, PartialIn, Renaming, Typed, TypeOK
  <2> QED
    BY <2>1, <1>i, <1>t DEF Offered, Writing, Journal
<1>17. CASE EndRenames
  BY <1>17, <1>i, <1>t DEF EndRenames, diskVars, txnVars, Persist, Fault, Offered, Journal, Setup,
     Writing, Recovering, Renaming
<1>18. CASE Close
  <2>1. CASE Clean
    <3>1. log' \in {log, mem'} /\ pc' # "idle"
      BY <1>18, <2>1 DEF Close, Persist
    <3> QED
      BY <1>18, <2>1, <3>1
  <2>2. CASE ~Clean
    <3>1. mem' = mem /\ log' \in {log, mem'} /\ pc' # "idle"
      BY <1>18, <2>2 DEF Close, Persist
    <3> QED
      BY <1>18, <2>2, <3>1, <1>i DEF Close, Offered, Writing
  <2> QED
    BY <2>1, <2>2
<1>19. CASE RemoveJournal
  <2>1. log' \in {log, NoJournal} /\ pc \in {"remove", "idle"}
    BY <1>19 DEF RemoveJournal, Retire
  <2> QED
    BY <1>19, <2>1
<1>20. CASE FinalizeManifest
  BY <1>20, <1>i, <1>t DEF FinalizeManifest, diskVars, txnVars, jobVars, WorkEnds, EndTxn, Fault, Offered,
     Journal, Setup, Writing, Recovering, Renaming
<1>21. CASE Seal
  BY <1>21, <1>i, <1>t DEF Seal, diskVars, WorkEnds, EndTxn, Fault, Offered, Journal, Setup, Writing,
     Recovering, Renaming
<1>22. CASE BeginRecovery
  BY <1>22 DEF BeginRecovery, Offered
<1>23. CASE RecoveryComponent
  BY <1>23, <1>i, <1>t DEF RecoveryComponent, diskVars, EndTxn, Offered, Journal, Setup, Writing,
     Recovering, Renaming
<1>24. CASE BeginRestore
  BY <1>24, <1>i, <1>t DEF BeginRestore, diskVars, txnVars, jobVars, Offered, Journal, Setup, Writing,
     Recovering, Renaming
<1>25. ASSUME NEW f \in File, Restore(f) PROVE G
  BY <1>25 DEF Restore, Offered
<1>26. CASE EndRecovery
  BY <1>26 DEF EndRecovery, Retire, Offered, WorkEnds
<1>27. CASE Reconcile
  <2>1. log' \in {log, NoJournal} /\ pc \in {"remove", "idle"}
    BY <1>27 DEF Reconcile, Retire
  <2> QED
    BY <1>27, <2>1
<1>28. CASE Forget
  <2>1. log' \in {log, NoJournal} /\ pc \in {"remove", "idle"}
    BY <1>28 DEF Forget, Retire
  <2> QED
    BY <1>28, <2>1
<1>29. CASE Cancel \/ Rest \/ UNCHANGED vars
  BY <1>29, <1>i, <1>t DEF Cancel, diskVars, txnVars, Offered, Journal, Setup, Writing, Recovering,
     Renaming, Rest, vars, jobVars
<1>30. CASE Crash
  BY <1>30, <1>i, <1>t DEF Crash, diskVars, WorkEnds, EndTxn, Offered, Journal, Setup, Writing,
     Recovering, Renaming
<1>31. CASE Meddle
  BY <1>31, <1>i, <1>t DEF Meddle, txnVars, jobVars, Offered, Journal, Setup, Writing, Recovering,
     Renaming
<1>34. CASE Look
  BY <1>34, <1>i, <1>t DEF Look, diskVars, txnVars, Offered, Journal, Setup, Writing, Recovering, Renaming
<1> QED
  BY <1>1, <1>2, <1>3, <1>4, <1>5, <1>6, <1>7, <1>8, <1>9, <1>10, <1>11, <1>12, <1>13,
     <1>14, <1>15, <1>16, <1>17, <1>18, <1>19, <1>20, <1>21, <1>22, <1>23, <1>24, <1>25,
     <1>26, <1>27, <1>28, <1>29, <1>30, <1>31, <1>34 DEF Next, TxnStep, ApplyStep,
     RecoveryStep

(* The names a move goes by that are temporary; no temporary name is used   *)
(* for two files, and the ledger says for which one.                       *)
Temp(e) == {e.src, e.dst} \cap Temps
Apart(j) ==
    \A i \in 1 .. Len(j.ledger) :
        /\ \A t \in Temp(j.ledger[i]) : at[t] \in {j.ledger[i].owner, Nobody}
        /\ \A k \in 1 .. Len(j.ledger) :
              Temp(j.ledger[i]) \cap Temp(j.ledger[k]) # {} => j.ledger[i].owner = j.ledger[k].owner
(* The worker's ledger continues the one on disk.                          *)
Grown ==
    Runs => /\ Len(log.ledger) <= Len(mem.ledger)
            /\ \A i \in 1 .. Len(log.ledger) :
                    /\ log.ledger[i].owner = mem.ledger[i].owner
                    /\ log.ledger[i].src = mem.ledger[i].src
                    /\ log.ledger[i].dst = mem.ledger[i].dst
Temporary == Apart(log) /\ Apart(mem) /\ Grown /\ (pc = "move" => log = mem)

(* Outside the renames the ledger is taken over or dropped.                *)
LEMMA LedgerSteps ==
    ASSUME Typed, [Next]_vars
    PROVE  \/ Carrying
           \/ /\ UNCHANGED at \/ Meddle
              /\ \/ mem'.ledger = mem.ledger /\ (Runs' => Runs)
                 \/ BeginRecovery
                 \/ mem'.ledger = <<>> /\ (pc' = "idle" \/ BeginApply)
              /\ pc' = "move" => UNCHANGED <<pc, log, mem>>
              /\ pc = "move" => pc' = "move" \/ mem'.ledger = <<>>
<1>t. TypeOK /\ mem \in Journal
  BY DEF Typed, TypeOK
<1>n. NoJournal.ledger = <<>> /\ [NoJournal EXCEPT !.batch = "backing_up"].ledger = <<>>
  BY DEF NoJournal
<1>s. \A s : [mem EXCEPT !.state = s].ledger = mem.ledger
  BY <1>t DEF Journal
<1>b. \A b : [mem EXCEPT !.batch = b].ledger = mem.ledger
  BY <1>t DEF Journal
<1>p. \A S : PartialIn(S).ledger = mem.ledger
  BY <1>t DEF PartialIn, Journal
<1> DEFINE G == \/ Carrying
                \/ /\ UNCHANGED at \/ Meddle
                   /\ \/ mem'.ledger = mem.ledger /\ (Runs' => Runs)
                      \/ BeginRecovery
                      \/ mem'.ledger = <<>> /\ (pc' = "idle" \/ BeginApply)
                   /\ pc' = "move" => UNCHANGED <<pc, log, mem>>
                   /\ pc = "move" => pc' = "move" \/ mem'.ledger = <<>>
<1>1. ASSUME NEW C \in plan, BeginComponent(C) PROVE G
  <2>1. at' = at /\ mem' \in {mem, PartialIn(OwnersOf(C))} /\ pc = "renames" /\ pc' \in {"renames", "intent"}
    BY <1>1 DEF BeginComponent, diskVars
  <2> QED
    BY <2>1, <1>p DEF Runs
<1>2. CASE Intend
  BY <1>2 DEF Carrying
<1>3. CASE MoveFile
  BY <1>3 DEF Carrying
<1>4. CASE NoteMove
  BY <1>4 DEF Carrying
<1>5. CASE RollBackMove
  BY <1>5 DEF Carrying
<1>6. CASE NoteRollback
  BY <1>6 DEF Carrying
<1>7. CASE NoteAgain
  BY <1>7 DEF Carrying
<1>8. CASE BeginApply
  <2>1. at' = at /\ mem'.ledger = <<>> /\ pc' # "move"
    BY <1>8, <1>n DEF BeginApply, Persist, diskVars
  <2> QED
    BY <2>1, <1>8
<1>9. CASE WriteManifest
  BY <1>9, <1>b DEF WriteManifest, BackupFails, diskVars, Runs
<1>10. CASE WriteBinding
  BY <1>10, <1>b DEF WriteBinding, BackupFails, diskVars, Runs
<1>11. CASE Abort
  BY <1>11, <1>t, <1>n, <1>b DEF Abort, diskVars, txnVars, jobVars, Persist, Fault, Runs
<1>12. CASE StartApplying
  <2>1. at' = at /\ pc = "start" /\ pc' \in {"tags", "idle"}
    BY <1>12 DEF StartApplying, Persist, diskVars
  <2>2. mem'.ledger = mem.ledger
    BY <1>12, <1>t DEF StartApplying, Persist, Journal
  <2> QED
    BY <2>1, <2>2 DEF Runs
<1>13. ASSUME NEW f \in File, WriteTags(f) PROVE G
  <2>1. mem'.ledger = mem.ledger
    BY <1>13, <1>t DEF WriteTags, Journal
  <2> QED
    BY <1>13, <2>1 DEF WriteTags, Runs
<1>14. CASE Note
  BY <1>14, <1>t, <1>n, <1>b DEF Note, diskVars, txnVars, Persist, Fault, Runs
<1>15. CASE StopWriting
  <2>1. at' = at /\ pc \in {"stopped", "tags"} /\ pc' = "closing" /\ \E s : mem' = [mem EXCEPT !.state = s]
    BY <1>15 DEF StopWriting, Persist, diskVars
  <2> QED
    BY <2>1, <1>s DEF Runs
<1>16. CASE ApplyComponent
  <2>1. at' = at /\ pc = "component" /\ pc' \in {"renames", "closing"}
        /\ \E s : mem' = [mem EXCEPT !.state = s]
    BY <1>16, <1>t DEF ApplyComponent, Persist, PartialIn, TypeOK, diskVars
  <2> QED
    BY <2>1, <1>s DEF Runs
<1>17. CASE EndRenames
  <2>1. at' = at /\ pc = "renames" /\ pc' = "closing" /\ \E s : mem' = [mem EXCEPT !.state = s]
    BY <1>17 DEF EndRenames, Persist, diskVars
  <2> QED
    BY <2>1, <1>s DEF Runs
<1>18. CASE Close
  BY <1>18, <1>t, <1>n, <1>b DEF Close, diskVars, txnVars, jobVars, Persist, Fault, Runs
<1>19. CASE RemoveJournal
  BY <1>19, <1>t, <1>n, <1>b DEF RemoveJournal, diskVars, txnVars, jobVars, Retire, Fault, Runs
<1>20. CASE FinalizeManifest
  BY <1>20, <1>t, <1>n, <1>b DEF FinalizeManifest, diskVars, txnVars, jobVars, WorkEnds, EndTxn, Fault,
     Runs
<1>21. CASE Seal
  BY <1>21, <1>t, <1>n, <1>b DEF Seal, diskVars, WorkEnds, EndTxn, Fault, Runs
<1>22. CASE BeginRecovery
  BY <1>22 DEF BeginRecovery, diskVars
<1>23. CASE RecoveryComponent
  BY <1>23, <1>t, <1>n, <1>b DEF RecoveryComponent, diskVars, EndTxn, Runs
<1>24. CASE BeginRestore
  BY <1>24, <1>t, <1>n, <1>b DEF BeginRestore, diskVars, txnVars, jobVars, Runs
<1>25. ASSUME NEW f \in File, Restore(f) PROVE G
  BY <1>25, <1>t, <1>n, <1>b DEF Restore, txnVars, Fault, Runs
<1>26. CASE EndRecovery
  BY <1>26, <1>t, <1>n, <1>b DEF EndRecovery, diskVars, Retire, WorkEnds, EndTxn, Fault, Runs
<1>27. CASE Reconcile
  BY <1>27, <1>t, <1>n, <1>b DEF Reconcile, diskVars, txnVars, jobVars, Retire, Fault, Runs
<1>28. CASE Forget \/ Cancel \/ Rest \/ UNCHANGED vars
  BY <1>28, <1>t, <1>n, <1>b DEF Forget, diskVars, txnVars, jobVars, Retire, Fault, Runs, Cancel, Rest,
     vars
<1>30. CASE Crash
  BY <1>30, <1>t, <1>n, <1>b DEF Crash, diskVars, WorkEnds, EndTxn, Runs
<1>31. CASE Meddle
  BY <1>31, <1>t, <1>n, <1>b DEF Meddle, txnVars, jobVars, Runs
<1>34. CASE Look
  BY <1>34, <1>t, <1>n, <1>b DEF Look, diskVars, txnVars, Runs
<1> QED
  BY <1>1, <1>2, <1>3, <1>4, <1>5, <1>6, <1>7, <1>8, <1>9, <1>10, <1>11, <1>12, <1>13,
     <1>14, <1>15, <1>16, <1>17, <1>18, <1>19, <1>20, <1>21, <1>22, <1>23, <1>24, <1>25,
     <1>26, <1>27, <1>28, <1>30, <1>31, <1>34 DEF Next, TxnStep, ApplyStep, RecoveryStep

(* A move, or its undoing, takes the file of its ledger entry.             *)
LEMMA Moves ==
    ASSUME Typed, Underway, Ledgers, Apart(mem), MoveFile \/ RollBackMove, at' # at
    PROVE  \E i \in 1 .. Len(mem.ledger), s, d \in Path :
                /\ mem.ledger[i].owner \in members /\ at[s] = mem.ledger[i].owner
                /\ Open(d) /\ s # d
                /\ at' = [at EXCEPT ![d] = at[s], ![s] = Nobody]
                /\ \/ /\ MoveFile /\ i = Len(mem.ledger)
                      /\ s = mem.ledger[i].src /\ d = mem.ledger[i].dst
                   \/ /\ RollBackMove /\ moved # <<>> /\ i = Last(moved)
                      /\ s = mem.ledger[i].dst /\ d = mem.ledger[i].src
<1>t. /\ TypeOK /\ mem.ledger \in Seq(Entry) /\ moved \in Seq(1 .. Len(mem.ledger))
      /\ members \subseteq File /\ Nobody \notin File
  BY FilesAssumption DEF Typed, TypeOK, Journal
<1>1. CASE MoveFile
  <2>1. Len(mem.ledger) \in 1 .. Len(mem.ledger) /\ pc = "move"
    BY <1>1, <1>t DEF Typed, Quiet, MoveFile
  <2>2. Noted.src \in Path /\ Noted.dst \in Path
    BY <2>1, <1>t, EntryTyped DEF Noted
  <2>3. at[Noted.src] = Noted.owner /\ Noted.owner \in members
    BY <2>1 DEF Underway
  <2>4. clear /\ at' = [at EXCEPT ![Noted.dst] = at[Noted.src], ![Noted.src] = Nobody]
    BY <1>1 DEF MoveFile, Noted
  <2>5. Open(Noted.dst)
    BY <2>1, <2>4 DEF Typed, Looked, Noted
  <2>6. Noted.src # Noted.dst
    BY <2>3, <2>5, <1>t, FilesAssumption DEF Open
  <2> QED
    BY <1>1, <2>1, <2>2, <2>3, <2>4, <2>5, <2>6, <1>t DEF Noted
<1>2. CASE RollBackMove
  <2> DEFINE i == Last(moved)
             e == mem.ledger[i]
  <2>1. /\ moved # <<>> /\ Len(moved) \in 1 .. Len(moved) /\ i = moved[Len(moved)]
    BY <1>2, <1>t, FrontOf DEF RollBackMove
  <2>2. i \in 1 .. Len(mem.ledger) /\ e = Ledgered(Len(moved))
    BY <2>1, <1>t DEF Ledgered
  <2>3. e.src \in Path /\ e.dst \in Path /\ e.owner \in members
    BY <2>1, <2>2, <1>t, EntryTyped DEF Ledgers
  <2>a. /\ clear /\ at' = [at EXCEPT ![e.src] = at[e.dst], ![e.dst] = Nobody]
    BY <1>2 DEF RollBackMove
  <2>b. Open(e.src) /\ at[e.dst] # Nobody
    BY <1>2, <2>a DEF RollBackMove, Typed, Looked
  <2>4. /\ e.dst \in Taken
        /\ at' = [at EXCEPT ![e.src] = at[e.dst], ![e.dst] = Nobody]
    BY <2>3, <2>a, <2>b DEF Taken
  <2>5. at[e.dst] = e.owner
    <3>1. CASE e.dst \in Temps
      <4>1. e.dst \in Temp(e) /\ at[e.dst] # Nobody
        BY <3>1, <2>4 DEF Temp, Taken
      <4> QED
        BY <4>1, <2>2 DEF Apart
    <3>2. CASE e.dst \notin Temps
      BY <3>2, <2>1, <2>2 DEF Ledgers
    <3> QED
      BY <3>1, <3>2
  <2>6. Open(e.src) /\ e.src # e.dst
    BY <2>3, <2>5, <2>b, <1>t, FilesAssumption DEF Open
  <2> QED
    BY <1>2, <2>1, <2>2, <2>3, <2>4, <2>5, <2>6
<1> QED
  BY <1>1, <1>2

(* A step to be noted over a temporary name goes to a free one.            *)
LEMMA DetourIsFresh ==
    ASSUME Typed, Underway, pc = "intent", NEW s \in Steps(moves, FreshTemps),
           s.step.dst \in Temps
    PROVE  s.step.dst \in FreshTemps
<1>1. s.step \in moves \/ s.step.dst \in FreshTemps
  <2>1. \A m \in moves : m \in [owner : File, src : Path, dst : Path]
    BY DEF Typed, TypeOK
  <2> QED
    BY <2>1 DEF Steps, Free
<1>2. ASSUME s.step \in moves PROVE FALSE
  <2>1. s.step.dst = Goal(s.step.owner) /\ s.step.owner \in File
    BY <1>2 DEF Underway, Typed, TypeOK
  <2> QED
    BY <2>1, PathsAssumption DEF Goal
<1> QED
  BY <1>1, <1>2

(* No temporary name is used for two files: the renames of a component take *)
(* a new one for each detour, and go back by the same.                     *)
LEMMA ApartStep ==
    ASSUME Typed, Underway, Ledgers, Apart(mem), Carrying
    PROVE  Apart(mem)'
<1>t. /\ TypeOK /\ mem.ledger \in Seq(Entry) /\ members \subseteq File /\ Nobody \notin File
      /\ at \in [Path -> File \cup {Nobody, Stranger}]
  BY FilesAssumption DEF Typed, TypeOK, Journal
<1>o. /\ Len(mem.ledger) \in Nat /\ Len(mem.ledger) <= Len(mem'.ledger)
      /\ \A i \in 1 .. Len(mem.ledger) :
            /\ mem.ledger[i].owner \in File
            /\ mem'.ledger[i].owner = mem.ledger[i].owner
            /\ Temp(mem'.ledger[i]) = Temp(mem.ledger[i])
  BY <1>t, LedgerKept, EntryTyped DEF Temp
<1>1. CASE ~Intend /\ at' = at
  <2>1. Len(mem'.ledger) = Len(mem.ledger)
    BY <1>1, LedgerKept
  <2> QED
    BY <1>1, <2>1, <1>o DEF Apart
<1>2. CASE ~Intend /\ at' # at
  <2>0. Len(mem'.ledger) = Len(mem.ledger)
    BY <1>2, LedgerKept
  <2>1. MoveFile \/ RollBackMove
    BY <1>2 DEF Carrying, Intend, NoteMove, NoteRollback, NoteAgain, diskVars
  <2>2. PICK i \in 1 .. Len(mem.ledger), s, d \in Path :
            /\ mem.ledger[i].owner \in members /\ at[s] = mem.ledger[i].owner
            /\ s # d
            /\ at' = [at EXCEPT ![d] = at[s], ![s] = Nobody]
            /\ {s, d} = {mem.ledger[i].src, mem.ledger[i].dst}
    BY <2>1, <1>2, Moves
  <2>3. at'[s] = Nobody /\ at'[d] = mem.ledger[i].owner /\ \A x \in Path : x # s /\ x # d => at'[x] = at[x]
    BY <2>2, <1>t
  <2>4. ASSUME NEW k \in 1 .. Len(mem.ledger), NEW t \in Temp(mem.ledger[k])
        PROVE  at'[t] \in {mem.ledger[k].owner, Nobody}
    <3>1. t \in Path
      BY <1>t, EntryTyped DEF Temp
    <3>2. t = d => t \in Temp(mem.ledger[i])
      BY <2>2 DEF Temp
    <3>3. t = d => mem.ledger[k].owner = mem.ledger[i].owner
      BY <3>2 DEF Apart
    <3>4. at[t] \in {mem.ledger[k].owner, Nobody}
      BY DEF Apart
    <3> QED
      BY <2>3, <3>1, <3>3, <3>4
  <2>5. ASSUME NEW k \in 1 .. Len(mem.ledger), NEW l \in 1 .. Len(mem.ledger),
               Temp(mem.ledger[k]) \cap Temp(mem.ledger[l]) # {}
        PROVE  mem.ledger[k].owner = mem.ledger[l].owner
    BY <2>5 DEF Apart
  <2> QED
    BY <2>0, <2>4, <2>5, <1>o DEF Apart
<1>3. CASE Intend
  <2> DEFINE n == Len(mem.ledger) + 1
  <2>1. at' = at /\ pc = "intent"
    BY <1>3 DEF Intend, diskVars
  <2>2. PICK s \in Steps(moves, FreshTemps) :
            /\ Len(mem'.ledger) = n
            /\ mem'.ledger[n].owner = s.step.owner
            /\ mem'.ledger[n].src = s.step.src
            /\ mem'.ledger[n].dst = s.step.dst
    BY <1>3, LedgerKept
  <2>3. at[s.step.src] = s.step.owner /\ s.step.owner \in File
    BY <2>1, <1>t, NextStep
  <2>4. s.step.dst \in Temps =>
            /\ at[s.step.dst] = Nobody
            /\ \A k \in 1 .. Len(mem.ledger) : s.step.dst \notin Temp(mem.ledger[k])
    <3> SUFFICES ASSUME s.step.dst \in Temps
                 PROVE  /\ at[s.step.dst] = Nobody
                        /\ \A k \in 1 .. Len(mem.ledger) : s.step.dst \notin Temp(mem.ledger[k])
      OBVIOUS
    <3>1. s.step.dst \in FreshTemps /\ s.step.dst \in Path
      BY <2>1, DetourIsFresh, FilesAssumption
    <3>2. DOMAIN mem.ledger = 1 .. Len(mem.ledger)
      BY <1>t
    <3> QED
      BY <3>1, <3>2 DEF FreshTemps, Taken, Temp
  <2> DEFINE T == Temp(mem'.ledger[n])
  <2>5. T = {s.step.src, s.step.dst} \cap Temps
    BY <2>2 DEF Temp
  <2>6. \A t \in T : at[t] \in {s.step.owner, Nobody}
    BY <2>3, <2>4, <2>5
  <2>7. \A k \in 1 .. Len(mem.ledger) : T \cap Temp(mem.ledger[k]) # {} => mem.ledger[k].owner = s.step.owner
    <3> SUFFICES ASSUME NEW k \in 1 .. Len(mem.ledger), NEW t \in T, t \in Temp(mem.ledger[k])
                 PROVE  mem.ledger[k].owner = s.step.owner
      OBVIOUS
    <3>1. t = s.step.src
      BY <2>4, <2>5
    <3>2. at[t] \in {mem.ledger[k].owner, Nobody}
      BY DEF Apart
    <3> QED
      BY <3>1, <3>2, <2>3, <1>t
  <2>8. \A k \in 1 .. Len(mem.ledger) : /\ \A t \in Temp(mem.ledger[k]) : at[t] \in {mem.ledger[k].owner, Nobody}
                                       /\ \A l \in 1 .. Len(mem.ledger) :
              Temp(mem.ledger[k]) \cap Temp(mem.ledger[l]) # {} => mem.ledger[k].owner = mem.ledger[l].owner
    BY DEF Apart
  <2>9. \A k \in 1 .. n : k = n \/ k \in 1 .. Len(mem.ledger)
    BY <1>o
  <2>10. ASSUME NEW k \in 1 .. n
         PROVE  /\ \A t \in Temp(mem'.ledger[k]) : at'[t] \in {mem'.ledger[k].owner, Nobody}
                /\ \A l \in 1 .. n :
                      Temp(mem'.ledger[k]) \cap Temp(mem'.ledger[l]) # {}
                        => mem'.ledger[k].owner = mem'.ledger[l].owner
    <3> HIDE DEF T, n
    <3>1. CASE k = n
      <4>1. Temp(mem'.ledger[k]) = T /\ mem'.ledger[k].owner = s.step.owner
        BY <3>1, <2>2 DEF T
      <4>2. \A l \in 1 .. Len(mem.ledger) : mem'.ledger[l].owner = mem.ledger[l].owner
                                          /\ Temp(mem'.ledger[l]) = Temp(mem.ledger[l])
        BY <1>o
      <4> QED
        BY <4>1, <4>2, <2>1, <2>2, <2>6, <2>7, <2>9, <3>1
    <3>2. CASE k \in 1 .. Len(mem.ledger)
      <4>1. \A l \in 1 .. Len(mem.ledger) : mem'.ledger[l].owner = mem.ledger[l].owner
                                          /\ Temp(mem'.ledger[l]) = Temp(mem.ledger[l])
        BY <1>o
      <4>2. \A l \in 1 .. n : Temp(mem.ledger[k]) \cap Temp(mem'.ledger[l]) # {}
                        => mem.ledger[k].owner = mem'.ledger[l].owner
        BY <4>1, <3>2, <2>2, <2>7, <2>8, <2>9 DEF T
      <4> QED
        BY <4>1, <4>2, <3>2, <2>1, <2>8
    <3> QED
      BY <3>1, <3>2, <2>9
  <2> QED
    BY <2>2, <2>10 DEF Apart
<1> QED
  BY <1>1, <1>2, <1>3

(* The journal on disk is the worker's, or one it has gone on from.        *)
LEMMA TemporaryStep ==
    Typed /\ Phases /\ Underway /\ Ledgers /\ Temporary /\ [Next]_vars => Temporary'
<1> SUFFICES ASSUME Typed, Phases, Underway, Ledgers, Temporary, [Next]_vars PROVE Temporary'
  OBVIOUS
<1>t. /\ TypeOK /\ mem.ledger \in Seq(Entry) /\ log.ledger \in Seq(Entry)
      /\ Apart(log) /\ Apart(mem) /\ Grown /\ log \in Journal /\ mem \in Journal
  BY DEF Typed, TypeOK, Journal, Temporary
<1>n. NoJournal.ledger = <<>> /\ Len(NoJournal.ledger) = 0 /\ 1 .. 0 = {}
  BY DEF NoJournal
<1>d. ASSUME NEW j \in Journal, UNCHANGED at \/ Meddle, Apart(j)
      PROVE  \A i \in 1 .. Len(j.ledger) :
                /\ \A t \in Temp(j.ledger[i]) : at'[t] \in {j.ledger[i].owner, Nobody}
                /\ \A k \in 1 .. Len(j.ledger) :
                    Temp(j.ledger[i]) \cap Temp(j.ledger[k]) # {} => j.ledger[i].owner = j.ledger[k].owner
  <2>1. \A t \in Temps : at'[t] = at[t]
    BY <1>d, <1>t, FilesAssumption DEF Meddle, TypeOK
  <2> QED
    BY <1>d, <2>1 DEF Apart, Temp
<1>1. CASE Carrying
  <2>1. Apart(mem)'
    BY <1>1, <1>t, ApartStep
  <2>2. pc \in Renaming /\ Runs
    BY <1>1 DEF Carrying, Intend, MoveFile, NoteMove, RollBackMove, NoteRollback, NoteAgain, Renaming,
       Runs
  <2>3. log' \in {log, mem'} /\ (pc' = "move" => log' = mem')
    <3>1. CASE Intend \/ MoveFile \/ RollBackMove
      BY <3>1, <2>2, TxnJournal DEF Intend, MoveFile, RollBackMove
    <3>2. CASE NoteMove \/ NoteRollback \/ NoteAgain
      BY <3>2 DEF NoteMove, NoteRollback, NoteAgain, Persist
    <3> QED
      BY <3>1, <3>2, <1>1 DEF Carrying
  <2>4. /\ Len(log.ledger) <= Len(mem'.ledger) /\ Len(log.ledger) \in Nat /\ Len(mem'.ledger) \in Nat
        /\ \A i \in 1 .. Len(log.ledger) : /\ i \in 1 .. Len(mem'.ledger)
                                           /\ log.ledger[i].owner = mem'.ledger[i].owner
                                           /\ log.ledger[i].src = mem'.ledger[i].src
                                           /\ log.ledger[i].dst = mem'.ledger[i].dst
    BY <1>1, <1>t, <2>2, LedgerKept DEF Grown
  <2>5. CASE log' = mem'
    <3>1. Apart(log)'
      BY <2>1, <2>5 DEF Apart
    <3>2. Grown'
      BY <2>4, <2>5 DEF Grown
    <3> QED
      BY <2>1, <2>5, <3>1, <3>2 DEF Temporary
  <2>6. CASE log' = log
    <3>1. \A i \in 1 .. Len(log.ledger) : Temp(log.ledger[i]) = Temp(mem'.ledger[i])
      BY <2>4 DEF Temp
    <3>2. Apart(log)'
      <4>1. \A i \in 1 .. Len(log.ledger) :
              /\ \A t \in Temp(mem'.ledger[i]) : at'[t] \in {mem'.ledger[i].owner, Nobody}
              /\ \A k \in 1 .. Len(log.ledger) :
                    Temp(mem'.ledger[i]) \cap Temp(mem'.ledger[k]) # {}
                        => mem'.ledger[i].owner = mem'.ledger[k].owner
        BY <2>1, <2>4 DEF Apart
      <4>2. \A i \in 1 .. Len(log.ledger) :
              /\ \A t \in Temp(log.ledger[i]) : at'[t] \in {log.ledger[i].owner, Nobody}
              /\ \A k \in 1 .. Len(log.ledger) :
                    Temp(log.ledger[i]) \cap Temp(log.ledger[k]) # {}
                        => log.ledger[i].owner = log.ledger[k].owner
        BY <2>4, <3>1, <4>1
      <4> QED
        BY <2>6, <4>2 DEF Apart
    <3>3. Grown'
      BY <2>4, <2>6 DEF Grown
    <3> QED
      BY <2>1, <2>3, <3>2, <3>3 DEF Temporary
  <2> QED
    BY <2>3, <2>5, <2>6
<1>2. CASE ~Carrying
  <2>1. UNCHANGED at \/ Meddle
    BY <1>2, LedgerSteps
  <2>2. /\ \/ mem'.ledger = mem.ledger /\ (Runs' => Runs)
           \/ BeginRecovery
           \/ mem'.ledger = <<>> /\ (pc' = "idle" \/ BeginApply)
        /\ pc' = "move" => UNCHANGED <<pc, log, mem>>
    BY <1>2, LedgerSteps
  <2>3. Apart(mem)'
    <3>1. CASE mem'.ledger = mem.ledger
      <4>1. \A i \in 1 .. Len(mem.ledger) :
                /\ \A t \in Temp(mem.ledger[i]) : at'[t] \in {mem.ledger[i].owner, Nobody}
                /\ \A k \in 1 .. Len(mem.ledger) :
                    Temp(mem.ledger[i]) \cap Temp(mem.ledger[k]) # {} => mem.ledger[i].owner = mem.ledger[k].owner
        BY <2>1, <1>d, <1>t
      <4> QED
        BY <3>1, <4>1 DEF Apart
    <3>2. CASE BeginRecovery
      <4>1. mem' = log
        BY <3>2 DEF BeginRecovery
      <4>2. \A i \in 1 .. Len(log.ledger) :
                /\ \A t \in Temp(log.ledger[i]) : at'[t] \in {log.ledger[i].owner, Nobody}
                /\ \A k \in 1 .. Len(log.ledger) :
                    Temp(log.ledger[i]) \cap Temp(log.ledger[k]) # {} => log.ledger[i].owner = log.ledger[k].owner
        BY <2>1, <1>d, <1>t
      <4> QED
        BY <4>1, <4>2 DEF Apart
    <3>3. CASE mem'.ledger = <<>>
      <4>1. 1 .. Len(mem'.ledger) = {}
        BY <3>3
      <4> QED
        BY <4>1 DEF Apart
    <3> QED
      BY <2>2, <3>1, <3>2, <3>3
  <2>4. Apart(log)'
    <3>1. CASE log' = log
      <4>1. \A i \in 1 .. Len(log.ledger) :
                /\ \A t \in Temp(log.ledger[i]) : at'[t] \in {log.ledger[i].owner, Nobody}
                /\ \A k \in 1 .. Len(log.ledger) :
                    Temp(log.ledger[i]) \cap Temp(log.ledger[k]) # {} => log.ledger[i].owner = log.ledger[k].owner
        BY <2>1, <1>d, <1>t
      <4> QED
        BY <3>1, <4>1 DEF Apart
    <3>2. CASE log' = mem'
      BY <3>2, <2>3 DEF Apart
    <3>3. CASE log' = NoJournal
      BY <3>3, <1>n DEF Apart
    <3> QED
      BY <3>1, <3>2, <3>3, LogSteps
  <2>5. Grown'
    <3> SUFFICES ASSUME Runs' PROVE Grown'
      BY DEF Grown
    <3>0. Len(mem'.ledger) \in Nat
      BY JournalsTyped DEF Journal
    <3>1. CASE log' = mem'
      BY <3>0, <3>1 DEF Grown
    <3>2. CASE log' = NoJournal
      BY <3>0, <3>2, <1>n DEF Grown
    <3>3. CASE log' = log
      <4>1. CASE mem'.ledger = mem.ledger /\ Runs
        BY <4>1, <3>3, <1>t DEF Grown
      <4>2. CASE BeginRecovery
        BY <4>2, <3>1 DEF BeginRecovery
      <4>3. CASE BeginApply
        <5>1. log = NoJournal
          BY <4>3 DEF BeginApply, Phases, InSetup
        <5> QED
          BY <5>1, <3>2, <3>3
      <4> QED
        BY <2>2, <4>1, <4>2, <4>3 DEF Runs
    <3> QED
      BY <3>1, <3>2, <3>3, LogSteps
  <2> QED
    BY <2>2, <2>3, <2>4, <2>5 DEF Temporary
<1> QED
  BY <1>1, <1>2

(* Which entries of the ledger a rename marks, and how.                    *)
LEMMA EntryStates ==
    ASSUME Typed, Carrying
    PROVE  /\ \A i \in 1 .. Len(mem.ledger) :
                \/ mem'.ledger[i].state = mem.ledger[i].state
                \/ MoveFile /\ i = Len(mem.ledger)
                \/ RollBackMove /\ moved # <<>> /\ i = Last(moved)
           /\ Intend => mem'.ledger[Len(mem.ledger) + 1].state = IF pc' = "move" THEN "intent" ELSE "rolled_back"
           /\ MoveFile => mem'.ledger[Len(mem.ledger)].state =
                            IF moved' = moved THEN "rolled_back" ELSE "completed"
           /\ MoveFile /\ at' # at => mem'.ledger[Len(mem.ledger)].state = "completed"
           /\ RollBackMove =>
                \/ mem'.ledger[Last(moved)].state = "unresolved"
                \/ /\ mem'.ledger[Last(moved)].state = "rolled_back"
                   /\ mem.ledger[Last(moved)].dst \notin Taken \/ at' # at
           /\ RollBackMove /\ at' # at => mem'.ledger[Last(moved)].state = "rolled_back"
<1>t. /\ TypeOK /\ mem \in Journal /\ mem.ledger \in Seq(Entry) /\ moved \in Seq(1 .. Len(mem.ledger))
      /\ Len(mem.ledger) \in Nat
  <2>1. TypeOK /\ mem \in Journal /\ moved \in Seq(1 .. Len(mem.ledger))
    BY DEF Typed, TypeOK
  <2>2. mem.ledger \in Seq(Entry)
    BY <2>1 DEF Journal
  <2> QED
    BY <2>1, <2>2
<1>s. ASSUME NEW j \in Journal, NEW i \in 1 .. Len(j.ledger), NEW w
      PROVE  /\ InState(j, i, w).ledger[i].state = w
             /\ \A k \in 1 .. Len(j.ledger) : k # i => InState(j, i, w).ledger[k] = j.ledger[k]
  <2>1. j.ledger \in Seq(Entry) /\ j.ledger[i] \in Entry
    BY DEF Journal
  <2>2. InState(j, i, w).ledger = [j.ledger EXCEPT ![i] = [j.ledger[i] EXCEPT !.state = w]]
    BY DEF InState, Journal
  <2>3. [j.ledger[i] EXCEPT !.state = w].state = w
    BY <2>1 DEF Entry
  <2> QED
    BY <2>1, <2>2, <2>3
<1>1. CASE Intend
  <2>1. PICK s \in Steps(moves, FreshTemps) :
          LET e == [owner |-> s.step.owner, src |-> s.step.src, dst |-> s.step.dst, state |-> "intent"]
              j == [mem EXCEPT !.ledger = Append(@, e)]
          IN  \/ mem' = j /\ pc' = "move"
              \/ mem' = InState(j, Len(j.ledger), "rolled_back") /\ pc' = "rollback"
    BY <1>1 DEF Intend
  <2> DEFINE e == [owner |-> s.step.owner, src |-> s.step.src, dst |-> s.step.dst, state |-> "intent"]
             j == [mem EXCEPT !.ledger = Append(@, e)]
  <2>2. e \in Entry /\ e.state = "intent"
    BY StepsTyped, <1>t DEF Entry, TypeOK
  <2>4. \/ mem' = j /\ pc' = "move"
        \/ mem' = InState(j, Len(j.ledger), "rolled_back") /\ pc' = "rollback"
    BY <2>1 DEF InState
  <2> HIDE DEF e
  <2>3. j \in Journal /\ j.ledger = Append(mem.ledger, e)
    <3>1. j \in Journal
      BY <2>2, <1>t, JournalStep
    <3> QED
      BY <3>1, <1>t DEF Journal
  <2> HIDE DEF j
  <2>5. /\ Len(j.ledger) = Len(mem.ledger) + 1 /\ Len(j.ledger) \in 1 .. Len(j.ledger)
        /\ j.ledger[Len(j.ledger)] = e
        /\ \A k \in 1 .. Len(mem.ledger) : j.ledger[k] = mem.ledger[k]
    BY <2>2, <2>3, <1>t
  <2>6. /\ \A k \in 1 .. Len(mem.ledger) : mem'.ledger[k] = mem.ledger[k]
        /\ mem'.ledger[Len(mem.ledger) + 1].state = IF pc' = "move" THEN "intent" ELSE "rolled_back"
    <3>1. CASE mem' = j /\ pc' = "move"
      BY <3>1, <2>2, <2>5
    <3>2. CASE mem' = InState(j, Len(j.ledger), "rolled_back") /\ pc' = "rollback"
      <4>1. /\ mem'.ledger[Len(j.ledger)].state = "rolled_back"
            /\ \A k \in 1 .. Len(j.ledger) : k # Len(j.ledger) => mem'.ledger[k] = j.ledger[k]
        BY <3>2, <2>3, <2>5, <1>s
      <4> QED
        <5>1. \A k \in 1 .. Len(mem.ledger) : k \in 1 .. Len(j.ledger) /\ k # Len(j.ledger)
          BY <2>5, <1>t
        <5>2. \A k \in 1 .. Len(mem.ledger) : mem'.ledger[k] = mem.ledger[k]
          BY <5>1, <4>1, <2>5
        <5> QED
          BY <3>2, <4>1, <5>2, <2>5
    <3> QED
      BY <2>4, <3>1, <3>2
  <2>7. ~MoveFile /\ ~RollBackMove
    BY <1>1 DEF Intend, MoveFile, RollBackMove
  <2> QED
    BY <2>6, <2>7
<1>2. CASE MoveFile
  <2>1. Len(mem.ledger) \in 1 .. Len(mem.ledger) /\ pc = "move"
    BY <1>2, <1>t DEF Typed, Quiet, MoveFile
  <2>2. \/ mem' = InState(mem, Len(mem.ledger), "completed") /\ moved' = Append(moved, Len(mem.ledger))
        \/ mem' = InState(mem, Len(mem.ledger), "rolled_back") /\ moved' = moved /\ at' = at
    BY <1>2 DEF MoveFile
  <2>3. Append(moved, Len(mem.ledger)) # moved
    BY <1>t, <2>1
  <2>4. ~Intend /\ ~RollBackMove
    BY <2>1 DEF Intend, RollBackMove
  <2>5. \A w : /\ InState(mem, Len(mem.ledger), w).ledger[Len(mem.ledger)].state = w
              /\ \A k \in 1 .. Len(mem.ledger) :
                    k # Len(mem.ledger) => InState(mem, Len(mem.ledger), w).ledger[k] = mem.ledger[k]
    BY <2>1, <1>t, <1>s
  <2> QED
    BY <2>1, <2>2, <2>3, <2>4, <2>5, <1>2
<1>3. CASE RollBackMove
  <2>1. moved # <<>> /\ Last(moved) \in 1 .. Len(mem.ledger) /\ pc = "rollback"
    BY <1>3, <1>t, FrontOf DEF RollBackMove
  <2>2. \/ mem' = InState(mem, Last(moved), "unresolved") /\ at' = at
        \/ mem' = InState(mem, Last(moved), "rolled_back") /\ mem.ledger[Last(moved)].dst \notin Taken
        \/ /\ mem' = InState(mem, Last(moved), "rolled_back")
           /\ clear
           /\ at' = [at EXCEPT ![mem.ledger[Last(moved)].src] = at[mem.ledger[Last(moved)].dst],
                               ![mem.ledger[Last(moved)].dst] = Nobody]
    BY <1>3 DEF RollBackMove
  <2>3. \/ mem' = InState(mem, Last(moved), "unresolved") /\ at' = at
        \/ /\ mem' = InState(mem, Last(moved), "rolled_back")
           /\ mem.ledger[Last(moved)].dst \notin Taken \/ at' # at
    <3>1. mem.ledger[Last(moved)].dst \in Path
      BY <2>1, <1>t, EntryTyped
    <3>2. DOMAIN at = Path
      BY <1>t DEF TypeOK
    <3>3. clear => /\ at[mem.ledger[Last(moved)].dst] # Nobody
                   /\ at[mem.ledger[Last(moved)].src] \in {Nobody, Stranger}
      BY <2>1 DEF Typed, Looked, Open
    <3>4. CASE clear /\ mem.ledger[Last(moved)].src # mem.ledger[Last(moved)].dst
      BY <2>2, <3>1, <3>2, <3>3, <3>4
    <3>5. CASE clear /\ mem.ledger[Last(moved)].src = mem.ledger[Last(moved)].dst
      BY <2>2, <3>1, <3>2, <3>3, <3>5
    <3> QED
      BY <2>2, <3>4, <3>5
  <2>4. ~Intend /\ ~MoveFile
    BY <2>1 DEF Intend, MoveFile
  <2> QED
    BY <2>1, <2>3, <2>4, <1>3, <1>s, <1>t
<1>4. CASE NoteMove \/ NoteRollback \/ NoteAgain
  <2>1. mem' = mem /\ pc \in {"moved", "rollback", "rolled"} /\ (RollBackMove => moved # <<>>)
    BY <1>4 DEF NoteMove, NoteRollback, NoteAgain, Persist, RollBackMove
  <2>2. ~Intend /\ ~MoveFile
    BY <2>1 DEF Intend, MoveFile
  <2>3. ~RollBackMove
    <3>1. NoteMove \/ NoteAgain => pc # "rollback"
      BY DEF NoteMove, NoteAgain
    <3>2. NoteRollback => moved = <<>>
      BY DEF NoteRollback
    <3> QED
      BY <1>4, <2>1, <3>1, <3>2 DEF RollBackMove
  <2> QED
    BY <2>1, <2>2, <2>3
<1> QED
  BY <1>1, <1>2, <1>3, <1>4 DEF Carrying
(* What an entry of the ledger says of its file: that it is where the move *)
(* took it, or where that would have, unless it was on a detour.           *)
Holds(a, e) ==
    \/ e.state = "completed" /\ a[e.dst] = e.owner
    \/ e.state = "rolled_back" /\ (a[e.src] = e.owner \/ e.src \in Temps)
    \/ e.state = "intent" /\ (a[e.src] = e.owner \/ a[e.dst] = e.owner)
    \/ e.state = "unresolved"

(* A journal tells of each file where it is, by the last entry it has for  *)
(* it: the file is at home if it has none.                                 *)
LastOf(j, i, f) ==
    /\ j.ledger[i].owner = f
    /\ \A k \in 1 .. Len(j.ledger) : j.ledger[k].owner = f => k <= i
Tells(a, j) ==
    \A f \in File :
        \/ a[Home[f]] = f /\ \A i \in 1 .. Len(j.ledger) : j.ledger[i].owner # f
        \/ \E i \in 1 .. Len(j.ledger) : LastOf(j, i, f) /\ Holds(a, j.ledger[i])

(* What the worker has done of the component under way is in the journal   *)
(* on disk as a move done, or as one that was noted last. What came after  *)
(* it is done as well, or being done, or has been taken back; and a file   *)
(* moved twice was on a detour.                                            *)
Trail ==
    /\ \A k, l \in 1 .. Len(moved) : k < l => moved[k] < moved[l]
    /\ \A k \in 1 .. Len(moved) :
        /\ Ledgered(k).state = "completed"
        /\ \A i \in 1 .. Len(mem.ledger) : moved[k] < i =>
            /\ \/ \E l \in 1 .. Len(moved) : moved[l] = i
               \/ pc = "move" /\ i = Len(mem.ledger)
               \/ pc = "rollback" /\ mem.ledger[i].state \in {"rolled_back", "unresolved"}
            /\ mem.ledger[i].owner = Ledgered(k).owner => mem.ledger[i].src \in Temps
        /\ pc \in {"intent", "move", "moved"} =>
            \A m \in moves : m.owner = Ledgered(k).owner => m.src \in Temps
        /\ moved[k] <= Len(log.ledger)
        /\ \/ log.ledger[moved[k]].state = "completed"
           \/ log.ledger[moved[k]].state = "intent" /\ moved[k] = Len(log.ledger)
    /\ pc = "move" => Noted.state = "intent"

(* As long as no rollback was lost, the journals tell where the files are, *)
(* but for one on disk that a rollback has not reached yet.                *)
Traced == ~torn =>
    /\ Trail
    /\ Runs => Tells(at, mem)
    /\ Offered /\ ~Untold => Tells(at, log)
    /\ ~Runs => mem.ledger = <<>>

(* The worker ends before it has done anything, or drops its journal.      *)
LEMMA Endings ==
    ASSUME Typed, [Next]_vars, pc' \in {"new", "idle"}
    PROVE  \/ pc' = pc
           \/ pc \in Setup /\ pc' = "idle"
           \/ mem' = NoJournal /\ torn' = (torn \/ Untold)
<1> DEFINE G == \/ pc' = pc
                \/ pc \in Setup /\ pc' = "idle"
                \/ mem' = NoJournal /\ torn' = (torn \/ Untold)
<1>1. ASSUME NEW C \in plan, BeginComponent(C) PROVE G
  BY <1>1 DEF BeginComponent, vars, Setup
<1>2. CASE Intend
  BY <1>2 DEF Intend, vars, Setup
<1>3. CASE MoveFile
  BY <1>3 DEF MoveFile, vars, Setup
<1>4. CASE NoteMove
  BY <1>4 DEF NoteMove, Persist, vars, Setup
<1>5. CASE RollBackMove
  BY <1>5 DEF RollBackMove, vars, Setup
<1>6. CASE NoteRollback
  BY <1>6 DEF NoteRollback, Persist, vars, Setup
<1>7. CASE NoteAgain
  BY <1>7 DEF NoteAgain, Persist, vars, Setup
<1>8. CASE BeginApply
  BY <1>8 DEF BeginApply, Persist, vars, Setup
<1>9. CASE WriteManifest
  BY <1>9 DEF WriteManifest, BackupFails, vars, Setup
<1>10. CASE WriteBinding
  BY <1>10 DEF WriteBinding, BackupFails, vars, Setup
<1>11. CASE Abort
  BY <1>11 DEF Abort, Persist, vars, Setup
<1>12. CASE StartApplying
  BY <1>12 DEF StartApplying, Persist, vars, Setup
<1>13. ASSUME NEW f \in File, WriteTags(f) PROVE G
  BY <1>13 DEF WriteTags, vars, Setup
<1>14. CASE Note
  BY <1>14 DEF Note, Persist, vars, Setup
<1>15. CASE StopWriting
  BY <1>15 DEF StopWriting, Persist, vars, Setup
<1>16. CASE ApplyComponent
  <2>1. pc' \in {"renames", "closing"}
    BY <1>16 DEF ApplyComponent, Persist, Typed, TypeOK
  <2> QED
    BY <2>1
<1>17. CASE EndRenames
  BY <1>17 DEF EndRenames, Persist, vars, Setup
<1>18. CASE Close
  BY <1>18 DEF Close, Persist, vars, Setup
<1>19. CASE RemoveJournal
  BY <1>19 DEF RemoveJournal, Retire, vars, Setup
<1>20. CASE FinalizeManifest
  BY <1>20 DEF FinalizeManifest, WorkEnds, vars, Setup
<1>21. CASE Seal
  BY <1>21 DEF Seal, WorkEnds, vars, Setup
<1>22. CASE BeginRecovery
  BY <1>22 DEF BeginRecovery, vars, Setup
<1>23. CASE RecoveryComponent
  BY <1>23 DEF RecoveryComponent, vars, Setup
<1>24. CASE BeginRestore
  BY <1>24 DEF BeginRestore, vars, Setup
<1>25. ASSUME NEW f \in File, Restore(f) PROVE G
  BY <1>25 DEF Restore, vars, Setup
<1>26. CASE EndRecovery
  BY <1>26 DEF EndRecovery, Retire, WorkEnds, vars, Setup
<1>27. CASE Reconcile
  BY <1>27 DEF Reconcile, Retire, vars, Setup
<1>28. CASE Forget \/ Cancel \/ Rest \/ UNCHANGED vars
  BY <1>28 DEF Forget, Retire, vars, Setup, Cancel, Rest
<1>30. CASE Crash
  BY <1>30 DEF Crash, WorkEnds, vars, Setup
<1>31. CASE Meddle
  BY <1>31 DEF Meddle, vars, Setup
<1>34. CASE Look
  BY <1>34 DEF Look, vars, Setup
<1> QED
  BY <1>1, <1>2, <1>3, <1>4, <1>5, <1>6, <1>7, <1>8, <1>9, <1>10, <1>11, <1>12, <1>13,
     <1>14, <1>15, <1>16, <1>17, <1>18, <1>19, <1>20, <1>21, <1>22, <1>23, <1>24, <1>25,
     <1>26, <1>27, <1>28, <1>30, <1>31, <1>34 DEF Next, TxnStep, ApplyStep, RecoveryStep

(* A journal goes on telling where the files are when only one of them is  *)
(* moved, or has an entry marked or added: if its last entry tells of it.  *)
LEMMA TellsOn ==
    ASSUME NEW j \in Journal, NEW l \in Journal, NEW a, NEW b, NEW g \in File, Tells(a, j),
           Len(j.ledger) <= Len(l.ledger),
           \A i \in 1 .. Len(j.ledger) :
                /\ l.ledger[i].owner = j.ledger[i].owner
                /\ j.ledger[i].owner # g => /\ l.ledger[i].src = j.ledger[i].src
                                            /\ l.ledger[i].dst = j.ledger[i].dst
                                            /\ l.ledger[i].state = j.ledger[i].state,
           \A i \in 1 .. Len(l.ledger) : Len(j.ledger) < i => l.ledger[i].owner = g,
           \A x \in Path : a[x] \in File /\ a[x] # g => b[x] = a[x],
           \E i \in 1 .. Len(l.ledger) : LastOf(l, i, g) /\ Holds(b, l.ledger[i])
    PROVE  Tells(b, l)
<1>t. /\ Len(j.ledger) \in Nat /\ Len(l.ledger) \in Nat
      /\ \A i \in 1 .. Len(j.ledger) : j.ledger[i].src \in Path /\ j.ledger[i].dst \in Path
  <2>1. j.ledger \in Seq(Entry) /\ l.ledger \in Seq(Entry)
    BY DEF Journal
  <2>2. \A i \in 1 .. Len(j.ledger) : j.ledger[i] \in Entry
    BY <2>1
  <2> QED
    BY <2>1, <2>2 DEF Entry
<1>1. ASSUME NEW f \in File, f # g
      PROVE  \/ b[Home[f]] = f /\ \A i \in 1 .. Len(l.ledger) : l.ledger[i].owner # f
             \/ \E i \in 1 .. Len(l.ledger) : LastOf(l, i, f) /\ Holds(b, l.ledger[i])
  <2>i. \A i \in 1 .. Len(j.ledger) : i \in 1 .. Len(l.ledger)
    BY <1>t
  <2>o. \A i \in 1 .. Len(l.ledger) : l.ledger[i].owner = f =>
            i \in 1 .. Len(j.ledger) /\ j.ledger[i].owner = f
    BY <1>t, <1>1
  <2>1. CASE a[Home[f]] = f /\ \A i \in 1 .. Len(j.ledger) : j.ledger[i].owner # f
    BY <2>1, <2>o, <1>1, PathsAssumption
  <2>2. ASSUME NEW i \in 1 .. Len(j.ledger), LastOf(j, i, f), Holds(a, j.ledger[i])
        PROVE  LastOf(l, i, f) /\ Holds(b, l.ledger[i])
    <3>1. /\ j.ledger[i].owner = f /\ l.ledger[i].owner = f
          /\ l.ledger[i].src = j.ledger[i].src /\ l.ledger[i].dst = j.ledger[i].dst
          /\ l.ledger[i].state = j.ledger[i].state
      BY <2>2, <1>1 DEF LastOf
    <3>2. LastOf(l, i, f)
      BY <3>1, <2>2, <2>o DEF LastOf
    <3>3. Holds(b, l.ledger[i])
      BY <2>2, <3>1, <1>1, <1>t DEF Holds
    <3> QED
      BY <3>1, <3>2, <3>3
  <2> QED
    BY <2>1, <2>2, <2>i DEF Tells
<1> QED
  BY <1>1 DEF Tells

(* It does when no file is moved.                                          *)
LEMMA TellsStill ==
    ASSUME NEW j \in Journal, NEW l, l.ledger = j.ledger, NEW a, NEW b, Tells(a, j),
           \A x \in Path : a[x] \in File => b[x] = a[x]
    PROVE  Tells(b, l)
<1>t. \A i \in 1 .. Len(j.ledger) : /\ j.ledger[i].src \in Path /\ j.ledger[i].dst \in Path
                                     /\ j.ledger[i].owner \in File
  <2>1. j.ledger \in Seq(Entry)
    BY DEF Journal
  <2>2. \A i \in 1 .. Len(j.ledger) : j.ledger[i] \in Entry
    BY <2>1
  <2> QED
    BY <2>2 DEF Entry
<1>1. \A i \in 1 .. Len(j.ledger) : Holds(a, j.ledger[i]) => Holds(b, j.ledger[i])
  BY <1>t DEF Holds
<1>2. \A f \in File : a[Home[f]] = f => b[Home[f]] = f
  BY PathsAssumption
<1>3. \A i, f : LastOf(j, i, f) <=> LastOf(l, i, f)
  BY DEF LastOf
<1> QED
  BY <1>1, <1>2, <1>3 DEF Tells

(* The worker keeps to it.                                                 *)
LEMMA TrailStep ==
    ASSUME Typed, Typed', Phases, Underway, Temporary, Trail, [Next]_vars
    PROVE  Trail'
<1>t. /\ TypeOK /\ Quiet /\ Len(mem.ledger) \in Nat /\ Len(log.ledger) \in Nat
      /\ moved \in Seq(1 .. Len(mem.ledger)) /\ Len(moved) \in Nat
      /\ \A k \in 1 .. Len(moved) : moved[k] \in 1 .. Len(mem.ledger) /\ moved[k] \in Nat
  <2>1. TypeOK /\ Quiet /\ mem \in Journal /\ log \in Journal /\ moved \in Seq(1 .. Len(mem.ledger))
    BY DEF Typed, TypeOK
  <2>2. mem.ledger \in Seq(Entry) /\ log.ledger \in Seq(Entry)
    BY <2>1 DEF Journal
  <2> QED
    BY <2>1, <2>2
<1>a. /\ \A k, l \in 1 .. Len(moved) : k < l => moved[k] < moved[l]
      /\ \A k \in 1 .. Len(moved) :
            /\ mem.ledger[moved[k]].state = "completed"
            /\ \A i \in 1 .. Len(mem.ledger) : moved[k] < i =>
                /\ \/ \E l \in 1 .. Len(moved) : moved[l] = i
                   \/ pc = "move" /\ i = Len(mem.ledger)
                   \/ pc = "rollback" /\ mem.ledger[i].state \in {"rolled_back", "unresolved"}
                /\ mem.ledger[i].owner = mem.ledger[moved[k]].owner => mem.ledger[i].src \in Temps
            /\ pc \in {"intent", "move", "moved"} =>
                \A m \in moves : m.owner = mem.ledger[moved[k]].owner => m.src \in Temps
            /\ moved[k] <= Len(log.ledger)
            /\ \/ log.ledger[moved[k]].state = "completed"
               \/ log.ledger[moved[k]].state = "intent" /\ moved[k] = Len(log.ledger)
  BY DEF Trail, Ledgered
<1>b. pc = "move" => mem.ledger[Len(mem.ledger)].state = "intent"
  BY DEF Trail, Noted
<1>k. Carrying =>
        /\ Len(mem.ledger) <= Len(mem'.ledger) /\ Len(mem'.ledger) \in Nat
        /\ \A i \in 1 .. Len(mem.ledger) :
            /\ mem'.ledger[i].owner = mem.ledger[i].owner
            /\ mem'.ledger[i].src = mem.ledger[i].src
        /\ ~Intend => Len(mem'.ledger) = Len(mem.ledger)
  BY LedgerKept
<1>1. CASE Intend
  <2>c. Carrying /\ pc = "intent" /\ moved' = moved /\ ~MoveFile /\ ~RollBackMove
    BY <1>1 DEF Carrying, Intend, MoveFile, RollBackMove
  <2> DEFINE n == Len(mem.ledger) + 1
  <2>1. \A i \in 1 .. Len(mem.ledger) : mem'.ledger[i].state = mem.ledger[i].state
    BY <2>c, EntryStates
  <2>2. mem'.ledger[n].state = IF pc' = "move" THEN "intent" ELSE "rolled_back"
    BY <1>1, <2>c, EntryStates
  <2>3. PICK s \in Steps(moves, FreshTemps) :
            /\ Len(mem'.ledger) = n
            /\ mem'.ledger[n].owner = s.step.owner /\ mem'.ledger[n].src = s.step.src
            /\ pc' = "move" => moves' = s.left
    BY <1>1, <2>c, LedgerKept
  <2>4. \E m \in moves : s.step.owner = m.owner /\ s.step.src = m.src
    <3>1. moves \in SUBSET [owner : File, src : Path, dst : Path]
      BY <1>t DEF TypeOK
    <3> QED
      BY <3>1, StepsTyped
  <2>5. \A m \in s.left : \/ m \in moves
                          \/ s.step.dst \in Temps /\ m.src = s.step.dst
    BY <2>c, NextStep
  <2>6. \/ pc' = "move" /\ log' = mem'
        \/ pc' = "rollback" /\ log' = log
    BY <1>1 DEF Intend
  <2> HIDE DEF n
  <2>7. \A k \in 1 .. Len(moved) :
            /\ mem'.ledger[moved[k]].state = "completed"
            /\ mem'.ledger[moved[k]].owner = mem.ledger[moved[k]].owner
            /\ moved[k] <= Len(mem.ledger)
    <3> SUFFICES ASSUME NEW k \in 1 .. Len(moved)
                 PROVE  /\ mem'.ledger[moved[k]].state = "completed"
                        /\ mem'.ledger[moved[k]].owner = mem.ledger[moved[k]].owner
                        /\ moved[k] <= Len(mem.ledger)
      OBVIOUS
    <3>1. moved[k] \in 1 .. Len(mem.ledger) /\ mem.ledger[moved[k]].state = "completed"
      BY <1>a, <1>t
    <3>2. mem'.ledger[moved[k]].owner = mem.ledger[moved[k]].owner
      BY <3>1, <1>k, <2>c
    <3> QED
      BY <3>1, <3>2, <2>1, <1>t
  <2>8. \A k \in 1 .. Len(moved) :
            /\ \A i \in 1 .. Len(mem'.ledger) : moved[k] < i =>
                /\ \/ \E l \in 1 .. Len(moved) : moved[l] = i
                   \/ pc' = "move" /\ i = Len(mem'.ledger)
                   \/ pc' = "rollback" /\ mem'.ledger[i].state \in {"rolled_back", "unresolved"}
                /\ mem'.ledger[i].owner = mem'.ledger[moved[k]].owner => mem'.ledger[i].src \in Temps
    <3> SUFFICES ASSUME NEW k \in 1 .. Len(moved), NEW i \in 1 .. Len(mem'.ledger), moved[k] < i
                 PROVE  /\ \/ \E l \in 1 .. Len(moved) : moved[l] = i
                           \/ pc' = "move" /\ i = Len(mem'.ledger)
                           \/ pc' = "rollback" /\ mem'.ledger[i].state \in {"rolled_back", "unresolved"}
                        /\ mem'.ledger[i].owner = mem'.ledger[moved[k]].owner
                            => mem'.ledger[i].src \in Temps
      OBVIOUS
    <3>1. CASE i \in 1 .. Len(mem.ledger)
      BY <3>1, <1>a, <1>k, <2>c, <2>7
    <3>2. CASE i = n
      BY <3>2, <2>2, <2>3, <2>4, <2>6, <2>7, <2>c, <1>a
    <3>3. i \in 1 .. Len(mem.ledger) \/ i = n
      BY <2>3, <1>t DEF n
    <3> QED
      BY <3>1, <3>2, <3>3
  <2>9. \A k \in 1 .. Len(moved) :
            pc' \in {"intent", "move", "moved"} =>
                \A m \in moves' : m.owner = mem'.ledger[moved[k]].owner => m.src \in Temps
    BY <2>3, <2>5, <2>6, <2>7, <2>c, <1>a
  <2>10. \A k \in 1 .. Len(moved) :
            /\ moved[k] <= Len(log'.ledger)
            /\ \/ log'.ledger[moved[k]].state = "completed"
               \/ log'.ledger[moved[k]].state = "intent" /\ moved[k] = Len(log'.ledger)
    <3>1. CASE log' = log
      BY <3>1, <1>a
    <3>2. CASE log' = mem'
      BY <3>2, <2>3, <2>7, <1>t DEF n
    <3> QED
      BY <2>6, <3>1, <3>2
  <2>11. pc' = "move" => mem'.ledger[Len(mem'.ledger)].state = "intent"
    BY <2>2, <2>3
  <2> QED
    BY <2>c, <1>a, <2>7, <2>8, <2>9, <2>10, <2>11 DEF Trail, Ledgered, Noted
<1>2. CASE MoveFile
  <2> DEFINE n == Len(mem.ledger)
  <2>c. Carrying /\ ~Intend /\ ~RollBackMove /\ pc = "move" /\ moves' = moves /\ log' = log
        /\ Len(mem'.ledger) = n /\ log = mem /\ n \in 1 .. n
    <3>1. Carrying /\ pc = "move" /\ moves' = moves
      BY <1>2 DEF Carrying, MoveFile
    <3>2. ~Intend /\ ~RollBackMove
      BY <3>1 DEF Intend, RollBackMove
    <3>3. log' = log
      BY <1>2 DEF MoveFile
    <3>4. n # 0
      BY <3>1, <1>t DEF Quiet, Typed, TypeOK, Journal
    <3> QED
      BY <3>1, <3>2, <3>3, <3>4, <1>k, <1>t DEF Temporary
  <2>1. \A i \in 1 .. n : i # n => mem'.ledger[i].state = mem.ledger[i].state
    BY <2>c, EntryStates
  <2>2. mem'.ledger[n].state = IF moved' = moved THEN "rolled_back" ELSE "completed"
    BY <1>2, <2>c, EntryStates
  <2>3. \/ moved' = Append(moved, n) /\ pc' = "moved"
        \/ moved' = moved /\ pc' = "rollback"
    BY <1>2 DEF MoveFile
  <2> HIDE DEF n
  <2>4. \A k \in 1 .. Len(moved) : moved[k] # n /\ moved[k] < n
    BY <1>a, <1>b, <1>t, <2>c DEF n
  <2>5. \A k \in 1 .. Len(moved) :
            /\ mem'.ledger[moved[k]].state = "completed"
            /\ mem'.ledger[moved[k]].owner = mem.ledger[moved[k]].owner
    BY <1>a, <1>t, <1>k, <2>1, <2>4, <2>c DEF n
  <2>6. \A k \in 1 .. Len(moved), i \in 1 .. n : moved[k] < i =>
            /\ (\E l \in 1 .. Len(moved) : moved[l] = i) \/ i = n
            /\ mem'.ledger[i].owner = mem'.ledger[moved[k]].owner => mem'.ledger[i].src \in Temps
    BY <1>a, <1>k, <2>c, <2>5 DEF n
  <2>7. \A k \in 1 .. Len(moved) : moved[k] <= n
    BY <2>4, <1>t, <2>c
  <2>8. CASE moved' = moved /\ pc' = "rollback"
    <3>1. \A k \in 1 .. Len(moved), i \in 1 .. n : moved[k] < i =>
            \/ \E l \in 1 .. Len(moved) : moved[l] = i
            \/ mem'.ledger[i].state \in {"rolled_back", "unresolved"}
      BY <2>2, <2>6, <2>8
    <3> QED
      BY <2>8, <2>c, <2>5, <2>6, <3>1, <1>a DEF Trail, Ledgered, n
  <2>9. CASE moved' = Append(moved, n) /\ pc' = "moved"
    <3> DEFINE z == Len(moved) + 1
    <3>1. /\ Len(moved') = z /\ moved'[z] = n /\ z \in 1 .. z
          /\ \A k \in 1 .. z : k = z \/ (k \in 1 .. Len(moved) /\ moved'[k] = moved[k])
          /\ \A k \in 1 .. Len(moved) : k \in 1 .. z /\ moved'[k] = moved[k] /\ k < z
          /\ n \in Nat
      BY <2>9, <1>t, <2>c DEF n
    <3>0. moved' # moved
      BY <3>1, <1>t
    <3>2. mem'.ledger[n].state = "completed"
      BY <2>2, <3>0
    <3> HIDE DEF z
    <3>3. \A k, l \in 1 .. z : k < l => moved'[k] < moved'[l]
      <4> SUFFICES ASSUME NEW k \in 1 .. z, NEW l \in 1 .. z, k < l PROVE moved'[k] < moved'[l]
        OBVIOUS
      <4>1. k # z
        BY <1>t DEF z
      <4> QED
        BY <4>1, <3>1, <2>4, <1>a
    <3>4. \A k \in 1 .. z : mem'.ledger[moved'[k]].state = "completed"
      BY <3>1, <3>2, <2>5
    <3>5. \A k \in 1 .. z, i \in 1 .. n : moved'[k] < i =>
            /\ \E l \in 1 .. z : moved'[l] = i
            /\ mem'.ledger[i].owner = mem'.ledger[moved'[k]].owner => mem'.ledger[i].src \in Temps
      <4> SUFFICES ASSUME NEW k \in 1 .. z, NEW i \in 1 .. n, moved'[k] < i
                   PROVE  /\ \E l \in 1 .. z : moved'[l] = i
                          /\ mem'.ledger[i].owner = mem'.ledger[moved'[k]].owner
                                => mem'.ledger[i].src \in Temps
        OBVIOUS
      <4>1. k \in 1 .. Len(moved) /\ moved'[k] = moved[k]
        BY <3>1
      <4>2. (\E l \in 1 .. Len(moved) : moved[l] = i) \/ i = n
        BY <4>1, <2>6
      <4>3. \E l \in 1 .. z : moved'[l] = i
        BY <4>2, <3>1
      <4>4. mem'.ledger[i].owner = mem'.ledger[moved'[k]].owner => mem'.ledger[i].src \in Temps
        BY <4>1, <2>6
      <4> QED
        BY <4>3, <4>4
    <3>6. \A k \in 1 .. z, m \in moves :
                m.owner = mem'.ledger[moved'[k]].owner => m.src \in Temps
      <4>1. \A m \in moves : m.owner = Noted.owner => m.src \in Temps
        BY <2>c DEF Underway, Detour
      <4>2. mem'.ledger[n].owner = Noted.owner
        BY <1>k, <2>c DEF Noted, n
      <4> QED
        BY <3>1, <4>1, <4>2, <2>5, <2>c, <1>a
    <3>7. \A k \in 1 .. z :
            /\ moved'[k] <= Len(log.ledger)
            /\ \/ log.ledger[moved'[k]].state = "completed"
               \/ log.ledger[moved'[k]].state = "intent" /\ moved'[k] = Len(log.ledger)
      BY <3>1, <2>c, <1>a, <1>b DEF n
    <3> QED
      BY <2>9, <2>c, <3>1, <3>3, <3>4, <3>5, <3>6, <3>7 DEF Trail, Ledgered, n
  <2> QED
    BY <2>3, <2>8, <2>9
<1>3. CASE NoteMove \/ NoteAgain
  <2>1. /\ mem' = mem /\ moved' = moved /\ moves' = moves /\ log' \in {log, mem}
        /\ pc \in {"moved", "rolled"} /\ pc' \in {"component", "intent", "rollback"}
        /\ pc' = "intent" => pc = "moved"
    BY <1>3 DEF NoteMove, NoteAgain, Persist, txnVars
  <2>2. \A k \in 1 .. Len(moved) :
            /\ moved[k] <= Len(log'.ledger)
            /\ \/ log'.ledger[moved[k]].state = "completed"
               \/ log'.ledger[moved[k]].state = "intent" /\ moved[k] = Len(log'.ledger)
    BY <2>1, <1>a, <1>t
  <2>3. \A k \in 1 .. Len(moved), i \in 1 .. Len(mem.ledger) : moved[k] < i =>
            /\ \E l \in 1 .. Len(moved) : moved[l] = i
            /\ mem.ledger[i].owner = mem.ledger[moved[k]].owner => mem.ledger[i].src \in Temps
    BY <2>1, <1>a
  <2>4. pc' \in {"intent", "move", "moved"} => pc = "moved"
    BY <2>1
  <2>5. \A k \in 1 .. Len(moved) : pc' \in {"intent", "move", "moved"} =>
            \A m \in moves : m.owner = mem.ledger[moved[k]].owner => m.src \in Temps
    BY <2>4, <1>a
  <2> QED
    BY <2>1, <2>2, <2>3, <2>5, <1>a DEF Trail, Ledgered, Noted
<1>4. CASE RollBackMove
  <2>c. Carrying /\ ~Intend /\ ~MoveFile /\ pc = "rollback" /\ pc' = pc /\ log' = log
        /\ moved # <<>> /\ moved' = Front(moved)
    BY <1>4 DEF Carrying, Intend, MoveFile, RollBackMove
  <2> DEFINE z == Len(moved) - 1
             last == Last(moved)
  <2>1. /\ Len(moved') = z /\ last = moved[Len(moved)] /\ z \in Nat /\ last \in 1 .. Len(mem.ledger)
        /\ Len(moved) \in 1 .. Len(moved)
        /\ \A k \in 1 .. z : k \in 1 .. Len(moved) /\ moved'[k] = moved[k] /\ k < Len(moved)
        /\ \A k \in 1 .. Len(moved) : k \in 1 .. z \/ k = Len(moved)
    BY <2>c, <1>t, FrontOf
  <2>2. \A i \in 1 .. Len(mem.ledger) : i # last => mem'.ledger[i].state = mem.ledger[i].state
    BY <2>c, EntryStates
  <2>3. mem'.ledger[last].state \in {"rolled_back", "unresolved"}
    BY <1>4, <2>c, EntryStates
  <2> HIDE DEF z, last
  <2>4. \A k \in 1 .. z : /\ moved[k] # last
                          /\ mem'.ledger[moved[k]].state = "completed"
                          /\ mem'.ledger[moved[k]].owner = mem.ledger[moved[k]].owner
    <3>1. \A k \in 1 .. z : moved[k] < last
      BY <2>1, <1>a
    <3>2. \A k \in 1 .. z : moved[k] # last /\ moved[k] \in 1 .. Len(mem.ledger)
      BY <3>1, <2>1, <1>t
    <3> QED
      BY <3>2, <2>1, <2>2, <2>c, <1>a, <1>k
  <2>5. ASSUME NEW k \in 1 .. z, NEW i \in 1 .. Len(mem.ledger), moved[k] < i
        PROVE  /\ \/ \E l \in 1 .. z : moved'[l] = i
                  \/ mem'.ledger[i].state \in {"rolled_back", "unresolved"}
               /\ mem'.ledger[i].owner = mem'.ledger[moved[k]].owner => mem'.ledger[i].src \in Temps
    <3>1. mem'.ledger[i].owner = mem'.ledger[moved[k]].owner => mem'.ledger[i].src \in Temps
      <4>1. mem'.ledger[i].owner = mem.ledger[i].owner /\ mem'.ledger[i].src = mem.ledger[i].src
        BY <2>c, <1>k
      <4>2. mem.ledger[i].owner = mem.ledger[moved[k]].owner => mem.ledger[i].src \in Temps
        BY <2>5, <2>1, <1>a
      <4> QED
        BY <4>1, <4>2, <2>4
    <3>2. CASE i = last
      BY <3>1, <3>2, <2>3
    <3>3. CASE i # last
      <4>1. \/ \E l \in 1 .. Len(moved) : moved[l] = i
            \/ mem.ledger[i].state \in {"rolled_back", "unresolved"}
        BY <2>5, <2>1, <2>c, <1>a
      <4>2. (\E l \in 1 .. Len(moved) : moved[l] = i) => \E l \in 1 .. z : moved'[l] = i
        BY <3>3, <2>1
      <4> QED
        BY <3>1, <3>3, <4>1, <4>2, <2>2
    <3> QED
      BY <3>2, <3>3
  <2>6. /\ \A k, l \in 1 .. z : k < l => moved'[k] < moved'[l]
        /\ \A k \in 1 .. z :
            /\ moved'[k] <= Len(log.ledger)
            /\ \/ log.ledger[moved'[k]].state = "completed"
               \/ log.ledger[moved'[k]].state = "intent" /\ moved'[k] = Len(log.ledger)
    BY <2>1, <1>a
  <2>7. /\ \A k \in 1 .. z : mem'.ledger[moved'[k]].state = "completed"
        /\ \A k \in 1 .. z, i \in 1 .. Len(mem.ledger) : moved'[k] < i =>
            /\ \/ \E l \in 1 .. z : moved'[l] = i
               \/ mem'.ledger[i].state \in {"rolled_back", "unresolved"}
            /\ mem'.ledger[i].owner = mem'.ledger[moved'[k]].owner => mem'.ledger[i].src \in Temps
    BY <2>1, <2>4, <2>5
  <2>8. Len(mem'.ledger) = Len(mem.ledger)
    BY <2>c, <1>k
  <2> QED
    BY <2>1, <2>c, <2>6, <2>7, <2>8 DEF Trail, Ledgered
<1>5. CASE NoteRollback
  <2>1. moved' = <<>> /\ pc' # "move" /\ 1 .. Len(moved') = {}
    BY <1>5 DEF NoteRollback, Persist
  <2> QED
    BY <2>1 DEF Trail
<1>6. CASE ~Carrying
  <2>1. CASE pc' \notin Renaming
    <3>1. moved' = <<>> /\ pc' # "move" /\ 1 .. Len(moved') = {}
      BY <2>1 DEF Typed, Quiet, Renaming
    <3> QED
      BY <3>1 DEF Trail
  <2>2. ASSUME NEW C \in plan, BeginComponent(C), pc' = "intent" PROVE Trail'
    <3>1. moved' = <<>> /\ 1 .. Len(moved') = {}
      BY <2>2 DEF BeginComponent, txnVars
    <3> QED
      BY <2>2, <3>1 DEF Trail
  <2>3. CASE Aside /\ pc' \in Renaming
    <3>1. UNCHANGED <<pc, mem, moved, moves>>
      BY <2>3 DEF Aside, txnVars
    <3>2. log' \in {log, mem}
      BY <2>3, <3>1, LogSteps DEF Renaming
    <3>3. \A k \in 1 .. Len(moved) :
            /\ moved[k] <= Len(log'.ledger)
            /\ \/ log'.ledger[moved[k]].state = "completed"
               \/ log'.ledger[moved[k]].state = "intent" /\ moved[k] = Len(log'.ledger)
      BY <3>2, <1>a, <1>t
    <3> QED
      BY <3>1, <3>3, <1>a, <1>b DEF Trail, Ledgered, Noted
  <2> QED
    BY <1>6, <2>1, <2>2, <2>3, RenamingSteps
<1> QED
  BY <1>1, <1>2, <1>3, <1>4, <1>5, <1>6 DEF Carrying

(* The moves of a component keep the journals true to the files.           *)
LEMMA CarriedTells ==
    ASSUME Typed, Phases, Underway, Ledgers, Temporary, Trail, [Next]_vars, Carrying,
           Tells(at, mem), ~Untold => Tells(at, log)
    PROVE  Tells(at', mem') /\ (~Untold' => Tells(at', log'))
<1>j. mem \in Journal /\ mem' \in Journal /\ log \in Journal
  BY JournalsTyped DEF Typed, TypeOK
<1>t. /\ mem.ledger \in Seq(Entry) /\ mem'.ledger \in Seq(Entry) /\ log.ledger \in Seq(Entry)
      /\ moved \in Seq(1 .. Len(mem.ledger)) /\ members \subseteq File /\ Nobody \notin File
      /\ Stranger \notin File /\ at \in [Path -> File \cup {Nobody, Stranger}]
  BY <1>j, FilesAssumption DEF Typed, TypeOK, Journal
<1>l. /\ Len(mem.ledger) \in Nat /\ Len(mem'.ledger) \in Nat /\ Len(log.ledger) \in Nat
      /\ DOMAIN mem.ledger = 1 .. Len(mem.ledger) /\ DOMAIN mem'.ledger = 1 .. Len(mem'.ledger)
      /\ DOMAIN log.ledger = 1 .. Len(log.ledger)
  BY <1>t
<1>k. /\ Len(mem.ledger) <= Len(mem'.ledger)
      /\ ~Intend => Len(mem'.ledger) = Len(mem.ledger)
      /\ \A i \in 1 .. Len(mem.ledger) :
            /\ mem'.ledger[i].owner = mem.ledger[i].owner
            /\ mem'.ledger[i].src = mem.ledger[i].src
            /\ mem'.ledger[i].dst = mem.ledger[i].dst
  BY LedgerKept
<1>g. /\ Len(log.ledger) <= Len(mem.ledger)
      /\ \A i \in 1 .. Len(log.ledger) :
            /\ i \in 1 .. Len(mem.ledger)
            /\ log.ledger[i].owner = mem.ledger[i].owner
            /\ log.ledger[i].src = mem.ledger[i].src
            /\ log.ledger[i].dst = mem.ledger[i].dst
  <2>1. Runs
    BY DEF Carrying, Intend, MoveFile, NoteMove, RollBackMove, NoteRollback, NoteAgain, Runs
  <2> QED
    BY <2>1, <1>l DEF Temporary, Grown
<1>e. ASSUME NEW i \in 1 .. Len(mem.ledger)
      PROVE  /\ mem.ledger[i].owner \in File /\ mem.ledger[i].src \in Path
             /\ mem.ledger[i].dst \in Path
  BY EntryTyped DEF Typed
<1>1. CASE Intend
  <2>c. at' = at /\ ~MoveFile /\ ~RollBackMove /\ pc = "intent"
    BY <1>1 DEF Intend, MoveFile, RollBackMove, diskVars
  <2> DEFINE n == Len(mem.ledger) + 1
             g == mem'.ledger[n].owner
  <2>1. \A i \in 1 .. Len(mem.ledger) : mem'.ledger[i].state = mem.ledger[i].state
    BY <2>c, EntryStates
  <2>2. mem'.ledger[n].state \in {"intent", "rolled_back"}
    BY <1>1, EntryStates
  <2>3. PICK s \in Steps(moves, FreshTemps) :
            /\ Len(mem'.ledger) = n
            /\ mem'.ledger[n].owner = s.step.owner /\ mem'.ledger[n].src = s.step.src
    BY <1>1, LedgerKept
  <2>4. at[s.step.src] = s.step.owner /\ s.step.owner \in members
    BY <2>c, NextStep
  <2>5. \A i \in 1 .. n : i \in 1 .. Len(mem.ledger) \/ i = n
    BY <1>l
  <2>6. n \in 1 .. n /\ n \in Nat
    BY <1>l
  <2> HIDE DEF n
  <2>7. g \in File /\ at[mem'.ledger[n].src] = g
    BY <2>3, <2>4, <1>t
  <2>8. Holds(at', mem'.ledger[n])
    BY <2>2, <2>7, <2>c DEF Holds
  <2>9. LastOf(mem', n, g)
    BY <2>3, <2>6 DEF LastOf
  <2> HIDE DEF g
  <2>10. \A i \in 1 .. Len(mem'.ledger) : Len(mem.ledger) < i => mem'.ledger[i].owner = g
    BY <2>3, <2>5, <1>l DEF g
  <2>11. Tells(at', mem')
    BY <1>j, <1>k, <2>1, <2>3, <2>6, <2>7, <2>8, <2>9, <2>10, <2>c, TellsOn
  <2>12. log' = mem' \/ log' = log
    BY <1>1 DEF Intend
  <2>13. log' = log => (Untold => Untold')
    BY <2>1, <1>g, <1>k, <1>l DEF Untold
  <2>14. log' = log /\ ~Untold' => Tells(at', log')
    BY <2>13, <2>c
  <2> QED
    BY <2>11, <2>12, <2>14
<1>2. CASE MoveFile
  <2>c. /\ pc = "move" /\ ~Intend /\ ~RollBackMove /\ log' = log /\ log = mem
        /\ Len(mem.ledger) \in 1 .. Len(mem.ledger)
    <3>1. pc = "move" /\ log' = log /\ mem.ledger # <<>>
      BY <1>2 DEF MoveFile, Typed, Quiet
    <3>2. ~Intend /\ ~RollBackMove /\ log = mem
      BY <3>1 DEF Intend, RollBackMove, Temporary
    <3> QED
      BY <3>1, <3>2, <1>t
  <2> DEFINE n == Len(mem.ledger)
             e == mem.ledger[n]
             g == e.owner
  <2>1. \A i \in 1 .. n : i # n => mem'.ledger[i].state = mem.ledger[i].state
    BY <2>c, EntryStates
  <2>2. g \in File /\ g \in members /\ at[e.src] = g /\ e.src \in Path /\ e.dst \in Path
    BY <2>c, <1>e DEF Underway, Noted
  <2>3. e.state = "intent"
    BY <2>c DEF Trail, Noted
  <2>4. /\ \A x \in Path : at[x] \in File /\ at[x] # g => at'[x] = at[x]
        /\ \/ at' = at /\ mem'.ledger[n].state \in {"rolled_back", "completed"}
           \/ at'[e.dst] = g /\ mem'.ledger[n].state = "completed"
    <3>1. CASE at' = at
      BY <3>1, <1>2, EntryStates
    <3>2. CASE at' # at
      <4>1. PICK i \in 1 .. Len(mem.ledger), s, d \in Path :
                /\ mem.ledger[i].owner \in members /\ at[s] = mem.ledger[i].owner
                /\ Open(d) /\ s # d
                /\ at' = [at EXCEPT ![d] = at[s], ![s] = Nobody]
                /\ i = Len(mem.ledger)
                /\ s = mem.ledger[i].src /\ d = mem.ledger[i].dst
        BY <3>2, <1>2, <2>c, Moves DEF Temporary
      <4>2. /\ at[e.src] = g /\ Open(e.dst) /\ e.src # e.dst
            /\ at' = [at EXCEPT ![e.dst] = at[e.src], ![e.src] = Nobody]
        BY <4>1
      <4>3. mem'.ledger[n].state = "completed"
        BY <3>2, <1>2, EntryStates
      <4> HIDE DEF e, g
      <4>4. at'[e.dst] = g /\ \A x \in Path : x # e.dst /\ x # e.src => at'[x] = at[x]
        BY <4>2, <2>2, <1>t
      <4> QED
        BY <4>2, <4>3, <4>4, <1>t DEF Open
    <3> QED
      BY <3>1, <3>2
  <2>5. mem'.ledger[n].owner = g /\ mem'.ledger[n].src = e.src /\ mem'.ledger[n].dst = e.dst
    BY <2>c, <1>k
  <2>a. at' = at => mem'.ledger[n].state = "rolled_back"
    <3> SUFFICES ASSUME at' = at, mem'.ledger[n].state = "completed" PROVE FALSE
      BY <2>4, <2>2, EntryStates, <1>2
    <3>1. clear /\ at' = [at EXCEPT ![e.dst] = at[e.src], ![e.src] = Nobody]
      <4>1. moved' # moved
        BY <1>2, EntryStates
      <4> QED
        BY <4>1, <1>2 DEF MoveFile
    <3>2. Open(e.dst)
      BY <3>1, <2>c DEF Typed, Looked
    <3> HIDE DEF e
    <3>3. e.src # e.dst
      BY <2>2, <3>2, <1>t DEF Open, g
    <3>4. at'[e.src] = Nobody
      BY <3>1, <3>3, <2>2, <1>t
    <3> QED
      BY <3>4, <2>2, <1>t DEF g
  <2> HIDE DEF n, e, g
  <2>6. Holds(at', mem'.ledger[n]) /\ Holds(at', log.ledger[n])
    <3>1. Holds(at', mem'.ledger[n])
      BY <2>2, <2>4, <2>5, <2>a DEF Holds
    <3>2. at'[e.src] = g \/ at'[e.dst] = g
      BY <2>2, <2>4
    <3>3. log.ledger[n] = e
      BY <2>c DEF e
    <3> QED
      BY <3>1, <3>2, <3>3, <2>3 DEF Holds, g
  <2>7. LastOf(mem', n, g) /\ LastOf(log, n, g)
    BY <2>5, <2>c, <1>k, <1>l DEF LastOf, n, e, g
  <2>8. Tells(at', mem')
    <3>1. \A i \in 1 .. Len(mem.ledger) : mem.ledger[i].owner # g => i # n
      BY DEF g, e
    <3> QED
      BY <1>j, <1>k, <1>l, <2>1, <2>2, <2>4, <2>6, <2>7, <2>c, <3>1, TellsOn DEF n
  <2>9. Tells(at', log')
    BY <1>j, <1>l, <2>2, <2>4, <2>6, <2>7, <2>c, TellsOn DEF n
  <2> QED
    BY <2>8, <2>9
<1>3. CASE NoteMove \/ NoteRollback \/ NoteAgain
  <2>1. at' = at /\ mem' = mem /\ log' \in {log, mem'}
    BY <1>3 DEF NoteMove, NoteRollback, NoteAgain, Persist, diskVars
  <2> QED
    BY <2>1 DEF Untold
<1>4. CASE RollBackMove
  <2>c. pc = "rollback" /\ ~Intend /\ ~MoveFile /\ log' = log /\ moved # <<>>
    BY <1>4 DEF Intend, MoveFile, RollBackMove
  <2> DEFINE z == Last(moved)
             e == mem.ledger[z]
             g == e.owner
  <2>0. /\ Len(moved) \in 1 .. Len(moved) /\ z = moved[Len(moved)]
        /\ \A k \in 1 .. Len(moved) : k # Len(moved) => k < Len(moved)
    BY <2>c, <1>t, FrontOf
  <2>b. z \in 1 .. Len(mem.ledger) /\ z \in Nat
    BY <2>0, <1>t
  <2>1. \A i \in 1 .. Len(mem.ledger) : i # z => mem'.ledger[i].state = mem.ledger[i].state
    BY <2>c, EntryStates
  <2>2. g \in File /\ e.src \in Path /\ e.dst \in Path
    BY <2>b, <1>e
  <2>3. /\ e.state = "completed"
        /\ z <= Len(log.ledger)
        /\ log.ledger[z].state = "completed" \/ (log.ledger[z].state = "intent" /\ z = Len(log.ledger))
        /\ \A i \in 1 .. Len(mem.ledger) : z < i /\ mem.ledger[i].owner = g =>
                mem.ledger[i].state \in {"rolled_back", "unresolved"} /\ mem.ledger[i].src \in Temps
    <3>1. \A i \in 1 .. Len(mem.ledger) : z < i => ~\E l \in 1 .. Len(moved) : moved[l] = i
      <4>1. \A l \in 1 .. Len(moved) : moved[l] = z \/ moved[l] < z
        BY <2>0 DEF Trail
      <4>2. \A l \in 1 .. Len(moved) : moved[l] \in Nat
        BY <1>t
      <4> QED
        BY <4>1, <4>2, <2>b
    <3> QED
      BY <2>0, <2>c, <3>1 DEF Trail, Ledgered
  <2>4. /\ \A x \in Path : at[x] \in File /\ at[x] # g => at'[x] = at[x]
        /\ at' # at => at'[e.src] = g /\ mem'.ledger[z].state = "rolled_back"
    <3>1. CASE at' = at
      BY <3>1
    <3>2. CASE at' # at
      <4>1. PICK i \in 1 .. Len(mem.ledger), s, d \in Path :
                /\ mem.ledger[i].owner \in members /\ at[s] = mem.ledger[i].owner
                /\ Open(d) /\ s # d
                /\ at' = [at EXCEPT ![d] = at[s], ![s] = Nobody]
                /\ i = Last(moved)
                /\ s = mem.ledger[i].dst /\ d = mem.ledger[i].src
        BY <3>2, <1>4, <2>c, Moves DEF Temporary
      <4>2. /\ at[e.dst] = g /\ Open(e.src) /\ e.src # e.dst
            /\ at' = [at EXCEPT ![e.src] = at[e.dst], ![e.dst] = Nobody]
        BY <4>1
      <4>3. mem'.ledger[z].state = "rolled_back"
        BY <3>2, <1>4, EntryStates
      <4> HIDE DEF e, g, z
      <4>4. at'[e.src] = g /\ \A x \in Path : x # e.dst /\ x # e.src => at'[x] = at[x]
        BY <4>2, <2>2, <1>t
      <4> QED
        BY <4>2, <4>3, <4>4, <1>t DEF Open
    <3> QED
      BY <3>1, <3>2
  <2>5. \/ mem'.ledger[z].state = "unresolved"
        \/ mem'.ledger[z].state = "rolled_back" /\ (at[e.dst] = Nobody \/ at' # at)
    <3>1. \/ mem'.ledger[z].state = "unresolved"
          \/ /\ mem'.ledger[z].state = "rolled_back"
             /\ e.dst \notin Taken \/ at' # at
      BY <1>4, EntryStates
    <3> QED
      BY <3>1, <2>2 DEF Taken
  <2>6. mem'.ledger[z].owner = g /\ mem'.ledger[z].src = e.src /\ mem'.ledger[z].dst = e.dst
    BY <2>b, <1>k
  <2> HIDE DEF z, e, g
  <2>7. PICK i \in 1 .. Len(mem.ledger) : LastOf(mem, i, g) /\ Holds(at, mem.ledger[i])
    <3>1. e.owner = g
      BY DEF g
    <3> QED
      BY <3>1, <2>2, <2>b DEF Tells, e
  <2>8. LastOf(mem', i, g)
    BY <2>7, <2>c, <1>k DEF LastOf
  <2>9. Holds(at', mem'.ledger[i])
    <3>1. CASE i = z
      <4>1. at[e.dst] = g
        BY <3>1, <2>3, <2>7 DEF Holds, e, g
      <4>2. mem'.ledger[z].state = "unresolved" \/ (mem'.ledger[z].state = "rolled_back" /\ at'[e.src] = g)
        BY <4>1, <2>2, <2>4, <2>5, <1>t
      <4> QED
        BY <3>1, <4>2, <2>6 DEF Holds
    <3>2. CASE i # z
      <4>1. z < i
        BY <3>2, <2>7, <2>b DEF LastOf, e, g
      <4>2. mem'.ledger[i].state \in {"rolled_back", "unresolved"} /\ mem'.ledger[i].src \in Temps
        BY <4>1, <3>2, <2>1, <2>3, <2>7, <1>k DEF LastOf
      <4> QED
        BY <4>2 DEF Holds
    <3> QED
      BY <3>1, <3>2
  <2>10. Tells(at', mem')
    <3>1. \A k \in 1 .. Len(mem.ledger) : mem.ledger[k].owner # g => k # z
      BY DEF g, e
    <3>2. /\ i \in 1 .. Len(mem'.ledger)
          /\ \A k \in 1 .. Len(mem'.ledger) : ~(Len(mem.ledger) < k)
      BY <2>c, <1>k, <1>l
    <3>3. \A k \in 1 .. Len(mem.ledger) :
            /\ mem'.ledger[k].owner = mem.ledger[k].owner
            /\ mem.ledger[k].owner # g => /\ mem'.ledger[k].src = mem.ledger[k].src
                                          /\ mem'.ledger[k].dst = mem.ledger[k].dst
                                          /\ mem'.ledger[k].state = mem.ledger[k].state
      BY <1>k, <2>1, <3>1
    <3>4. \E k \in 1 .. Len(mem'.ledger) : LastOf(mem', k, g) /\ Holds(at', mem'.ledger[k])
      BY <2>8, <2>9, <3>2
    <3>5. \A x \in Path : at[x] \in File /\ at[x] # g => at'[x] = at[x]
      BY <2>4
    <3>6. g \in File /\ Len(mem.ledger) <= Len(mem'.ledger)
      BY <2>2, <1>k
    <3>7. \A k \in 1 .. Len(mem'.ledger) : Len(mem.ledger) < k => mem'.ledger[k].owner = g
      BY <3>2
    <3> QED
      BY <1>j, <3>3, <3>4, <3>5, <3>6, <3>7, TellsOn
  <2>11. ASSUME ~Untold' PROVE Tells(at', log')
    <3>1. ~Untold
      <4> SUFFICES ASSUME Untold PROVE FALSE
        OBVIOUS
      <4>1. PICK k \in 1 .. Len(log.ledger) :
                log.ledger[k].state = "completed" /\ mem.ledger[k].state = "rolled_back"
        BY <1>l DEF Untold
      <4>2. k \in 1 .. Len(mem.ledger) /\ k # z
        BY <4>1, <1>g, <2>3 DEF e
      <4>3. mem'.ledger[k].state = "rolled_back" /\ k \in 1 .. Len(mem'.ledger)
        BY <4>1, <4>2, <2>1, <2>c, <1>k
      <4> QED
        BY <4>1, <4>3, <2>11, <2>c, <1>l DEF Untold
    <3>2. CASE at' = at
      BY <3>1, <3>2, <2>c
    <3>3. CASE at' # at
      <4>1. z \in 1 .. Len(log.ledger) /\ mem'.ledger[z].state = "rolled_back" /\ at'[e.src] = g
            /\ z \in 1 .. Len(mem'.ledger)
        BY <3>3, <2>3, <2>4, <2>b, <2>c, <1>l, <1>k
      <4>2. log.ledger[z].state = "intent" /\ z = Len(log.ledger)
        BY <4>1, <2>3, <2>11, <2>c, <1>l DEF Untold
      <4>3. log.ledger[z].owner = g /\ log.ledger[z].src = e.src
        BY <4>1, <1>g DEF e, g
      <4>4. LastOf(log, z, g) /\ Holds(at', log.ledger[z])
        BY <4>1, <4>2, <4>3, <1>l DEF LastOf, Holds
      <4> QED
        BY <3>1, <4>1, <4>4, <1>j, <1>l, <2>2, <2>4, <2>c, TellsOn
    <3> QED
      BY <3>2, <3>3
  <2> QED
    BY <2>10, <2>11
<1> QED
  BY <1>1, <1>2, <1>3, <1>4 DEF Carrying

(* And so do the other steps, as long as no rollback is lost.              *)
LEMMA TracedStep ==
    ASSUME Invariant, Places, Temporary, Traced, [Next]_vars
    PROVE  Traced'
<1> SUFFICES ASSUME ~torn' PROVE Traced'
  BY DEF Traced
<1>i. Typed /\ Typed' /\ Phases /\ Underway /\ Ledgers
  BY TypedStep DEF Invariant, Places
<1>j. mem \in Journal /\ mem' \in Journal /\ log \in Journal
  BY <1>i, JournalsTyped DEF Typed, TypeOK
<1>0. ~torn
  <2>1. torn \in BOOLEAN
    BY <1>i DEF Typed, TypeOK
  <2> QED
    BY <2>1, PastSteps DEF Meddle
<1>a. Trail /\ (Runs => Tells(at, mem)) /\ (Offered /\ ~Untold => Tells(at, log))
      /\ (~Runs => mem.ledger = <<>>)
  BY <1>0 DEF Traced
<1>n. NoJournal.ledger = <<>> /\ 1 .. Len(NoJournal.ledger) = {} /\ NoJournal.batch = "none"
  BY DEF NoJournal
<1>u. mem.ledger = <<>> => ~Untold
  <2>1. DOMAIN <<>> = {}
    OBVIOUS
  <2> QED
    BY <2>1 DEF Untold
<1>1. Trail'
  BY <1>a, <1>i, TrailStep
<1>e. ~Runs' => mem'.ledger = <<>>
  <2> SUFFICES ASSUME ~Runs' PROVE mem'.ledger = <<>>
    OBVIOUS
  <2>1. pc' \in {"new", "idle"}
    BY DEF Runs
  <2>2. ~Carrying
    BY <2>1, <1>i DEF Carrying, Intend, MoveFile, NoteMove, RollBackMove, NoteRollback, NoteAgain, Persist
  <2>3. mem'.ledger = mem.ledger \/ mem'.ledger = <<>>
    BY <2>1, <2>2, <1>i, LedgerSteps DEF BeginRecovery
  <2>4. CASE pc' = pc
    BY <2>3, <2>4, <1>a DEF Runs
  <2>5. CASE pc \in Setup
    <3>1. mem.ledger = <<>>
      BY <2>5, <1>i, <1>a DEF Phases, InSetup, Setup, Runs
    <3> QED
      BY <2>3, <3>1
  <2>6. CASE mem' = NoJournal
    BY <2>6, <1>n
  <2> QED
    BY <2>1, <2>4, <2>5, <2>6, <1>i, Endings
<1>2. CASE Carrying
  <2>1. Runs
    BY <1>2 DEF Carrying, Intend, MoveFile, NoteMove, RollBackMove, NoteRollback, NoteAgain, Runs
  <2>2. Offered' /\ log' = log => Offered
    BY DEF Offered
  <2>3. log' = log \/ log' = mem'
    <3>1. CASE Intend \/ MoveFile \/ RollBackMove
      BY <3>1, <1>i, TxnJournal
    <3>2. CASE NoteMove \/ NoteRollback \/ NoteAgain
      BY <3>2 DEF NoteMove, NoteRollback, NoteAgain, Persist
    <3> QED
      BY <3>1, <3>2, <1>2 DEF Carrying
  <2>o. Offered
    BY <2>1, <1>2, <1>i DEF Carrying, Intend, MoveFile, NoteMove, RollBackMove, NoteRollback, NoteAgain,
       Phases, InApply, InRecovery, Offered, Writing, Recovering, Renaming, Typed, TypeOK
  <2>4. Tells(at', mem') /\ (~Untold' => Tells(at', log'))
    BY <2>1, <2>o, <1>a, <1>i, <1>2, CarriedTells
  <2> QED
    BY <2>4, <1>1, <1>e DEF Traced
<1>3. CASE ~Carrying
  <2>1. \A x \in Path : at[x] \in File => at'[x] = at[x]
    <3>1. ~MoveFile /\ ~RollBackMove
      BY <1>3 DEF Carrying
    <3> QED
      BY <3>1, <1>i, AsideKeeps, FilesAssumption
  <2>2. \/ mem'.ledger = mem.ledger /\ (Runs' => Runs)
        \/ BeginRecovery
        \/ mem'.ledger = <<>> /\ (pc' = "idle" \/ BeginApply)
    BY <1>3, <1>i, LedgerSteps
  <2>h. pc \in Setup => \A f \in File : at'[Home[f]] = f
    BY <2>1, <1>i, PathsAssumption DEF Phases, Unwritten
  <2>e. mem'.ledger = <<>> /\ pc \in Setup => Tells(at', mem')
    <3>1. 1 .. Len(<<>>) = {}
      OBVIOUS
    <3> QED
      BY <3>1, <2>h DEF Tells
  <2>3. Runs' => Tells(at', mem')
    <3>1. CASE mem'.ledger = mem.ledger /\ (Runs' => Runs)
      BY <3>1, <2>1, <1>a, <1>j, TellsStill
    <3>2. CASE BeginRecovery
      <4>1. Offered /\ ~Runs /\ mem' = log
        BY <3>2 DEF BeginRecovery, Runs
      <4>2. Tells(at, log)
        BY <4>1, <1>a, <1>u
      <4> QED
        BY <4>1, <4>2, <2>1, <1>j, TellsStill
    <3>3. CASE mem'.ledger = <<>> /\ BeginApply
      BY <3>3, <2>e DEF BeginApply, Setup
    <3> QED
      BY <2>2, <3>1, <3>2, <3>3 DEF Runs
  <2>4. Offered' /\ ~Untold' => Tells(at', log')
    <3> SUFFICES ASSUME Offered', ~Untold' PROVE Tells(at', log')
      OBVIOUS
    <3>1. CASE log' = log
      <4>1. ~Untold
        <5>1. CASE mem'.ledger = mem.ledger
          BY <5>1, <3>1 DEF Untold
        <5>2. CASE BeginRecovery \/ BeginApply
          <6>1. ~Runs
            BY <5>2 DEF BeginRecovery, BeginApply, Runs
          <6> QED
            BY <6>1, <1>a, <1>u
        <5>3. CASE pc' = "idle"
          <6>1. CASE pc' = pc
            BY <5>3, <6>1, <1>a, <1>u DEF Runs
          <6>2. CASE pc \in Setup
            BY <6>2, <1>i, <1>a, <1>u DEF Phases, InSetup, Setup, Runs
          <6>3. CASE torn' = (torn \/ Untold)
            BY <6>3
          <6> QED
            BY <5>3, <6>1, <6>2, <6>3, <1>i, Endings
        <5> QED
          BY <2>2, <5>1, <5>2, <5>3
      <4>2. Tells(at, log)
        BY <4>1, <3>1, <1>a DEF Offered
      <4> QED
        BY <4>2, <3>1, <2>1, <1>j, TellsStill
    <3>2. CASE log' = mem' /\ (pc' # "idle" \/ pc \in Setup)
      <4>1. CASE Runs'
        BY <4>1, <3>2, <2>3
      <4>2. CASE ~Runs'
        <5>1. pc' \in {"new", "idle"} /\ mem'.ledger = <<>> /\ mem' # NoJournal
          BY <4>2, <3>2, <1>e, <1>n DEF Runs, Offered
        <5>2. pc \in Setup
          BY <5>1, <3>2, <1>i, Endings DEF Setup
        <5> QED
          BY <5>1, <5>2, <3>2, <2>e
      <4> QED
        BY <4>1, <4>2
    <3>3. log' # NoJournal
      BY <1>n DEF Offered
    <3> QED
      BY <3>1, <3>2, <3>3, <1>i, LogSteps
  <2> QED
    BY <2>3, <2>4, <1>1, <1>e DEF Traced
<1> QED
  BY <1>2, <1>3

(* The file of o is looked for where its last entry says, or at home. *)
LEMMA LocatedAt ==
    ASSUME NEW j, NEW o,
           \A k \in DOMAIN j.ledger : j.ledger[k].owner = o => ~Ambiguous(j.ledger[k])
    PROVE  /\ (\A k \in DOMAIN j.ledger : j.ledger[k].owner # o) /\ Home[o] \in Taken
                => Located(j, o) = Home[o]
           /\ \A i \in DOMAIN j.ledger :
                /\ DOMAIN j.ledger \subseteq Nat /\ j.ledger[i].owner = o
                /\ \A k \in DOMAIN j.ledger : j.ledger[k].owner = o => k <= i
                => (EntryPlace(j.ledger[i]) \in Taken \/ Located(j, o) \in Path
                        => Located(j, o) = EntryPlace(j.ledger[i]))
<1> DEFINE own == {i \in DOMAIN j.ledger : j.ledger[i].owner = o}
           last == CHOOSE i \in own : \A k \in own : k <= i
           place == IF own = {} THEN Home[o] ELSE EntryPlace(j.ledger[last])
<1>1. ~\E i \in own : Ambiguous(j.ledger[i])
  OBVIOUS
<1>2. Located(j, o) = CASE \E i \in own : Ambiguous(j.ledger[i]) -> "unresolved"
                        [] place \notin Taken -> "missing"
                        [] OTHER -> place
  BY DEF Located
<1>3. place \in Taken \/ Located(j, o) \in Path => Located(j, o) = place
  <2> HIDE DEF own, last, place
  <2> QED
    BY <1>1, <1>2, PathsAssumption
<1>4. ASSUME NEW i \in DOMAIN j.ledger,
             DOMAIN j.ledger \subseteq Nat, j.ledger[i].owner = o,
             \A k \in DOMAIN j.ledger : j.ledger[k].owner = o => k <= i
      PROVE  place = EntryPlace(j.ledger[i])
  <2>1. i \in own /\ \A k \in own : k <= i
    BY <1>4
  <2>2. \A l \in own : (\A k \in own : k <= l) => l = i
    BY <1>4, <2>1
  <2>3. last \in own /\ \A k \in own : k <= last
    <3> HIDE DEF own
    <3> QED
      BY <2>1
  <2>4. last = i
    BY <2>2, <2>3
  <2>5. own # {}
    BY <2>1
  <2> HIDE DEF own, last
  <2> QED
    BY <2>4, <2>5
<1>5. (\A k \in DOMAIN j.ledger : j.ledger[k].owner # o) => place = Home[o]
  <2> SUFFICES ASSUME \A k \in DOMAIN j.ledger : j.ledger[k].owner # o PROVE place = Home[o]
    OBVIOUS
  <2>1. own = {}
    OBVIOUS
  <2> QED
    BY <2>1
<1> QED
  <2> HIDE DEF own, last, place
  <2> QED
    BY <1>3, <1>4, <1>5

(* So recovery knows the files, or else by what it finds in them.          *)
LEMMA Knows ==
    ASSUME Typed, Single, Temporary, Traced, ~Mistakable
    PROVE  Recognised
<1> SUFFICES ASSUME pc = "idle", Offered, NEW f \in File, Here(f) \in Path,
                    Evidence(log, f, at[Here(f)])
             PROVE  at[Here(f)] = f
  BY DEF Recognised
<1>b. torn \in BOOLEAN /\ alike \in BOOLEAN
  BY DEF Typed, TypeOK
<1>1. CASE ~alike
  <2> DEFINE x == at[Here(f)]
  <2>1. x \in File /\ (SameIdentity(log, f, x) \/ HasExpectedFields(f, x) \/ HasSavedTags(f, x))
    BY DEF Evidence
  <2>2. tags[x].of = x
    BY <2>1 DEF Single
  <2> HIDE DEF x
  <2>3. x = f
    BY <2>1, <2>2, <1>1 DEF SameIdentity, HasExpectedFields, HasSavedTags
  <2> QED
    BY <2>3 DEF x
<1>2. CASE ~torn
  <2>1. mem.ledger = <<>>
    BY <1>2 DEF Traced, Runs
  <2>2. ~Untold
    BY <2>1 DEF Untold
  <2>3. Tells(at, log)
    BY <1>2, <2>2 DEF Traced
  <2>l. log.ledger \in Seq(Entry) /\ DOMAIN log.ledger = 1 .. Len(log.ledger)
        /\ Len(log.ledger) \in Nat
    <3>1. log \in Journal
      BY DEF Typed, TypeOK
    <3> QED
      BY <3>1 DEF Journal
  <2>h. Here(f) \in Taken
    BY FilesAssumption DEF Evidence, Taken
  <2>4. \A k \in 1 .. Len(log.ledger) : log.ledger[k].owner = f => ~Ambiguous(log.ledger[k])
    <3> DEFINE own == {k \in DOMAIN log.ledger : log.ledger[k].owner = f}
    <3>1. ~\E k \in own : Ambiguous(log.ledger[k])
      BY PathsAssumption DEF Here, Located
    <3> QED
      BY <3>1, <2>l
  <2>5. CASE at[Home[f]] = f /\ \A i \in 1 .. Len(log.ledger) : log.ledger[i].owner # f
    <3>1. Home[f] \in Taken
      BY <2>5, PathsAssumption, FilesAssumption DEF Taken
    <3>2. Located(log, f) = Home[f]
      BY <2>4, <2>5, <2>l, <3>1, LocatedAt
    <3> QED
      BY <2>5, <3>2 DEF Here
  <2>6. ASSUME NEW i \in 1 .. Len(log.ledger), LastOf(log, i, f), Holds(at, log.ledger[i])
        PROVE  at[Here(f)] = f
    <3> DEFINE e == log.ledger[i]
    <3>1. e \in Entry /\ e.owner = f
      BY <2>6, <2>l DEF LastOf
    <3>2. e.src \in Path /\ e.dst \in Path /\ ~Ambiguous(e)
      BY <3>1, <2>4 DEF Entry
    <3>3. Here(f) = EntryPlace(e)
      BY <2>6, <2>4, <2>l, LocatedAt DEF Here, LastOf
    <3>4. e.src \in Temps => at[e.src] \in {f, Nobody}
      BY <3>1 DEF Temporary, Apart, Temp
    <3> HIDE DEF e
    <3>5. Here(f) = EntryPlace(e) /\ at[EntryPlace(e)] # Nobody
      BY <3>3, <2>h DEF e, Taken
    <3>6. CASE e.state = "completed"
      BY <3>1, <3>5, <3>6, <2>6 DEF Holds, EntryPlace, e
    <3>7. CASE e.state = "rolled_back"
      BY <3>1, <3>4, <3>5, <3>7, <2>6 DEF Holds, EntryPlace, e
    <3>8. CASE e.state = "intent"
      <4>1. at[e.src] = f \/ at[e.dst] = f
        BY <3>1, <3>8, <2>6 DEF Holds, e
      <4> QED
        BY <4>1, <3>2, <3>5, <3>8, FilesAssumption DEF Ambiguous, EntryPlace, Taken
    <3> QED
      BY <3>1, <3>2, <3>6, <3>7, <3>8 DEF Entry, Ambiguous
  <2> QED
    BY <2>3, <2>5, <2>6 DEF Tells
<1> QED
  BY <1>1, <1>2, <1>b DEF Mistakable

(* What holds as long as recovery can tell the files apart.                *)
Sure == Places /\ Temporary /\ Traced

(* It does at the start, and then after every step.                        *)
LEMMA SureInductive ==
    /\ Init => Invariant /\ Sure
    /\ Invariant /\ (~Mistakable => Sure) /\ [Next]_vars => Invariant' /\ (~Mistakable => Sure)'
    /\ Invariant /\ [Next]_vars => (Mistakable => Mistakable')
<1>1. ASSUME Init PROVE Sure
  <2>1. /\ pc = "new" /\ moved = <<>> /\ mem = NoJournal /\ log = NoJournal
        /\ NoJournal.ledger = <<>> /\ NoJournal.batch = "none"
    BY <1>1 DEF Init, NoWork, NoJournal
  <2>2. 1 .. Len(mem.ledger) = {} /\ 1 .. Len(log.ledger) = {} /\ 1 .. Len(moved) = {}
    BY <2>1
  <2>3. Temporary
    BY <2>1, <2>2 DEF Temporary, Apart, Grown, Runs
  <2>4. Trail /\ ~Runs /\ ~Offered
    BY <2>1, <2>2 DEF Trail, Runs, Offered
  <2> QED
    BY <1>1, <2>1, <2>3, <2>4, InitPlaces DEF Sure, Traced
<1>2. ASSUME Invariant, [Next]_vars, Mistakable PROVE Mistakable'
  <2>1. alike' = alike
    BY <1>2 DEF Next, vars
  <2>2. CASE Meddle
    BY <2>1, <2>2, <1>2 DEF Meddle, Mistakable
  <2>3. CASE ~Meddle
    BY <2>1, <2>3, <1>2, PastSteps DEF Mistakable
  <2> QED
    BY <2>2, <2>3
<1>3. ASSUME Invariant, Sure, ~Mistakable, [Next]_vars PROVE Sure'
  <2>1. Typed /\ Phases /\ Single /\ Underway /\ Ledgers
    BY <1>3 DEF Invariant, Sure, Places
  <2>2. Recognised
    BY <1>3, <2>1, Knows DEF Sure
  <2> QED
    BY <1>3, <2>1, <2>2, PlacesStep, TemporaryStep, TracedStep DEF Sure
<1> QED
  BY <1>1, <1>2, <1>3, Inductive

(* No file is given the tags saved for another one, wherever the batch     *)
(* crashed, however often its recovery is repeated and whatever values the *)
(* files are given: as long as no worker ended before it noted what it had *)
(* taken back, or the files are given distinct values.                     *)
THEOREM TagsStayOwn == Spec => []TagsAreOwn
<1>1. (~Mistakable => Sure) => TagsAreOwn
  BY DEF Sure, Places, Single, TagsAreOwn
<1> QED
  BY <1>1, SureInductive, PTL DEF Spec

(* Recovery writes over no field of the batch that another program has     *)
(* changed since, in any file, whether another's or of the batch: with the *)
(* same exception.                                                         *)
THEOREM ForeignStays == Spec => []ForeignKept
<1>2. Init => ForeignKept
  BY DEF Init, ForeignKept
<1>3. Invariant /\ (~Mistakable => Sure) /\ ForeignKept /\ [Next]_vars => ForeignKept'
  <2> SUFFICES ASSUME Invariant, ~Mistakable => Sure, ForeignKept, [Next]_vars, ~Mistakable'
               PROVE  "theirs" \notin lost'
    BY DEF ForeignKept
  <2>0. ~Mistakable /\ Sure /\ "theirs" \notin lost
    BY SureInductive DEF ForeignKept
  <2>1. CASE UNCHANGED lost
    BY <2>0, <2>1
  <2>2. ASSUME NEW f \in File, Restore(f), lost' # lost PROVE "theirs" \notin lost'
    <3>1. tags[f].what # "theirs" /\ lost' \in {lost, lost \cup {tags[f].what}}
      BY <2>0, <2>2, RestoresOwn DEF Invariant, Sure, Places
    <3> QED
      BY <2>0, <3>1
  <2> QED
    BY <2>1, <2>2, Writers
<1> QED
  BY <1>2, <1>3, SureInductive, PTL DEF Spec

(* Files of the batch are moved, never overwritten, in the renames of      *)
(* Apply, in their rollback and in those of recovery; and those of others  *)
(* stay put, but for one that comes between the worker's look at a name    *)
(* and its move, and for what is taken for a file of the batch.            *)
THEOREM NothingLost == Spec => NothingOverwritten
<1>1. ASSUME Invariant, [Next]_vars, NEW p \in Path, at[p] \in File
      PROVE  \E q \in Path : at'[q] = at[p]
  <2>t. TypeOK /\ Quiet /\ Looked /\ at \in [Path -> File \cup {Nobody, Stranger}]
    BY <1>1 DEF Invariant, Typed, TypeOK
  <2>f. at[p] # Nobody /\ at[p] # Stranger
    BY <1>1, FilesAssumption
  <2>m. ASSUME NEW s \in Path, NEW d \in Path, Open(d), at[s] # Nobody,
               at' = [at EXCEPT ![d] = at[s], ![s] = Nobody]
        PROVE  \E q \in Path : at'[q] = at[p]
    <3>1. CASE p = s
      <4>1. s # d
        BY <3>1, <2>m, <2>f DEF Open
      <4>2. at'[d] = at[s]
        BY <4>1, <2>m, <2>t
      <4> QED
        BY <3>1, <4>2
    <3>2. CASE p # s
      <4>1. p # d
        BY <2>m, <2>f DEF Open
      <4>2. at'[p] = at[p]
        BY <3>2, <4>1, <2>m, <2>t
      <4> QED
        BY <4>2
    <3> QED
      BY <3>1, <3>2
  <2>1. CASE UNCHANGED at
    BY <2>1
  <2>2. CASE MoveFile /\ at' # at
    <3>1. /\ pc = "move" /\ clear /\ at[Noted.src] # Nobody
          /\ at' = [at EXCEPT ![Noted.dst] = at[Noted.src], ![Noted.src] = Nobody]
      BY <2>2 DEF MoveFile, Noted
    <3>2. Len(mem.ledger) \in 1 .. Len(mem.ledger)
      <4>1. mem.ledger \in Seq(Entry) /\ mem.ledger # <<>>
        BY <3>1, <2>t DEF Quiet, TypeOK, Journal
      <4> QED
        BY <4>1
    <3>3. Noted.src \in Path /\ Noted.dst \in Path /\ Open(Noted.dst)
      BY <3>1, <3>2, <2>t, EntryTyped DEF Looked, Noted
    <3> QED
      BY <3>1, <3>3, <2>m
  <2>3. CASE RollBackMove /\ at' # at
    <3> DEFINE e == mem.ledger[Last(moved)]
    <3>1. /\ pc = "rollback" /\ moved # <<>> /\ clear
          /\ at' = [at EXCEPT ![e.src] = at[e.dst], ![e.dst] = Nobody]
      BY <2>3 DEF RollBackMove
    <3>2. Last(moved) \in 1 .. Len(mem.ledger)
      BY <3>1, <2>t, FrontOf DEF TypeOK
    <3>3. e.src \in Path /\ e.dst \in Path /\ Open(e.src) /\ at[e.dst] # Nobody
      BY <3>1, <3>2, <2>t, EntryTyped DEF Looked
    <3> HIDE DEF e
    <3> QED
      BY <3>1, <3>3, <2>m
  <2>4. CASE Meddle
    <3>1. at'[p] = at[p]
      BY <2>4, <2>f, <2>t DEF Meddle, Taken
    <3> QED
      BY <3>1
  <2> QED
    BY <2>1, <2>2, <2>3, <2>4, <1>1, Writers
<1>2. ASSUME Invariant, ~Mistakable => Sure, [Next]_vars, ~Mistakable,
             NEW p \in Path \ late, at[p] = Stranger
      PROVE  at'[p] = Stranger
  <2>1. Typed /\ Underway /\ Ledgers /\ members \subseteq File
    BY <1>2 DEF Invariant, Sure, Places, Typed, TypeOK
  <2> QED
    BY <2>1, <1>2, Kept, FilesAssumption
<1>3. Invariant /\ (~Mistakable => Sure) /\ [Next]_vars =>
        [/\ \A p \in Path : at[p] \in File => \E q \in Path : at'[q] = at[p]
         /\ ~Mistakable => \A p \in Path \ late : at[p] = Stranger => at'[p] = Stranger]_vars
  BY <1>1, <1>2
<1> QED
  BY <1>3, SureInductive, PTL DEF Spec, NothingOverwritten

----------------------------------------------------------------------------
(* No batch is left half done without a journal on offer.                  *)

(* No recovery has begun yet; a file that gets another name.               *)
Fresh == budget.recoveries = MaxRecoveries
Renamed(x) == Home[x] # Target[x]

(* Once a recovery has begun the worker does nothing but recover.          *)
Jobs ==
    /\ pc = "new" \/ (Runs /\ job = "apply") => Fresh
    /\ job = "recovery" => ~Fresh
    /\ pc \in {"new", "idle"} => job = "apply"

(* What the journal says was written was written, and while Apply runs the *)
(* worker has not changed the file since; nor a file it has still to write. *)
Accounts ==
    /\ \A x \in File :
            /\ log.state[x] \in {"verified", "complete"} => x \in log.posted
            /\ mem.state[x] \in {"verified", "complete"} => x \in mem.posted
    /\ job = "recovery" => mem.posted = log.posted
    /\ pc \in Setup => \A x \in File : outcome[x] # "success"
    /\ job = "apply" => \A x \in members : outcome[x] = "success"
    /\ Runs /\ job = "apply" => \A x \in File :
            /\ x \in left => stamp[x] \in {"scanned", "edited"}
            /\ outcome[x] = "success" => x \in mem.posted /\ stamp[x] \in {Posted(x), "edited"}

(* The worker keeps to its job, and only a recovery spends a recovery.      *)
LEMMA JobSteps ==
    ASSUME Typed, [Next]_vars
    PROVE  \/ BeginRecovery
           \/ /\ budget'.recoveries = budget.recoveries
              /\ pc' = "new" => pc = "new"
              /\ \/ job' = job /\ (Runs' => pc # "idle") /\ (pc' = "idle" => pc \in {"idle"} \cup Setup)
                 \/ job' = "apply" /\ pc' = "idle"
<1>t. TypeOK
  BY DEF Typed
<1>b. budget \in Bounds
  BY <1>t DEF TypeOK, Bounds
<1>f. \A n : [budget EXCEPT !.faults = n].recoveries = budget.recoveries
  BY <1>b DEF Bounds
<1> DEFINE G == \/ BeginRecovery
                \/ /\ budget'.recoveries = budget.recoveries
                   /\ pc' = "new" => pc = "new"
                   /\ \/ job' = job /\ (Runs' => pc # "idle") /\ (pc' = "idle" => pc \in {"idle"} \cup Setup)
                      \/ job' = "apply" /\ pc' = "idle"
<1>1. ASSUME NEW C \in plan, BeginComponent(C) PROVE G
  BY <1>1, <1>t, <1>f DEF BeginComponent, diskVars, txnVars, Runs, Setup
<1>2. CASE Intend
  BY <1>2, <1>t, <1>f DEF Intend, diskVars, jobVars, Fault, Runs, Setup
<1>3. CASE MoveFile
  BY <1>3, <1>t, <1>f DEF MoveFile, jobVars, Fault, Runs, Setup
<1>4. CASE NoteMove
  BY <1>4, <1>t, <1>f DEF NoteMove, diskVars, jobVars, Persist, Fault, Runs, Setup
<1>5. CASE RollBackMove
  BY <1>5, <1>t, <1>f DEF RollBackMove, jobVars, Fault, Runs, Setup
<1>6. CASE NoteRollback
  BY <1>6, <1>t, <1>f DEF NoteRollback, diskVars, jobVars, Persist, Fault, Runs, Setup
<1>7. CASE NoteAgain
  BY <1>7, <1>t, <1>f DEF NoteAgain, diskVars, txnVars, jobVars, Persist, Fault, Runs, Setup
<1>8. CASE BeginApply
  BY <1>8, <1>t, <1>f DEF BeginApply, diskVars, txnVars, Persist, Fault, Runs, Setup
<1>9. CASE WriteManifest
  BY <1>9, <1>t, <1>f DEF WriteManifest, diskVars, txnVars, jobVars, BackupFails, Fault, Runs, Setup
<1>10. CASE WriteBinding
  BY <1>10, <1>t, <1>f DEF WriteBinding, diskVars, txnVars, jobVars, BackupFails, Fault, Runs, Setup
<1>11. CASE Abort
  BY <1>11, <1>t, <1>f DEF Abort, diskVars, txnVars, jobVars, Persist, Fault, Runs, Setup
<1>12. CASE StartApplying
  BY <1>12, <1>t, <1>f DEF StartApplying, diskVars, txnVars, jobVars, Persist, Fault, Runs, Setup
<1>13. ASSUME NEW f \in File, WriteTags(f) PROVE G
  BY <1>13, <1>t, <1>f DEF WriteTags, txnVars, Fault, Runs, Setup
<1>14. CASE Note
  BY <1>14, <1>t, <1>f DEF Note, diskVars, txnVars, Persist, Fault, Runs, Setup
<1>15. CASE StopWriting
  BY <1>15, <1>t, <1>f DEF StopWriting, diskVars, txnVars, Persist, Fault, Runs, Setup
<1>16. CASE ApplyComponent
  BY <1>16, <1>t, <1>f DEF ApplyComponent, TypeOK, Persist, Fault, Runs, Setup
<1>17. CASE EndRenames
  BY <1>17, <1>t, <1>f DEF EndRenames, diskVars, txnVars, Persist, Fault, Runs, Setup
<1>18. CASE Close
  BY <1>18, <1>t, <1>f DEF Close, diskVars, txnVars, jobVars, Persist, Fault, Runs, Setup
<1>19. CASE RemoveJournal
  BY <1>19, <1>t, <1>f DEF RemoveJournal, diskVars, txnVars, jobVars, Retire, Fault, Runs, Setup
<1>20. CASE FinalizeManifest
  BY <1>20, <1>t, <1>f DEF FinalizeManifest, diskVars, txnVars, jobVars, WorkEnds, EndTxn, Fault, Runs,
     Setup
<1>21. CASE Seal
  BY <1>21, <1>t, <1>f DEF Seal, diskVars, WorkEnds, EndTxn, Fault, Runs, Setup
<1>22. CASE BeginRecovery
  BY <1>22
<1>23. CASE RecoveryComponent
  BY <1>23, <1>t, <1>f DEF RecoveryComponent, diskVars, EndTxn, Runs, Setup
<1>24. CASE BeginRestore
  BY <1>24, <1>t, <1>f DEF BeginRestore, diskVars, txnVars, jobVars, Runs, Setup
<1>25. ASSUME NEW f \in File, Restore(f) PROVE G
  BY <1>25, <1>t, <1>f DEF Restore, txnVars, Fault, Runs, Setup
<1>26. CASE EndRecovery
  BY <1>26, <1>t, <1>f DEF EndRecovery, diskVars, Retire, WorkEnds, EndTxn, Fault, Runs, Setup
<1>27. CASE Reconcile
  BY <1>27, <1>t, <1>f DEF Reconcile, diskVars, txnVars, jobVars, Retire, Fault, Runs, Setup
<1>28. CASE Forget \/ Cancel \/ Rest \/ UNCHANGED vars
  BY <1>28, <1>t, <1>f DEF Forget, diskVars, txnVars, jobVars, Retire, Fault, Runs, Setup, Cancel, Rest,
     vars
<1>30. CASE Crash
  BY <1>30, <1>b DEF Crash, Bounds, WorkEnds, EndTxn
<1>31. CASE Meddle
  BY <1>31, <1>b DEF Meddle, Bounds, jobVars, Runs, Setup
<1>34. CASE Look
  BY <1>34, <1>t, <1>f DEF Look, diskVars, txnVars, jobVars, Runs, Setup
<1> QED
  BY <1>1, <1>2, <1>3, <1>4, <1>5, <1>6, <1>7, <1>8, <1>9, <1>10, <1>11, <1>12, <1>13,
     <1>14, <1>15, <1>16, <1>17, <1>18, <1>19, <1>20, <1>21, <1>22, <1>23, <1>24, <1>25,
     <1>26, <1>27, <1>28, <1>30, <1>31, <1>34 DEF Next, TxnStep, ApplyStep, RecoveryStep

(* Who recovers does nothing else. *)
LEMMA JobsStep == Typed /\ Phases /\ Jobs /\ [Next]_vars => Jobs'
<1> SUFFICES ASSUME Typed, Phases, Jobs, [Next]_vars PROVE Jobs'
  OBVIOUS
<1>b. budget \in Bounds /\ budget' \in Bounds /\ job \in {"apply", "recovery"}
  BY TypedStep DEF Typed, TypeOK, Bounds
<1>s. pc \in Setup => job = "apply"
  BY DEF Phases, InApply
<1>1. CASE BeginRecovery
  <2>1. budget'.recoveries = budget.recoveries - 1 /\ pc' = "renames" /\ job' = "recovery"
    BY <1>1, <1>b DEF BeginRecovery, Bounds
  <2>2. budget'.recoveries # MaxRecoveries
    BY <2>1, <1>b, BoundsAssumption DEF Bounds
  <2> QED
    BY <2>1, <2>2 DEF Jobs, Fresh, Runs
<1>2. CASE ~BeginRecovery
  <2>1. Fresh' = Fresh
    BY <1>2, JobSteps DEF Fresh
  <2> QED
    BY <1>2, <1>s, <2>1, JobSteps DEF Jobs, Runs
<1> QED
  BY <1>1, <1>2

(* A file counts as complete when its component is, or if it was to keep   *)
(* its name.                                                               *)
Completes(x) ==
    \/ ApplyComponent /\ status = "ok" /\ x \in members
    \/ EndRenames /\ outcome[x] = "success" /\ x \notin OwnersOf(ApplyMoves)

(* What becomes of the states in the worker's journal.                     *)
LEMMA StateSteps ==
    ASSUME Typed, [Next]_vars
    PROVE  \/ mem' = NoJournal /\ pc' = "idle" /\ job' = "apply"
           \/ BeginApply \/ BeginRecovery
           \/ \E f \in File : WriteTags(f)
           \/ /\ mem'.posted = mem.posted
              /\ \A x \in File : \/ mem'.state[x] = mem.state[x]
                                \/ mem'.state[x] \notin {"verified", "complete"}
                                \/ Completes(x)
<1>t. TypeOK /\ mem \in Journal
  BY DEF Typed, TypeOK
<1>m. mem.state \in [File -> FileState]
  BY <1>t DEF Journal
<1>s. \A s : [mem EXCEPT !.state = s].state = s /\ [mem EXCEPT !.state = s].posted = mem.posted
  BY <1>t DEF Journal
<1>b. \A b : [mem EXCEPT !.batch = b].state = mem.state /\ [mem EXCEPT !.batch = b].posted = mem.posted
  BY <1>t DEF Journal
<1>p. \A S : /\ PartialIn(S).posted = mem.posted
            /\ \A x \in File : PartialIn(S).state[x] \in {mem.state[x], "partial"}
  BY <1>t, <1>m DEF PartialIn, Journal
<1> DEFINE G == \/ mem' = NoJournal /\ pc' = "idle" /\ job' = "apply"
                \/ BeginApply \/ BeginRecovery
                \/ \E f \in File : WriteTags(f)
                \/ /\ mem'.posted = mem.posted
                   /\ \A x \in File : \/ mem'.state[x] = mem.state[x]
                                     \/ mem'.state[x] \notin {"verified", "complete"}
                                     \/ Completes(x)
<1>u. mem' = mem => G
  OBVIOUS
<1>l. ASSUME mem'.state = mem.state, mem'.posted = mem.posted PROVE G
  BY <1>l
<1> HIDE DEF G
<1>1. ASSUME NEW C \in plan, BeginComponent(C) PROVE G
  <2>1. mem' = mem \/ mem' = PartialIn(OwnersOf(C))
    BY <1>1 DEF BeginComponent
  <2> QED
    BY <2>1, <1>u, <1>p DEF G
<1>2. CASE Intend
  <2>1. mem'.posted = mem.posted /\ (pc # "renames" => mem'.state = mem.state)
    BY <1>2, TxnJournal
  <2> QED
    BY <2>1, <1>2, <1>l DEF Intend
<1>3. CASE MoveFile
  <2>1. mem'.posted = mem.posted /\ (pc # "renames" => mem'.state = mem.state)
    BY <1>3, TxnJournal
  <2> QED
    BY <2>1, <1>3, <1>l DEF MoveFile
<1>4. CASE NoteMove
  BY <1>4, <1>u DEF NoteMove, diskVars, jobVars, Persist, Fault
<1>5. CASE RollBackMove
  <2>1. mem'.posted = mem.posted /\ (pc # "renames" => mem'.state = mem.state)
    BY <1>5, TxnJournal
  <2> QED
    BY <2>1, <1>5, <1>l DEF RollBackMove
<1>6. CASE NoteRollback
  BY <1>6, <1>u DEF NoteRollback, diskVars, jobVars, Persist, Fault
<1>7. CASE NoteAgain
  BY <1>7, <1>u DEF NoteAgain, diskVars, txnVars, jobVars, Persist, Fault
<1>8. CASE BeginApply
  BY <1>8 DEF G
<1>9. CASE WriteManifest
  <2>1. mem' = mem \/ mem' = [mem EXCEPT !.batch = "failed"]
    BY <1>9 DEF WriteManifest, BackupFails
  <2> QED
    BY <2>1, <1>u, <1>b, <1>l
<1>10. CASE WriteBinding
  <2>1. mem' = mem \/ mem' = [mem EXCEPT !.batch = "failed"]
    BY <1>10 DEF WriteBinding, BackupFails
  <2> QED
    BY <2>1, <1>u, <1>b, <1>l
<1>11. CASE Abort
  BY <1>11, <1>u DEF Abort, diskVars, txnVars, jobVars, Persist, Fault
<1>12. CASE StartApplying
  <2> DEFINE s == [f \in File |-> "backed_up"]
  <2>1. mem' = [mem EXCEPT !.batch = "applying", !.state = s]
    BY <1>12 DEF StartApplying, Persist
  <2>2. mem'.posted = mem.posted /\ mem'.state = s
    <3> HIDE DEF s
    <3> QED
      BY <2>1, <1>t DEF Journal
  <2> QED
    BY <2>2 DEF G
<1>13. ASSUME NEW f \in File, WriteTags(f) PROVE G
  BY <1>13 DEF G
<1>14. CASE Note
  BY <1>14, <1>u DEF Note, diskVars, txnVars, Persist, Fault
<1>15. CASE StopWriting
  <2> DEFINE s == [f \in File |-> IF f \in left THEN "cancelled" ELSE mem.state[f]]
  <2>1. mem' = [mem EXCEPT !.state = s]
    BY <1>15 DEF StopWriting, Persist
  <2>2. mem'.posted = mem.posted /\ mem'.state = s
    <3> HIDE DEF s
    <3> QED
      BY <2>1, <1>s
  <2> QED
    BY <2>2 DEF G
<1>16. CASE ApplyComponent
  <2> DEFINE s(w) == [f \in File |-> IF f \in members THEN w ELSE mem.state[f]]
  <2>1. \/ status = "ok" /\ mem' = [mem EXCEPT !.state = s("complete")]
        \/ mem' = PartialIn(members)
        \/ mem' = [mem EXCEPT !.state = s("unresolved")]
    BY <1>16, <1>t DEF ApplyComponent, Persist, TypeOK
  <2>2. \A w : \A x \in File : s(w)[x] = IF x \in members THEN w ELSE mem.state[x]
    OBVIOUS
  <2>3. \/ mem' = PartialIn(members)
        \/ /\ mem'.posted = mem.posted
           /\ \/ status = "ok" /\ mem'.state = s("complete")
              \/ mem'.state = s("unresolved")
    <3> HIDE DEF s
    <3> QED
      BY <2>1, <1>s
  <2> HIDE DEF s
  <2> QED
    BY <2>2, <2>3, <1>16, <1>p DEF G, Completes
<1>17. CASE EndRenames
  <2> DEFINE s == [f \in File |-> IF outcome[f] = "success" /\ f \notin OwnersOf(ApplyMoves)
                                THEN "complete" ELSE mem.state[f]]
  <2>1. mem' = [mem EXCEPT !.state = s]
    BY <1>17 DEF EndRenames, Persist
  <2>2. \A x \in File : s[x] = mem.state[x] \/ Completes(x)
    BY <1>17 DEF Completes
  <2>3. mem'.posted = mem.posted /\ mem'.state = s
    <3> HIDE DEF s
    <3> QED
      BY <2>1, <1>s
  <2> HIDE DEF s
  <2> QED
    BY <2>2, <2>3 DEF G
<1>18. CASE Close
  <2>1. mem' = mem \/ mem' = [mem EXCEPT !.batch = "done"]
    BY <1>18 DEF Close, Persist
  <2> QED
    BY <2>1, <1>u, <1>b, <1>l
<1>19. CASE RemoveJournal
  BY <1>19, <1>u DEF RemoveJournal, diskVars, txnVars, jobVars, Retire, Fault
<1>20. CASE FinalizeManifest
  BY <1>20, <1>u DEF FinalizeManifest, WorkEnds, G
<1>21. CASE Seal
  BY <1>21 DEF Seal, WorkEnds, G
<1>22. CASE BeginRecovery
  BY <1>22 DEF G
<1>23. CASE RecoveryComponent
  BY <1>23, <1>u DEF RecoveryComponent, diskVars, EndTxn
<1>24. CASE BeginRestore
  BY <1>24, <1>u DEF BeginRestore, diskVars, txnVars, jobVars
<1>25. ASSUME NEW f \in File, Restore(f) PROVE G
  BY <1>25, <1>u DEF Restore, txnVars, Fault
<1>26. CASE EndRecovery
  BY <1>26 DEF EndRecovery, WorkEnds, G
<1>27. CASE Reconcile
  BY <1>27, <1>u DEF Reconcile, diskVars, txnVars, jobVars, Retire, Fault
<1>28. CASE Forget \/ Cancel \/ Rest \/ UNCHANGED vars
  BY <1>28, <1>u DEF Forget, diskVars, txnVars, jobVars, Retire, Fault, Cancel, Rest, vars
<1>30. CASE Crash
  BY <1>30 DEF Crash, WorkEnds, G
<1>31. CASE Meddle
  BY <1>31, <1>u DEF Meddle, txnVars, jobVars
<1>34. CASE Look
  BY <1>34, <1>u DEF Look, diskVars, txnVars, jobVars
<1> QED
  BY <1>1, <1>2, <1>3, <1>4, <1>5, <1>6, <1>7, <1>8, <1>9, <1>10, <1>11, <1>12, <1>13,
     <1>14, <1>15, <1>16, <1>17, <1>18, <1>19, <1>20, <1>21, <1>22, <1>23, <1>24, <1>25,
     <1>26, <1>27, <1>28, <1>30, <1>31, <1>34 DEF Next, TxnStep, ApplyStep,
     RecoveryStep, G

(* A file becomes a success when its tags have been written.               *)
LEMMA OutcomeSteps ==
    ASSUME Typed, [Next]_vars
    PROVE  /\ BeginApply \/ BeginRecovery \/ left' \subseteq left
           /\ BeginRecovery \/ \A x \in File : outcome'[x] = "success" => outcome[x] = "success" \/ WriteTags(x)
<1>t. TypeOK /\ DOMAIN outcome = File
  BY DEF Typed, TypeOK
<1> DEFINE G == /\ BeginApply \/ BeginRecovery \/ left' \subseteq left
                /\ BeginRecovery \/ \A x \in File : outcome'[x] = "success" => outcome[x] = "success" \/ WriteTags(x)
<1>p. \A S : \A x \in File : PartsOf(S)[x] = "success" => outcome[x] = "success"
  BY DEF PartsOf
<1>u. ASSUME outcome' = outcome, left' = left PROVE G
  BY <1>u
<1>1. ASSUME NEW C \in plan, BeginComponent(C) PROVE G
  <2>1. left' = left /\ outcome' \in {outcome, PartsOf(OwnersOf(C))}
    BY <1>1 DEF BeginComponent
  <2> QED
    BY <2>1, <1>p
<1>2. CASE Intend
  BY <1>2, <1>u DEF Intend, jobVars
<1>3. CASE MoveFile
  BY <1>3, <1>u DEF MoveFile, jobVars
<1>4. CASE NoteMove
  BY <1>4, <1>u DEF NoteMove, diskVars, jobVars, Persist, Fault
<1>5. CASE RollBackMove
  BY <1>5, <1>u DEF RollBackMove, jobVars
<1>6. CASE NoteRollback
  BY <1>6, <1>u DEF NoteRollback, diskVars, jobVars, Persist, Fault
<1>7. CASE NoteAgain
  BY <1>7, <1>u DEF NoteAgain, diskVars, txnVars, jobVars, Persist, Fault
<1>8. CASE BeginApply
  BY <1>8, <1>u DEF BeginApply, diskVars, txnVars, Persist, Fault
<1>9. CASE WriteManifest
  BY <1>9, <1>u DEF WriteManifest, diskVars, txnVars, jobVars, BackupFails, Fault
<1>10. CASE WriteBinding
  BY <1>10, <1>u DEF WriteBinding, diskVars, txnVars, jobVars, BackupFails, Fault
<1>11. CASE Abort
  BY <1>11, <1>u DEF Abort, diskVars, txnVars, jobVars, Persist, Fault
<1>12. CASE StartApplying
  BY <1>12, <1>u DEF StartApplying, diskVars, txnVars, jobVars, Persist, Fault
<1>13. ASSUME NEW f \in File, WriteTags(f) PROVE G
  <2>1. left' \subseteq left /\ \E w : outcome' = [outcome EXCEPT ![f] = w]
    BY <1>13 DEF WriteTags
  <2> QED
    BY <2>1, <1>13, <1>t
<1>14. CASE Note
  BY <1>14, <1>u DEF Note, diskVars, txnVars, Persist, Fault
<1>15. CASE StopWriting
  BY <1>15, <1>u DEF StopWriting, diskVars, txnVars, Persist, Fault
<1>16. CASE ApplyComponent
  <2>1. left' = left
    BY <1>16 DEF ApplyComponent
  <2>2. \/ outcome' = outcome \/ outcome' = PartsOf(members)
        \/ outcome' = [f \in File |-> IF f \in members THEN "partial" ELSE outcome[f]]
    BY <1>16, <1>t DEF ApplyComponent, TypeOK
  <2> QED
    BY <2>1, <2>2, <1>p
<1>17. CASE EndRenames
  BY <1>17, <1>u DEF EndRenames, diskVars, txnVars, Persist, Fault
<1>18. CASE Close
  BY <1>18, <1>u DEF Close, diskVars, txnVars, jobVars, Persist, Fault
<1>19. CASE RemoveJournal
  BY <1>19, <1>u DEF RemoveJournal, diskVars, txnVars, jobVars, Retire, Fault
<1>20. CASE FinalizeManifest
  BY <1>20, <1>u DEF FinalizeManifest, WorkEnds, jobVars
<1>21. CASE Seal
  BY <1>21 DEF Seal, WorkEnds
<1>22. CASE BeginRecovery
  BY <1>22
<1>23. CASE RecoveryComponent
  BY <1>23, <1>u DEF RecoveryComponent, diskVars, EndTxn
<1>24. CASE BeginRestore
  BY <1>24, <1>u DEF BeginRestore, diskVars, txnVars, jobVars
<1>25. ASSUME NEW f \in File, Restore(f) PROVE G
  <2>1. left' \subseteq left /\ outcome' \in {outcome, [outcome EXCEPT ![f] = "failed"]}
    BY <1>25 DEF Restore
  <2> QED
    BY <2>1, <1>t
<1>26. CASE EndRecovery
  BY <1>26 DEF EndRecovery, WorkEnds
<1>27. CASE Reconcile
  BY <1>27, <1>u DEF Reconcile, diskVars, txnVars, jobVars, Retire, Fault
<1>28. CASE Forget \/ Cancel \/ Rest \/ UNCHANGED vars
  BY <1>28, <1>u DEF Forget, diskVars, txnVars, jobVars, Retire, Fault, Cancel, Rest, vars
<1>30. CASE Crash
  BY <1>30 DEF Crash, WorkEnds
<1>31. CASE Meddle
  BY <1>31, <1>u DEF Meddle, txnVars, jobVars
<1>34. CASE Look
  BY <1>34, <1>u DEF Look, diskVars, txnVars, jobVars
<1> QED
  BY <1>1, <1>2, <1>3, <1>4, <1>5, <1>6, <1>7, <1>8, <1>9, <1>10, <1>11, <1>12, <1>13,
     <1>14, <1>15, <1>16, <1>17, <1>18, <1>19, <1>20, <1>21, <1>22, <1>23, <1>24, <1>25,
     <1>26, <1>27, <1>28, <1>30, <1>31, <1>34 DEF Next, TxnStep, ApplyStep, RecoveryStep

(* The journal tells the truth about what was written.                     *)
LEMMA AccountsStep == Typed /\ Phases /\ Jobs /\ Accounts /\ [Next]_vars => Accounts'
<1> SUFFICES ASSUME Typed, Phases, Jobs, Accounts, [Next]_vars PROVE Accounts'
  OBVIOUS
<1>t. Typed' /\ Typed /\ TypeOK /\ TypeOK' /\ mem \in Journal /\ log \in Journal
  BY TypedStep DEF Typed, TypeOK
<1>n. \A x \in File : NoJournal.state[x] = "planned"
  BY DEF NoJournal
<1>a. /\ pc \in Setup \cup {"tags", "closing", "remove"} => job = "apply"
      /\ job \in {"apply", "recovery"} /\ job' \in {"apply", "recovery"}
  BY <1>t DEF Phases, InApply, TypeOK
<1>w. ASSUME NEW f \in File, WriteTags(f)
      PROVE  /\ pc = "tags" /\ job = "apply" /\ job' = "apply" /\ f \in left /\ f \notin left'
             /\ mem'.posted \in {mem.posted, mem.posted \cup {f}}
             /\ \A x \in File \ {f} : mem'.state[x] = mem.state[x] /\ stamp'[x] = stamp[x]
             /\ mem'.state[f] \in {"verified", "complete"} \/ outcome'[f] = "success" =>
                    f \in mem'.posted /\ stamp'[f] \in {Posted(f), "edited"}
  <2>0. /\ pc = "tags" /\ job = "apply" /\ job' = "apply" /\ f \in left /\ f \notin left'
        /\ stamp[f] \in {"scanned", "edited"}
    BY <1>w, <1>a DEF WriteTags, Accounts, Runs
  <2>t. mem.state \in [File -> FileState] /\ DOMAIN stamp = File /\ DOMAIN outcome = File
    BY <1>t DEF Journal, TypeOK
  <2>1. CASE /\ IF f \in Tagged THEN Put(f, [of |-> f, what |-> "new"], "applied")
                               ELSE UNCHANGED <<tags, stamp>>
             /\ mem' = [mem EXCEPT !.state[f] = "verified", !.posted = @ \cup {f}]
    <3>1. stamp'[f] \in {Posted(f), "edited"} /\ \A x \in File \ {f} : stamp'[x] = stamp[x]
      BY <2>1, <2>0, <2>t DEF Put, Posted
    <3>2. /\ mem'.posted = mem.posted \cup {f}
          /\ mem'.state = [mem.state EXCEPT ![f] = "verified"]
      BY <2>1, <1>t DEF Journal
    <3> QED
      BY <2>0, <2>t, <3>1, <3>2
  <2>2. CASE /\ mem' = [mem EXCEPT !.state[f] = "failed"]
             /\ outcome' = [outcome EXCEPT ![f] = "failed"]
             /\ UNCHANGED <<tags, stamp>>
    <3>1. mem'.posted = mem.posted /\ mem'.state = [mem.state EXCEPT ![f] = "failed"]
      BY <2>2, <1>t DEF Journal
    <3> QED
      BY <2>0, <2>t, <2>2, <3>1
  <2> QED
    BY <2>1, <2>2, <1>w DEF WriteTags
<1>c. \A x \in File : Completes(x) => job = "apply" /\ x \in mem.posted
  BY DEF Completes, ApplyComponent, EndRenames, Accounts, Runs
<1>1. \A x \in File : mem'.state[x] \in {"verified", "complete"} => x \in mem'.posted
  <2>1. CASE mem' = NoJournal
    BY <2>1, <1>n
  <2>2. CASE BeginApply
    <3>1. mem' = [NoJournal EXCEPT !.batch = "backing_up"]
      BY <2>2 DEF BeginApply, Persist
    <3>2. mem'.state = NoJournal.state
      BY <3>1 DEF NoJournal
    <3> QED
      BY <3>2, <1>n
  <2>3. CASE BeginRecovery
    BY <2>3 DEF BeginRecovery, Accounts
  <2>4. ASSUME NEW f \in File, WriteTags(f)
        PROVE  \A x \in File : mem'.state[x] \in {"verified", "complete"} => x \in mem'.posted
    BY <2>4, <1>w DEF Accounts
  <2>5. CASE /\ mem'.posted = mem.posted
             /\ \A x \in File : \/ mem'.state[x] = mem.state[x]
                                \/ mem'.state[x] \notin {"verified", "complete"}
                                \/ Completes(x)
    BY <2>5, <1>c DEF Accounts
  <2> QED
    BY <2>1, <2>2, <2>3, <2>4, <2>5, StateSteps
<1>2. \A x \in File : log'.state[x] \in {"verified", "complete"} => x \in log'.posted
  BY <1>1, <1>n, LogSteps DEF Accounts
<1>3. job' = "recovery" => mem'.posted = log'.posted
  <2> SUFFICES ASSUME job' = "recovery" PROVE mem'.posted = log'.posted
    OBVIOUS
  <2>1. CASE BeginRecovery
    BY <2>1 DEF BeginRecovery
  <2>2. CASE ~BeginRecovery
    <3>1. job = "recovery" /\ pc \notin {"new", "idle", "remove"} /\ pc' # "idle"
      BY <2>2, <1>a, JobSteps DEF Jobs
    <3>2. mem'.posted = mem.posted
      BY <2>2, <3>1, <1>w, StateSteps DEF BeginApply
    <3> QED
      BY <3>1, <3>2, LogSteps DEF Accounts
  <2> QED
    BY <2>1, <2>2
<1>4. pc' \in Setup => \A x \in File : outcome'[x] # "success"
  BY JournalPhase, OutcomeSteps DEF Accounts, WriteTags, BeginRecovery, Setup
<1>5. job' = "apply" => \A x \in members' : outcome'[x] = "success"
  <2> SUFFICES ASSUME job' = "apply", NEW x \in members' PROVE outcome'[x] = "success"
    OBVIOUS
  <2>1. pc' \in Renaming
    BY <1>t DEF Typed, Quiet
  <2>2. ASSUME NEW C \in plan, BeginComponent(C), pc' = "intent" PROVE outcome'[x] = "success"
    BY <2>2 DEF BeginComponent, txnVars, Accounts
  <2>3. CASE Carrying \/ Aside
    <3>1. outcome' = outcome /\ members' = members /\ job' = job
      BY <2>3 DEF Carrying, Aside, Intend, MoveFile, NoteMove, RollBackMove, NoteRollback, NoteAgain,
         txnVars, jobVars
    <3> QED
      BY <3>1 DEF Accounts
  <2> QED
    BY <2>1, <2>2, <2>3, RenamingSteps
<1>6. Runs' /\ job' = "apply" => \A x \in File :
            /\ x \in left' => stamp'[x] \in {"scanned", "edited"}
            /\ outcome'[x] = "success" => x \in mem'.posted /\ stamp'[x] \in {Posted(x), "edited"}
  <2> SUFFICES ASSUME Runs', job' = "apply", NEW x \in File
               PROVE  /\ x \in left' => stamp'[x] \in {"scanned", "edited"}
                      /\ outcome'[x] = "success" => x \in mem'.posted /\ stamp'[x] \in {Posted(x), "edited"}
    OBVIOUS
  <2>1. ~BeginRecovery /\ job = "apply" /\ pc # "idle" /\ (pc' = "new" => pc = "new") /\ pc' # "idle"
    BY JobSteps DEF BeginRecovery, Runs
  <2>2. CASE pc = "new"
    <3>1. ~UNCHANGED pc
      BY <2>2 DEF Runs
    <3>2. stamp' = stamp \/ \E f \in File : WriteTags(f) \/ Restore(f)
      BY <2>2, Writers DEF Meddle
    <3>3. stamp' = stamp
      BY <2>2, <3>2 DEF WriteTags, Restore
    <3>4. BeginApply
      BY <2>2, <3>1 DEF Next, TxnStep, ApplyStep, RecoveryStep, vars, BeginApply, Intend, MoveFile,
         NoteMove, RollBackMove, NoteRollback, NoteAgain, WriteManifest, WriteBinding, Abort,
         StartApplying, WriteTags, Note, StopWriting, ApplyComponent, EndRenames, Close, RemoveJournal,
         FinalizeManifest, Seal, BeginRecovery, RecoveryComponent, BeginRestore, Restore, EndRecovery,
         Reconcile, Forget, Cancel, Crash, Meddle, Rest, BeginComponent, Look
    <3>5. stamp[x] = "scanned" /\ outcome' = outcome
      BY <3>4 DEF BeginApply
    <3> QED
      BY <2>2, <3>3, <3>5 DEF Accounts, Setup
  <2>3. CASE pc # "new"
    <3>0. /\ x \in left => stamp[x] \in {"scanned", "edited"}
          /\ outcome[x] = "success" => x \in mem.posted /\ stamp[x] \in {Posted(x), "edited"}
      BY <2>1, <2>3 DEF Accounts, Runs
    <3>1. ASSUME NEW f \in File, WriteTags(f)
          PROVE  /\ x \in left' => stamp'[x] \in {"scanned", "edited"}
                 /\ outcome'[x] = "success" => x \in mem'.posted /\ stamp'[x] \in {Posted(x), "edited"}
      <4>1. left' \subseteq left /\ (x # f => outcome'[x] = outcome[x])
        BY <3>1, <1>t DEF WriteTags, TypeOK
      <4> QED
        BY <3>0, <3>1, <4>1, <1>w
    <3>2. CASE \A f \in File : ~WriteTags(f)
      <4>1. stamp'[x] \in {stamp[x], "edited"}
        <5>1. stamp' = stamp \/ Meddle
          BY <3>2, <2>1, Writers, <1>a DEF Restore, Phases, InRecovery
        <5>2. stamp \in [File -> {"scanned", "applied", "recovered", "edited"}]
          BY <1>t DEF TypeOK
        <5> QED
          BY <5>1, <5>2 DEF Meddle, Edit, Put
      <4>2. mem'.posted = mem.posted
        BY <3>2, <2>1, <2>3, StateSteps DEF BeginApply
      <4>3. left' \subseteq left /\ (outcome'[x] = "success" => outcome[x] = "success")
        BY <3>2, <2>1, <2>3, OutcomeSteps DEF BeginApply
      <4> QED
        BY <3>0, <4>1, <4>2, <4>3
    <3> QED
      BY <3>1, <3>2
  <2> QED
    BY <2>2, <2>3
<1> QED
  BY <1>1, <1>2, <1>3, <1>4, <1>5, <1>6 DEF Accounts

(* As long as no recovery has begun the worker applies.                    *)
LEMMA Freshness ==
    ASSUME Typed, Phases, Jobs, [Next]_vars, Fresh'
    PROVE  Fresh /\ job = "apply" /\ job' = "apply" /\ ~BeginRecovery
<1>1. Jobs' /\ job' \in {"apply", "recovery"} /\ job \in {"apply", "recovery"}
  BY JobsStep, TypedStep DEF Typed, TypeOK
<1>2. ~BeginRecovery
  BY <1>1 DEF Jobs, BeginRecovery
<1>3. Fresh
  BY <1>2, JobSteps DEF Fresh
<1> QED
  BY <1>1, <1>2, <1>3 DEF Jobs

(* What Apply plans to move starts at its home, or at a detour on its way. *)
Outset ==
    Fresh /\ Runs =>
        /\ \A C \in plan : \A m \in C : m.src = Home[m.owner] /\ Renamed(m.owner)
        /\ \A m \in moves : m.src \in Temps \cup {Home[m.owner]}
        /\ \A x \in members : Renamed(x)

(* The plan of Apply keeps to the homes of the files it renames. *)
LEMMA OutsetStep ==
    Typed /\ Phases /\ Jobs /\ Underway /\ Outset /\ [Next]_vars => Outset'
<1> SUFFICES ASSUME Typed, Phases, Jobs, Underway, Outset, [Next]_vars, Fresh', Runs'
             PROVE  Outset'
  BY DEF Outset
<1>f. Fresh /\ ~BeginRecovery
  BY Freshness
<1>q. pc' \notin Renaming => moves' = {} /\ members' = {}
  BY TypedStep DEF Typed, Quiet
<1>p. \/ BeginApply \/ \E C \in plan : BeginComponent(C)
      \/ Runs /\ plan' = plan /\ members' \in {members, {}}
  BY <1>f, PlanSteps DEF Runs
<1>1. CASE BeginApply
  <2>1. plan' = Components(ApplyMoves) /\ pc' \notin Renaming
    BY <1>1 DEF BeginApply, Persist, Renaming
  <2>2. ASSUME NEW C \in plan', NEW m \in C PROVE m.src = Home[m.owner] /\ Renamed(m.owner)
    <3>1. m \in ApplyMoves
      BY <2>1, <2>2 DEF Components
    <3> QED
      BY <3>1 DEF ApplyMoves, Move, Renamed
  <2> QED
    BY <2>1, <2>2, <1>q DEF Outset
<1>2. ASSUME NEW C \in plan, BeginComponent(C) PROVE Outset'
  <2>0. Runs
    BY <1>2 DEF BeginComponent, Runs
  <2>1. /\ plan' \subseteq plan
        /\ \/ moves' = moves /\ members' = members
           \/ moves' = C /\ members' = OwnersOf(C)
    BY <1>2 DEF BeginComponent, txnVars
  <2>2. \A m \in C : m.src = Home[m.owner] /\ Renamed(m.owner)
    BY <2>0, <1>f DEF Outset
  <2>3. \A x \in OwnersOf(C) : Renamed(x)
    BY <2>2 DEF OwnersOf
  <2> QED
    BY <2>0, <2>1, <2>2, <2>3, <1>f DEF Outset
<1>3. CASE Runs /\ plan' = plan /\ members' \in {members, {}}
  <2>1. moves' \subseteq moves \/ Intend
    <3>1. CASE pc' \notin Renaming
      BY <3>1, <1>q
    <3>2. ASSUME NEW C \in plan, BeginComponent(C) PROVE FALSE
      BY <1>3, <3>2 DEF BeginComponent
    <3>3. CASE Carrying \/ Aside
      BY <3>3 DEF Carrying, Aside, MoveFile, NoteMove, RollBackMove, NoteRollback, NoteAgain, txnVars
    <3> QED
      BY <3>1, <3>2, <3>3, RenamingSteps
  <2>2. ASSUME Intend, NEW m \in moves' PROVE m.src \in Temps \cup {Home[m.owner]}
    <3>1. moves' = moves \/ \E s \in Steps(moves, FreshTemps) : moves' = s.left
      BY <2>2 DEF Intend
    <3>2. pc = "intent"
      BY <2>2 DEF Intend
    <3>3. ASSUME NEW s \in Steps(moves, FreshTemps), m \in s.left
          PROVE  m \in moves \/ m.src \in Temps
      BY <3>2, <3>3, NextStep
    <3> QED
      BY <1>3, <1>f, <2>2, <3>1, <3>3 DEF Outset
  <2> QED
    BY <1>3, <1>f, <2>1, <2>2 DEF Outset
<1> QED
  BY <1>p, <1>1, <1>2, <1>3

(* Until a recovery begins every entry of the ledgers is one of Apply, and *)
(* only the last may be a move that has not been noted as done.            *)
Line(e) == Renamed(e.owner) /\ e.src \in Temps \cup {Home[e.owner]}
Noting ==
    Fresh =>
        /\ \A i \in 1 .. Len(mem.ledger) :
                /\ Line(mem.ledger[i])
                /\ mem.ledger[i].state = "intent" => pc = "move" /\ i = Len(mem.ledger)
        /\ \A i \in 1 .. Len(log.ledger) :
                /\ Line(log.ledger[i])
                /\ log.ledger[i].state = "intent" => i = Len(log.ledger)
        /\ pc = "move" => Noted.state = "intent"

(* Apply notes an intent only when the move before it is done. *)
LEMMA NotingStep ==
    Typed /\ Phases /\ Jobs /\ Underway /\ Outset /\ Noting /\ [Next]_vars => Noting'
<1> SUFFICES ASSUME Typed, Phases, Jobs, Underway, Outset, Noting, [Next]_vars, Fresh'
             PROVE  Noting'
  BY DEF Noting
<1>t. TypeOK /\ mem.ledger \in Seq(Entry) /\ Len(mem.ledger) \in Nat
  <2>1. mem \in Journal
    BY DEF Typed, TypeOK
  <2>2. mem.ledger \in Seq(Entry)
    BY <2>1 DEF Journal
  <2> QED
    BY <2>2 DEF Typed
<1>f. Fresh /\ ~BeginRecovery
  BY Freshness
<1>n. NoJournal.ledger = <<>> /\ 1 .. Len(NoJournal.ledger) = {}
  BY DEF NoJournal
<1>i. /\ \A i \in 1 .. Len(mem.ledger) :
              /\ Line(mem.ledger[i])
              /\ mem.ledger[i].state = "intent" => pc = "move" /\ i = Len(mem.ledger)
      /\ pc = "move" => Noted.state = "intent"
  BY <1>f DEF Noting
<1>1. /\ \A i \in 1 .. Len(mem'.ledger) :
              /\ Line(mem'.ledger[i])
              /\ mem'.ledger[i].state = "intent" => pc' = "move" /\ i = Len(mem'.ledger)
      /\ pc' = "move" => Noted'.state = "intent"
  <2>1. CASE ~Carrying
    <3>1. /\ mem'.ledger = mem.ledger \/ mem'.ledger = <<>>
          /\ pc' = "move" => pc = "move" /\ mem' = mem
          /\ pc = "move" => pc' = "move" \/ mem'.ledger = <<>>
      BY <2>1, <1>f, LedgerSteps
    <3>2. 1 .. Len(<<>>) = {}
      OBVIOUS
    <3>3. CASE mem'.ledger = <<>>
      <4>1. pc' # "move"
        BY <3>1, <3>3 DEF Typed, Quiet
      <4> QED
        BY <3>2, <3>3, <4>1
    <3>4. CASE mem'.ledger = mem.ledger /\ mem'.ledger # <<>>
      BY <3>1, <3>4, <1>i DEF Noted
    <3> QED
      BY <3>1, <3>3, <3>4
  <2>2. CASE Carrying
    <3>k. \A i \in 1 .. Len(mem.ledger) :
            /\ mem'.ledger[i].owner = mem.ledger[i].owner
            /\ mem'.ledger[i].src = mem.ledger[i].src
      BY <2>2, LedgerKept
    <3>l. \A i \in 1 .. Len(mem.ledger) : Line(mem'.ledger[i])
      BY <3>k, <1>i DEF Line
    <3>1. CASE Intend
      <4> DEFINE n == Len(mem.ledger) + 1
      <4>0. pc = "intent"
        BY <3>1 DEF Intend
      <4>1. PICK s \in Steps(moves, FreshTemps) :
                /\ Len(mem'.ledger) = n
                /\ mem'.ledger[n].owner = s.step.owner
                /\ mem'.ledger[n].src = s.step.src
        BY <2>2, <3>1, LedgerKept
      <4>2. mem'.ledger[n].state = IF pc' = "move" THEN "intent" ELSE "rolled_back"
        BY <2>2, <3>1, EntryStates
      <4>3. \A i \in 1 .. Len(mem.ledger) : mem'.ledger[i].state = mem.ledger[i].state
        BY <2>2, <3>1, <4>0, EntryStates DEF MoveFile, RollBackMove
      <4>4. Line(mem'.ledger[n])
        <5>1. s.step.owner \in members
          BY <4>0, NextStep
        <5>2. moves \in SUBSET [owner : File, src : Path, dst : Path]
          BY <1>t DEF TypeOK
        <5>3. PICK m \in moves : s.step.owner = m.owner /\ s.step.src = m.src
          BY <5>2, StepsTyped
        <5>4. Runs
          BY <4>0 DEF Runs
        <5> QED
          BY <4>1, <5>1, <5>3, <5>4, <1>f DEF Outset, Line
      <4>5. \A i \in 1 .. n : i = n \/ i \in 1 .. Len(mem.ledger)
        BY <1>t
      <4>6. \A i \in 1 .. Len(mem.ledger) : mem'.ledger[i].state # "intent"
        BY <4>0, <4>3, <1>i
      <4>7. mem'.ledger[n].state = "intent" => pc' = "move"
        BY <4>2
      <4>8. pc' = "move" => Noted'.state = "intent"
        BY <4>1, <4>2 DEF Noted
      <4> QED
        BY <4>1, <4>4, <4>5, <4>6, <4>7, <4>8, <3>l
    <3>2. CASE ~Intend
      <4>1. Len(mem'.ledger) = Len(mem.ledger)
        BY <2>2, <3>2, LedgerKept
      <4>2. pc' # "move"
        BY <2>2, <3>2 DEF Carrying, MoveFile, NoteMove, RollBackMove, NoteRollback, NoteAgain, Persist
      <4>3. \A i \in 1 .. Len(mem.ledger) : mem'.ledger[i].state # "intent"
        <5>1. MoveFile => /\ pc = "move" /\ Len(mem.ledger) \in 1 .. Len(mem.ledger)
                          /\ mem'.ledger[Len(mem.ledger)].state # "intent"
          BY <2>2, <1>t, EntryStates DEF MoveFile, Typed, Quiet
        <5>2. RollBackMove => pc = "rollback" /\ mem'.ledger[Last(moved)].state # "intent"
          BY <2>2, EntryStates DEF RollBackMove
        <5>3. ~MoveFile => pc # "move"
          BY <2>2, <3>2 DEF Carrying, NoteMove, RollBackMove, NoteRollback, NoteAgain
        <5> QED
          BY <2>2, <5>1, <5>2, <5>3, <1>i, EntryStates
      <4> QED
        BY <4>1, <4>2, <4>3, <3>l
    <3> QED
      BY <3>1, <3>2
  <2> QED
    BY <2>1, <2>2
<1>2. \A i \in 1 .. Len(log'.ledger) :
            /\ Line(log'.ledger[i])
            /\ log'.ledger[i].state = "intent" => i = Len(log'.ledger)
  <2>1. CASE log' = log
    BY <2>1, <1>f DEF Noting
  <2>2. CASE log' = mem'
    BY <2>2, <1>1
  <2>3. CASE log' = NoJournal
    BY <2>3, <1>n
  <2> QED
    BY <2>1, <2>2, <2>3, LogSteps
<1> QED
  BY <1>1, <1>2 DEF Noting

(* Until a recovery begins a file that keeps its name stays at it, and one *)
(* that counts as complete at its new name.                                *)
Standing ==
    Fresh => \A x \in File :
        /\ ~Renamed(x) => at[Home[x]] = x
        /\ log.state[x] = "complete" \/ mem.state[x] = "complete" =>
                at[Target[x]] = x /\ x \notin members

(* A component under way is one of the plan, or has been.                  *)
LEMMA MembersStep ==
    ASSUME Typed, Phases, Jobs, Single, PlanSound, Outset, [Next]_vars, Fresh',
           NEW x \in File, at[Target[x]] = x, x \notin members
    PROVE  x \notin members'
<1> SUFFICES ASSUME x \in members' PROVE FALSE
  OBVIOUS
<1>f. Fresh /\ ~BeginRecovery
  BY Freshness
<1>1. pc' \in Renaming
  BY TypedStep DEF Typed, Quiet
<1>2. ~Carrying /\ ~Aside
  BY DEF Carrying, Aside, Intend, MoveFile, NoteMove, RollBackMove, NoteRollback, NoteAgain, txnVars
<1>3. PICK C \in plan : BeginComponent(C)
  BY <1>1, <1>2, RenamingSteps
<1>4. x \in OwnersOf(C) /\ Runs
  BY <1>3 DEF BeginComponent, txnVars, Runs
<1>5. PICK m \in C : m.owner = x
  BY <1>4 DEF OwnersOf
<1>6. at[m.src] = x /\ m.src = Home[x] /\ Renamed(x)
  BY <1>4, <1>5, <1>f DEF PlanSound, Runs, Outset
<1>7. Home[x] \in Path /\ Target[x] \in Path
  BY PathsAssumption
<1> QED
  BY <1>6, <1>7 DEF Single, Renamed

(* A file counts as complete when it is at its new name, and stays there. *)
LEMMA StandingStep ==
    /\ Typed /\ Phases /\ Jobs /\ Single /\ PlanSound /\ Underway /\ Ledgers /\ Ending
    /\ Outset /\ Standing /\ [Next]_vars
    => Standing'
<1> SUFFICES ASSUME Typed, Phases, Jobs, Single, PlanSound, Underway, Ledgers, Ending,
                    Outset, Standing, [Next]_vars, Fresh', NEW x \in File
             PROVE  /\ ~Renamed(x) => at'[Home[x]] = x
                    /\ log'.state[x] = "complete" \/ mem'.state[x] = "complete" =>
                            at'[Target[x]] = x /\ x \notin members'
  BY DEF Standing
<1>f. Fresh /\ ~BeginRecovery /\ job = "apply"
  BY Freshness
<1>t. TypeOK /\ Home[x] \in Path /\ Target[x] \in Path /\ x # Nobody /\ x # Stranger
  BY PathsAssumption, FilesAssumption DEF Typed
<1>n. NoJournal.state[x] = "planned"
  BY DEF NoJournal
<1>k. \A p \in Path : at[p] = x /\ x \notin members => at'[p] = x
  BY <1>t, Kept
<1>1. ~Renamed(x) => at'[Home[x]] = x
  <2> SUFFICES ASSUME ~Renamed(x) PROVE at'[Home[x]] = x
    OBVIOUS
  <2>1. at[Home[x]] = x
    BY <1>f DEF Standing
  <2>2. x \notin members
    <3>1. x \in members => pc \in Renaming
      BY DEF Typed, Quiet
    <3>2. pc \in Renaming => Runs
      BY DEF Renaming, Runs
    <3> QED
      BY <3>1, <3>2, <1>f DEF Outset
  <2> QED
    BY <2>1, <2>2, <1>k, <1>t
<1>2. ASSUME log.state[x] = "complete" \/ mem.state[x] = "complete"
      PROVE  at'[Target[x]] = x /\ x \notin members'
  <2>1. at[Target[x]] = x /\ x \notin members
    BY <1>2, <1>f DEF Standing
  <2> QED
    BY <2>1, <1>k, <1>t, MembersStep
<1>3. ASSUME Completes(x) PROVE at'[Target[x]] = x /\ x \notin members'
  <2>1. CASE ApplyComponent /\ status = "ok" /\ x \in members
    <3>1. at' = at /\ members' = {} /\ pc = "component"
      BY <2>1 DEF ApplyComponent, EndTxn, diskVars
    <3>2. at[Goal(x)] = x
      BY <2>1, <3>1 DEF Ending
    <3> QED
      BY <3>1, <3>2, <1>f DEF Goal
  <2>2. CASE EndRenames /\ outcome[x] = "success" /\ x \notin OwnersOf(ApplyMoves)
    <3>1. at' = at /\ members' = members /\ pc = "renames"
      BY <2>2 DEF EndRenames, diskVars, txnVars
    <3>2. members = {}
      BY <3>1 DEF Typed, Quiet, Renaming
    <3>3. ~Renamed(x)
      <4> SUFFICES ASSUME Renamed(x) PROVE FALSE
        OBVIOUS
      <4> DEFINE m == Move(x, Home[x], Target[x])
      <4>1. m \in ApplyMoves
        BY DEF ApplyMoves, Renamed
      <4>2. m.owner = x
        BY DEF Move
      <4> QED
        BY <2>2, <4>1, <4>2 DEF OwnersOf
    <3> QED
      BY <3>1, <3>2, <3>3, <1>f DEF Standing, Renamed
  <2> QED
    BY <2>1, <2>2, <1>3 DEF Completes
<1>4. mem'.state[x] = "complete" => mem.state[x] = "complete" \/ Completes(x)
  <2>1. CASE mem' = NoJournal
    BY <2>1, <1>n
  <2>2. CASE BeginApply
    <3>1. mem' = [NoJournal EXCEPT !.batch = "backing_up"]
      BY <2>2 DEF BeginApply, Persist
    <3>2. mem'.state = NoJournal.state
      BY <3>1 DEF NoJournal
    <3> QED
      BY <3>2, <1>n
  <2>3. ASSUME NEW f \in File, WriteTags(f)
        PROVE  mem'.state[x] = "complete" => mem.state[x] = "complete"
    <3>1. mem \in Journal /\ mem.state \in [File -> FileState]
      BY <1>t DEF TypeOK, Journal
    <3>2. \E w \in {"verified", "failed"} : mem'.state = [mem.state EXCEPT ![f] = w]
      BY <2>3, <3>1 DEF WriteTags, Journal
    <3> QED
      BY <3>1, <3>2
  <2> QED
    BY <2>1, <2>2, <2>3, <1>f, StateSteps
<1>5. mem'.state[x] = "complete" => at'[Target[x]] = x /\ x \notin members'
  BY <1>2, <1>3, <1>4
<1>6. log'.state[x] = "complete" => at'[Target[x]] = x /\ x \notin members'
  BY <1>2, <1>5, <1>n, LogSteps
<1> QED
  BY <1>1, <1>5, <1>6

(* A file that has come to its new name came by its last entry in the      *)
(* ledger, and that one was not taken back; if its move is not noted as    *)
(* done, its old name is not that of another file of the batch.            *)
Arrived(j, x) ==
    \E i \in 1 .. Len(j.ledger) :
        /\ j.ledger[i].owner = x /\ j.ledger[i].dst = Target[x]
        /\ \A k \in 1 .. Len(j.ledger) : j.ledger[k].owner = x => k <= i
        /\ j.ledger[i].state # "rolled_back"
        /\ j.ledger[i].state = "intent" => at[j.ledger[i].src] \in {Nobody, Stranger}
Arrivals ==
    Fresh => \A x \in File : Renamed(x) /\ at[Target[x]] = x =>
        /\ log.batch = "applying" => Arrived(log, x)
        /\ Runs => Arrived(mem, x)

(* The rename that brings a file to its new name is its last entry.        *)
LEMMA ArrivesByMove ==
    ASSUME Typed, Phases, Jobs, Single, Underway, Ledgers, Temporary, Outset, Noting,
           [Next]_vars, Fresh', NEW x \in File, Renamed(x),
           at[Target[x]] # x, at'[Target[x]] = x
    PROVE  Arrived(log, x)' /\ Arrived(mem, x)'
<1>f. Fresh
  BY Freshness
<1>t. /\ TypeOK /\ mem.ledger \in Seq(Entry) /\ members \subseteq File /\ Nobody \notin File /\ Stranger \notin File
      /\ at \in [Path -> File \cup {Nobody, Stranger}] /\ Target[x] \in Path \ Temps
      /\ Len(mem.ledger) \in Nat
  <2>1. mem \in Journal
    BY DEF Typed, TypeOK
  <2>2. mem.ledger \in Seq(Entry)
    BY <2>1 DEF Journal
  <2>3. Target[x] \in Path \ Temps /\ Nobody \notin File /\ Stranger \notin File
    BY FilesAssumption, PathsAssumption
  <2>4. TypeOK /\ members \subseteq File /\ at \in [Path -> File \cup {Nobody, Stranger}]
    BY DEF Typed, TypeOK
  <2> QED
    BY <2>2, <2>3, <2>4
<1>1. at' # at /\ (MoveFile \/ RollBackMove)
  <2>1. at' # at
    OBVIOUS
  <2>2. ~Meddle
    BY <1>t DEF Meddle
  <2> QED
    BY <2>1, <2>2, Writers
<1>2. PICK i \in 1 .. Len(mem.ledger), s, d \in Path :
          /\ mem.ledger[i].owner \in members /\ at[s] = mem.ledger[i].owner
          /\ Open(d) /\ s # d
          /\ at' = [at EXCEPT ![d] = at[s], ![s] = Nobody]
          /\ \/ /\ MoveFile /\ i = Len(mem.ledger)
                /\ s = mem.ledger[i].src /\ d = mem.ledger[i].dst
             \/ /\ RollBackMove /\ moved # <<>> /\ i = Last(moved)
                /\ s = mem.ledger[i].dst /\ d = mem.ledger[i].src
  BY <1>1, Moves DEF Temporary
<1>3. d = Target[x] /\ mem.ledger[i].owner = x /\ at'[s] = Nobody
  BY <1>2, <1>t
<1>4. Line(mem.ledger[i])
  BY <1>f DEF Noting
<1>5. MoveFile /\ i = Len(mem.ledger) /\ s = mem.ledger[i].src /\ d = mem.ledger[i].dst
  BY <1>2, <1>3, <1>4, <1>t DEF Line, Renamed
<1>6. pc = "move" /\ log' = log /\ log = mem /\ mem.ledger[i].state = "intent"
  BY <1>5, <1>f DEF MoveFile, Temporary, Noting, Noted
<1>c. Carrying
  BY <1>5 DEF Carrying
<1>7. Arrived(log, x)'
  <2>1. \A k \in 1 .. Len(mem.ledger) : k <= i
    BY <1>5, <1>t
  <2> QED
    BY <2>1, <1>3, <1>5, <1>6 DEF Arrived
<1>8. Arrived(mem, x)'
  <2>1. Len(mem'.ledger) = Len(mem.ledger)
    BY <1>c, <1>6, LedgerKept DEF Intend
  <2>2. mem'.ledger[i].owner = x /\ mem'.ledger[i].dst = Target[x]
    BY <1>c, <1>3, <1>5, LedgerKept
  <2>3. mem'.ledger[i].state = "completed"
    BY <1>c, <1>1, <1>5, EntryStates
  <2>4. \A k \in 1 .. Len(mem'.ledger) : k <= i
    BY <2>1, <1>5, <1>t
  <2> QED
    BY <2>1, <2>2, <2>3, <2>4 DEF Arrived
<1> QED
  BY <1>7, <1>8

(* No entry is noted or undone for a file at its new name, as long as it   *)
(* stays there; but one can be given up.                                   *)
LEMMA StaysArrived ==
    ASSUME Typed, Single, Underway, Ledgers, Temporary, Outset, Noting, Fresh,
           Carrying, NEW x \in File, Renamed(x), at[Target[x]] = x, at'[Target[x]] = x,
           Arrived(mem, x)
    PROVE  Arrived(mem, x)'
<1>t. /\ TypeOK /\ mem.ledger \in Seq(Entry) /\ members \subseteq File /\ Nobody \notin File
      /\ at \in [Path -> File \cup {Nobody, Stranger}] /\ Target[x] \in Path \ Temps
      /\ Len(mem.ledger) \in Nat
  <2>1. mem \in Journal
    BY DEF Typed, TypeOK
  <2>2. mem.ledger \in Seq(Entry)
    BY <2>1 DEF Journal
  <2>3. Target[x] \in Path \ Temps /\ Nobody \notin File /\ Stranger \notin File
    BY FilesAssumption, PathsAssumption
  <2>4. TypeOK /\ members \subseteq File /\ at \in [Path -> File \cup {Nobody, Stranger}]
    BY DEF Typed, TypeOK
  <2> QED
    BY <2>2, <2>3, <2>4
<1>r. Runs
  BY DEF Carrying, Intend, MoveFile, NoteMove, RollBackMove, NoteRollback, NoteAgain, Runs
<1>1. PICK i \in 1 .. Len(mem.ledger) :
          /\ mem.ledger[i].owner = x /\ mem.ledger[i].dst = Target[x]
          /\ \A k \in 1 .. Len(mem.ledger) : mem.ledger[k].owner = x => k <= i
          /\ mem.ledger[i].state # "rolled_back"
          /\ mem.ledger[i].state = "intent" => at[mem.ledger[i].src] \in {Nobody, Stranger}
  BY DEF Arrived
<1>k. /\ Len(mem.ledger) <= Len(mem'.ledger)
      /\ \A k \in 1 .. Len(mem.ledger) :
            mem'.ledger[k].owner = mem.ledger[k].owner /\ mem'.ledger[k].dst = mem.ledger[k].dst
      /\ i \in 1 .. Len(mem'.ledger)
  <2>1. /\ Len(mem.ledger) <= Len(mem'.ledger) /\ Len(mem'.ledger) \in Nat
        /\ \A k \in 1 .. Len(mem.ledger) :
              mem'.ledger[k].owner = mem.ledger[k].owner /\ mem'.ledger[k].dst = mem.ledger[k].dst
    BY LedgerKept
  <2> QED
    BY <2>1, <1>t
<1>2. \A k \in 1 .. Len(mem'.ledger) : mem'.ledger[k].owner = x => k <= i
  <2>1. CASE Intend
    <3> DEFINE n == Len(mem.ledger) + 1
    <3>0. pc = "intent"
      BY <2>1 DEF Intend
    <3>1. PICK s \in Steps(moves, FreshTemps) :
              /\ Len(mem'.ledger) = n
              /\ mem'.ledger[n].owner = s.step.owner
      BY <2>1, LedgerKept
    <3>2. at[s.step.src] = s.step.owner /\ s.step.src \in Path
      BY <3>0, NextStep
    <3>3. moves \in SUBSET [owner : File, src : Path, dst : Path]
      BY <1>t DEF TypeOK
    <3>4. PICK m \in moves : s.step.owner = m.owner /\ s.step.src = m.src
      BY <3>3, StepsTyped
    <3>5. s.step.src \in Temps \cup {Home[s.step.owner]}
      BY <3>4, <1>r DEF Outset
    <3>6. s.step.owner # x
      BY <3>2, <3>5, <1>t DEF Single, Renamed
    <3>7. \A k \in 1 .. n : k = n \/ k \in 1 .. Len(mem.ledger)
      BY <1>t
    <3> QED
      BY <3>1, <3>6, <3>7, <1>1, <1>k
  <2>2. CASE ~Intend
    <3>1. Len(mem'.ledger) = Len(mem.ledger)
      BY <2>2, LedgerKept
    <3> QED
      BY <3>1, <1>1, <1>k
  <2> QED
    BY <2>1, <2>2
<1>3. mem.ledger[i].state = "intent" => pc = "move" /\ i = Len(mem.ledger)
  BY DEF Noting
<1>4. ~(pc = "move" /\ i = Len(mem.ledger))
  <2> SUFFICES ASSUME pc = "move", i = Len(mem.ledger) PROVE FALSE
    OBVIOUS
  <2>1. at[Noted.src] = x /\ Line(Noted) /\ Noted.owner = x
    BY <1>1 DEF Noted, Underway, Noting
  <2>2. Noted.src \in Path
    BY <1>t, EntryTyped DEF Noted
  <2> QED
    BY <2>1, <2>2, <1>t DEF Single, Line, Renamed
<1>5. mem'.ledger[i].state \notin {"rolled_back", "intent"}
  <2>1. CASE mem'.ledger[i].state = mem.ledger[i].state
    BY <2>1, <1>1, <1>3, <1>4
  <2>2. CASE MoveFile /\ i = Len(mem.ledger)
    BY <2>2, <1>4 DEF MoveFile
  <2>3. CASE RollBackMove /\ i = Last(moved)
    <3>1. mem.ledger[i].dst \in Taken
      BY <1>1, <1>t DEF Taken
    <3>2. at' = at
      <4> SUFFICES ASSUME at' # at PROVE FALSE
        OBVIOUS
      <4>1. ~MoveFile
        BY <2>3 DEF RollBackMove, MoveFile
      <4>2. PICK s, d \in Path : /\ s # d /\ at' = [at EXCEPT ![d] = at[s], ![s] = Nobody]
                                 /\ s = mem.ledger[i].dst
        BY <2>3, <4>1, Moves DEF Temporary
      <4>3. at'[Target[x]] = Nobody
        BY <4>2, <1>1, <1>t
      <4> QED
        BY <4>3, <1>t
    <3> QED
      BY <2>3, <3>1, <3>2, EntryStates
  <2> QED
    BY <2>1, <2>2, <2>3, EntryStates
<1> QED
  BY <1>1, <1>2, <1>5, <1>k DEF Arrived

(* Both ledgers keep the entry by which a file came to its new name. *)
LEMMA ArrivalsStep ==
    /\ Typed /\ Phases /\ Jobs /\ Single /\ Underway /\ Ledgers /\ Temporary
    /\ Outset /\ Noting /\ Arrivals /\ [Next]_vars
    => Arrivals'
<1> SUFFICES ASSUME Typed, Phases, Jobs, Single, Underway, Ledgers, Temporary,
                    Outset, Noting, Arrivals, [Next]_vars, Fresh',
                    NEW x \in File, Renamed(x), at'[Target[x]] = x
             PROVE  /\ log'.batch = "applying" => Arrived(log, x)'
                    /\ Runs' => Arrived(mem, x)'
  BY DEF Arrivals
<1>f. Fresh /\ ~BeginRecovery
  BY Freshness
<1>t. /\ log \in Journal /\ mem \in Journal /\ Nobody \notin File /\ Stranger \notin File /\ Nobody # Stranger
      /\ at \in [Path -> File \cup {Nobody, Stranger}] /\ Target[x] \in Path \ Temps
      /\ Home[x] \in Path
  <2>1. Target[x] \in Path \ Temps /\ Home[x] \in Path
    BY PathsAssumption
  <2>2. Nobody \notin File /\ Stranger \notin File /\ Nobody # Stranger
    BY FilesAssumption
  <2> QED
    BY <2>1, <2>2 DEF Typed, TypeOK
<1>e. ASSUME NEW j \in Journal, NEW i \in 1 .. Len(j.ledger)
      PROVE  j.ledger[i].src \in Path /\ j.ledger[i].owner \in File
  <2>1. j.ledger \in Seq(Entry)
    BY DEF Journal
  <2>2. j.ledger[i] \in Entry
    BY <2>1
  <2> QED
    BY <2>2 DEF Entry
<1>1. CASE at[Target[x]] # x
  BY <1>1, ArrivesByMove
<1>2. CASE at[Target[x]] = x
  <2>1. pc \notin Setup
    <3>1. pc \in Setup => at[Home[x]] = x
      BY DEF Phases, Unwritten
    <3> QED
      BY <3>1, <1>2, <1>t DEF Single, Renamed
  <2>2. /\ log.batch = "applying" => Arrived(log, x)
        /\ Runs => Arrived(mem, x)
    BY <1>2, <1>f DEF Arrivals
  <2>n. NoJournal.batch # "applying"
    BY DEF NoJournal
  <2>3. CASE Carrying
    <3>1. Runs
      BY <2>3 DEF Carrying, Intend, MoveFile, NoteMove, RollBackMove, NoteRollback, NoteAgain, Runs
    <3>2. Arrived(mem, x)'
      BY <1>2, <1>f, <2>2, <2>3, <3>1, StaysArrived
    <3>3. ASSUME log' = log, log.batch = "applying" PROVE Arrived(log, x)'
      <4>1. PICK i \in 1 .. Len(log.ledger) :
                /\ log.ledger[i].owner = x /\ log.ledger[i].dst = Target[x]
                /\ \A k \in 1 .. Len(log.ledger) : log.ledger[k].owner = x => k <= i
                /\ log.ledger[i].state # "rolled_back"
                /\ log.ledger[i].state = "intent" => at[log.ledger[i].src] \in {Nobody, Stranger}
        BY <2>2, <3>3 DEF Arrived
      <4>2. log.ledger[i].state = "intent" => at'[log.ledger[i].src] \in {Nobody, Stranger}
        <5> SUFFICES ASSUME log.ledger[i].state = "intent", at' # at
                     PROVE  at'[log.ledger[i].src] \in {Nobody, Stranger}
          BY <4>1
        <5>0. MoveFile \/ RollBackMove
          BY <2>3 DEF Carrying, Intend, NoteMove, NoteRollback, NoteAgain, diskVars
        <5>1. PICK n \in 1 .. Len(mem.ledger), s, d \in Path :
                  /\ mem.ledger[n].owner \in members /\ at[s] = mem.ledger[n].owner
                  /\ Open(d) /\ s # d
                  /\ at' = [at EXCEPT ![d] = at[s], ![s] = Nobody]
                  /\ \/ /\ MoveFile /\ n = Len(mem.ledger)
                        /\ s = mem.ledger[n].src /\ d = mem.ledger[n].dst
                     \/ /\ RollBackMove /\ moved # <<>> /\ n = Last(moved)
                        /\ s = mem.ledger[n].dst /\ d = mem.ledger[n].src
          BY <5>0, Moves DEF Temporary
        <5>2. mem.ledger[n].owner # x
          <6> SUFFICES ASSUME mem.ledger[n].owner = x PROVE FALSE
            OBVIOUS
          <6>1. s = Target[x]
            BY <5>1, <1>2, <1>t DEF Single
          <6> QED
            BY <5>1, <6>1, <1>t
        <5>3. RollBackMove /\ d = mem.ledger[n].src
          <6>1. ASSUME MoveFile, n = Len(mem.ledger) PROVE FALSE
            <7>1. log = mem
              BY <6>1 DEF MoveFile, Temporary
            <7>2. i = Len(log.ledger)
              BY <1>f DEF Noting
            <7> QED
              BY <4>1, <5>2, <6>1, <7>1, <7>2
          <6> QED
            BY <5>1, <6>1
        <5>4. /\ i \in 1 .. Len(mem.ledger) /\ mem.ledger[i].owner = x
              /\ mem.ledger[i].src = log.ledger[i].src
          <6>1. /\ Len(log.ledger) <= Len(mem.ledger)
                /\ log.ledger[i].owner = mem.ledger[i].owner
                /\ log.ledger[i].src = mem.ledger[i].src
            BY <3>1 DEF Temporary, Grown
          <6>2. Len(log.ledger) \in Nat /\ Len(mem.ledger) \in Nat
            BY <1>t DEF Journal
          <6> QED
            BY <6>1, <6>2, <4>1
        <5>5. Line(mem.ledger[n]) /\ Line(mem.ledger[i]) /\ mem.ledger[n].owner \in File
          BY <5>4, <1>f, <1>t, <1>e DEF Noting
        <5>6. log.ledger[i].src # d
          <6> SUFFICES ASSUME mem.ledger[i].src = mem.ledger[n].src PROVE FALSE
            BY <5>3, <5>4
          <6>1. CASE mem.ledger[i].src \in Temps
            <7>1. mem.ledger[i].src \in Temp(mem.ledger[i]) \cap Temp(mem.ledger[n])
              BY <6>1 DEF Temp
            <7>2. Apart(mem)
              BY DEF Temporary
            <7>3. mem.ledger[i].owner = mem.ledger[n].owner
              BY <5>4, <7>1, <7>2 DEF Apart
            <7> QED
              BY <7>3, <5>2, <5>4
          <6>2. CASE mem.ledger[i].src \notin Temps
            <7>1. Home[x] = Home[mem.ledger[n].owner]
              BY <6>2, <5>4, <5>5 DEF Line
            <7> QED
              BY <7>1, <5>2, <5>5, PathsAssumption
          <6> QED
            BY <6>1, <6>2
        <5>7. log.ledger[i].src \in Path
          BY <1>t, <1>e
        <5> QED
          BY <4>1, <5>1, <5>6, <5>7, <1>t
      <4> QED
        BY <3>3, <4>1, <4>2 DEF Arrived
    <3>4. log' = mem' => Arrived(log, x)'
      BY <3>2 DEF Arrived
    <3> QED
      BY <3>2, <3>3, <3>4, <2>n, LogSteps
  <2>4. CASE ~Carrying
    <3>0. UNCHANGED at \/ Meddle
      BY <2>4, LedgerSteps
    <3>1. \A p \in Path : at[p] \in {Nobody, Stranger} => at'[p] \in {Nobody, Stranger}
      BY <3>0, <1>t DEF Meddle, Taken
    <3>2. ASSUME NEW j \in Journal, Arrived(j, x)
          PROVE  \E i \in 1 .. Len(j.ledger) :
                    /\ j.ledger[i].owner = x /\ j.ledger[i].dst = Target[x]
                    /\ \A k \in 1 .. Len(j.ledger) : j.ledger[k].owner = x => k <= i
                    /\ j.ledger[i].state # "rolled_back"
                    /\ j.ledger[i].state = "intent" => at'[j.ledger[i].src] \in {Nobody, Stranger}
      BY <3>1, <3>2, <1>e DEF Arrived
    <3>3. Runs' => Arrived(mem, x)'
      <4> SUFFICES ASSUME Runs' PROVE Arrived(mem, x)'
        OBVIOUS
      <4>1. mem'.ledger = mem.ledger /\ Runs
        BY <2>1, <2>4, <1>f, LedgerSteps DEF Runs, BeginApply, Setup
      <4>2. Arrived(mem, x)
        BY <2>2, <4>1
      <4>3. \E i \in 1 .. Len(mem.ledger) :
                    /\ mem.ledger[i].owner = x /\ mem.ledger[i].dst = Target[x]
                    /\ \A k \in 1 .. Len(mem.ledger) : mem.ledger[k].owner = x => k <= i
                    /\ mem.ledger[i].state # "rolled_back"
                    /\ mem.ledger[i].state = "intent" => at'[mem.ledger[i].src] \in {Nobody, Stranger}
        BY <4>2, <3>2, <1>t
      <4> QED
        BY <4>1, <4>3 DEF Arrived
    <3>4. CASE log' = log
      <4> SUFFICES ASSUME log.batch = "applying" PROVE Arrived(log, x)'
        BY <3>3, <3>4
      <4>1. \E i \in 1 .. Len(log.ledger) :
                    /\ log.ledger[i].owner = x /\ log.ledger[i].dst = Target[x]
                    /\ \A k \in 1 .. Len(log.ledger) : log.ledger[k].owner = x => k <= i
                    /\ log.ledger[i].state # "rolled_back"
                    /\ log.ledger[i].state = "intent" => at'[log.ledger[i].src] \in {Nobody, Stranger}
        BY <2>2, <3>2, <1>t
      <4> QED
        BY <3>4, <4>1 DEF Arrived
    <3>5. CASE log' = mem' /\ pc' # "idle"
      <4>1. Runs'
        BY <2>1, <3>5, <1>f, JobSteps DEF Runs, Setup
      <4> QED
        BY <3>3, <3>5, <4>1 DEF Arrived
    <3>6. CASE log' = NoJournal
      BY <3>3, <3>6, <2>n
    <3> QED
      BY <3>4, <3>5, <3>6, <2>1, LogSteps
  <2> QED
    BY <2>3, <2>4
<1> QED
  BY <1>1, <1>2

(* A recovery keeps the journal it took over but for its ledger, and takes *)
(* the files whose tags it restores one by one.                            *)
LEMMA RecoveryKeeps ==
    ASSUME Typed, Phases, Jobs, [Next]_vars, job = "recovery"
    PROVE  /\ Carrying \/ (log' \in {log, NoJournal} /\ (mem' = mem \/ pc' = "idle"))
           /\ left' = left \/ pc' = "idle" \/ \E f \in File : Restore(f)
<1> DEFINE G == /\ Carrying \/ (log' \in {log, NoJournal} /\ (mem' = mem \/ pc' = "idle"))
                /\ left' = left \/ pc' = "idle" \/ \E f \in File : Restore(f)
<1>i. pc \notin {"new", "idle", "backup", "bind", "abort", "start", "tags", "note", "stopped",
                 "closing", "remove", "finalize", "seal"}
  BY DEF Phases, InApply, Setup, Jobs
<1>1. ASSUME NEW C \in plan, BeginComponent(C) PROVE G
  BY <1>1, <1>i DEF BeginComponent, diskVars, txnVars, Carrying
<1>2. CASE Intend
  BY <1>2, <1>i DEF Intend, diskVars, jobVars, Fault, Carrying
<1>3. CASE MoveFile
  BY <1>3, <1>i DEF MoveFile, jobVars, Fault, Carrying
<1>4. CASE NoteMove
  BY <1>4, <1>i DEF NoteMove, diskVars, jobVars, Persist, Fault, Carrying
<1>5. CASE RollBackMove
  BY <1>5, <1>i DEF RollBackMove, jobVars, Fault, Carrying
<1>6. CASE NoteRollback
  BY <1>6, <1>i DEF NoteRollback, diskVars, jobVars, Persist, Fault, Carrying
<1>7. CASE NoteAgain
  BY <1>7, <1>i DEF NoteAgain, diskVars, txnVars, jobVars, Persist, Fault, Carrying
<1>8. CASE BeginApply
  BY <1>8, <1>i DEF BeginApply, diskVars, txnVars, Persist, Fault, Carrying
<1>9. CASE WriteManifest
  BY <1>9, <1>i DEF WriteManifest, diskVars, txnVars, jobVars, Carrying
<1>10. CASE WriteBinding
  BY <1>10, <1>i DEF WriteBinding, diskVars, txnVars, jobVars, Carrying
<1>11. CASE Abort
  BY <1>11, <1>i DEF Abort, diskVars, txnVars, jobVars, Persist, Fault, Carrying
<1>12. CASE StartApplying
  BY <1>12, <1>i DEF StartApplying, diskVars, txnVars, jobVars, Persist, Fault, Carrying
<1>13. ASSUME NEW f \in File, WriteTags(f) PROVE G
  BY <1>13, <1>i DEF WriteTags, txnVars, Fault, Carrying
<1>14. CASE Note
  BY <1>14, <1>i DEF Note, diskVars, txnVars, Persist, Fault, Carrying
<1>15. CASE StopWriting
  BY <1>15, <1>i DEF StopWriting, diskVars, txnVars, Persist, Fault, Carrying
<1>16. CASE ApplyComponent
  BY <1>16, <1>i DEF ApplyComponent, diskVars, Persist, EndTxn, Fault, Carrying
<1>17. CASE EndRenames
  BY <1>17, <1>i DEF EndRenames, diskVars, txnVars, Persist, Fault, Carrying
<1>18. CASE Close
  BY <1>18, <1>i DEF Close, diskVars, txnVars, jobVars, Persist, Fault, Carrying
<1>19. CASE RemoveJournal
  BY <1>19, <1>i DEF RemoveJournal, diskVars, txnVars, jobVars, Retire, Fault, Carrying
<1>20. CASE FinalizeManifest
  BY <1>20, <1>i DEF FinalizeManifest, diskVars, txnVars, jobVars, WorkEnds, EndTxn, Fault, Carrying
<1>21. CASE Seal
  BY <1>21, <1>i DEF Seal, diskVars, WorkEnds, EndTxn, Fault, Carrying
<1>22. CASE BeginRecovery
  BY <1>22, <1>i DEF BeginRecovery, diskVars, txnVars, Carrying
<1>23. CASE RecoveryComponent
  BY <1>23, <1>i DEF RecoveryComponent, diskVars, EndTxn, Carrying
<1>24. CASE BeginRestore
  BY <1>24, <1>i DEF BeginRestore, diskVars, txnVars, jobVars, Carrying
<1>25. ASSUME NEW f \in File, Restore(f) PROVE G
  BY <1>25 DEF Restore
<1>26. CASE EndRecovery
  BY <1>26, <1>i DEF EndRecovery, diskVars, Retire, WorkEnds, EndTxn, Fault, Carrying
<1>27. CASE Reconcile
  BY <1>27, <1>i DEF Reconcile, diskVars, txnVars, jobVars, Retire, Fault, Carrying
<1>28. CASE Forget \/ Cancel \/ Rest \/ UNCHANGED vars
  BY <1>28, <1>i DEF Forget, diskVars, txnVars, jobVars, Retire, Fault, Carrying, Cancel, Rest, vars
<1>30. CASE Crash
  BY <1>30, <1>i DEF Crash, diskVars, WorkEnds, EndTxn, Carrying
<1>31. CASE Meddle
  BY <1>31, <1>i DEF Meddle, txnVars, jobVars, Carrying
<1>34. CASE Look
  BY <1>34, <1>i DEF Look, diskVars, txnVars, jobVars, Carrying
<1> QED
  BY <1>1, <1>2, <1>3, <1>4, <1>5, <1>6, <1>7, <1>8, <1>9, <1>10, <1>11, <1>12, <1>13,
     <1>14, <1>15, <1>16, <1>17, <1>18, <1>19, <1>20, <1>21, <1>22, <1>23, <1>24, <1>25,
     <1>26, <1>27, <1>28, <1>30, <1>31, <1>34 DEF Next, TxnStep, ApplyStep, RecoveryStep

(* Once a recovery has begun only the ledger of the journal changes, until *)
(* the journal is gone.                                                    *)
LEMMA RecoveryJournal ==
    ASSUME Typed, Phases, Jobs, Accounts, [Next]_vars, ~Fresh
    PROVE  \/ log' \in {log, NoJournal}
           \/ /\ Carrying /\ job = "recovery" /\ pc' # "idle" /\ log' = mem'
              /\ log'.batch = log.batch /\ log'.state = log.state /\ log'.posted = log.posted
<1>1. CASE job = "recovery"
  <2> SUFFICES ASSUME Carrying, log' \notin {log, NoJournal}
               PROVE  /\ pc' # "idle" /\ log' = mem'
                      /\ log'.batch = log.batch /\ log'.state = log.state /\ log'.posted = log.posted
    BY <1>1, RecoveryKeeps
  <2>1. log' = mem' /\ pc \in Renaming
    BY LogSteps DEF Carrying, Intend, MoveFile, NoteMove, RollBackMove, NoteRollback, NoteAgain, Renaming
  <2>2. mem.batch = log.batch /\ mem.state = log.state
    BY <1>1, <2>1 DEF Phases, InRecovery, Recovering
  <2>3. mem.posted = log.posted
    BY <1>1 DEF Accounts
  <2>4. mem'.batch = mem.batch /\ mem'.posted = mem.posted /\ mem'.state = mem.state
    <3>1. CASE Intend \/ MoveFile \/ RollBackMove
      BY <1>1, <3>1, TxnJournal
    <3>2. CASE NoteMove \/ NoteRollback \/ NoteAgain
      BY <3>2 DEF NoteMove, NoteRollback, NoteAgain, Persist
    <3> QED
      BY <3>1, <3>2 DEF Carrying
  <2>5. pc' # "idle"
    BY DEF Carrying, Intend, MoveFile, NoteMove, RollBackMove, NoteRollback, NoteAgain, Persist
  <2> QED
    BY <2>1, <2>2, <2>3, <2>4, <2>5
<1>2. CASE job # "recovery"
  <2>1. pc = "idle"
    BY <1>2 DEF Jobs, Runs, Typed, TypeOK
  <2>2. BeginRecovery => log' = log
    BY DEF BeginRecovery
  <2>3. ~BeginRecovery /\ pc' # "idle" => FALSE
    <3>1. ~BeginRecovery => (Runs' => pc # "idle") \/ pc' = "idle"
      BY JobSteps
    <3>2. ~BeginRecovery => (pc' = "new" => pc = "new")
      BY JobSteps
    <3> QED
      BY <2>1, <3>1, <3>2 DEF Runs
  <2> QED
    BY <2>1, <2>2, <2>3, LogSteps DEF Setup
<1> QED
  BY <1>1, <1>2

(* The whole batch has been applied; nothing of it has.                    *)
AllDone == \A x \in File : Done(x)
AllHome == \A x \in File : AtHome(x)

(* What another program does makes neither of them untrue.                 *)
LEMMA WholeKept ==
    ASSUME Typed, UNCHANGED diskVars \/ Meddle
    PROVE  (AllDone => AllDone') /\ (AllHome => AllHome')
<1>1. CASE UNCHANGED diskVars
  BY <1>1 DEF AllDone, AllHome, Done, AtHome, diskVars
<1>2. CASE Meddle
  <2> SUFFICES ASSUME NEW x \in File
               PROVE  (Done(x) => Done(x)') /\ (AtHome(x) => AtHome(x)')
    BY DEF AllDone, AllHome
  <2>t. /\ at \in [Path -> File \cup {Nobody, Stranger}]
        /\ tags \in [File -> [of : File, what : {"old", "new", "theirs"}]]
        /\ stamp \in [File -> {"scanned", "applied", "recovered", "edited"}]
        /\ x # Nobody /\ Home[x] \in Path /\ Target[x] \in Path
    BY PathsAssumption, FilesAssumption DEF Typed, TypeOK
  <2>1. \A p \in Path : at[p] = x => at'[p] = x
    BY <1>2, <2>t DEF Meddle, Taken, Edit
  <2>2. (tags'[x] = tags[x] /\ stamp'[x] = stamp[x]) \/ stamp'[x] = "edited"
    <3>1. CASE UNCHANGED <<tags, stamp>>
      BY <3>1
    <3>2. ASSUME NEW f \in File, Edit(f)
          PROVE  (tags'[x] = tags[x] /\ stamp'[x] = stamp[x]) \/ stamp'[x] = "edited"
      BY <3>2, <2>t DEF Edit, Put
    <3> QED
      BY <1>2, <3>1, <3>2 DEF Meddle
  <2> QED
    BY <2>1, <2>2, <2>t DEF Done, AtHome
<1> QED
  BY <1>1, <1>2

(* How the worker gets to the end of Apply.                                *)
LEMMA EndSteps ==
    ASSUME Typed, [Next]_vars, pc' \in {"closing", "remove"}
    PROVE  \/ StopWriting \/ ApplyComponent \/ EndRenames \/ (Close /\ Clean)
           \/ pc' = pc /\ outcome' = outcome /\ broken' = broken /\ (UNCHANGED diskVars \/ Meddle)
<1> DEFINE G == \/ StopWriting \/ ApplyComponent \/ EndRenames \/ (Close /\ Clean)
                \/ pc' = pc /\ outcome' = outcome /\ broken' = broken /\ (UNCHANGED diskVars \/ Meddle)
<1>1. ASSUME NEW C \in plan, BeginComponent(C) PROVE G
  BY <1>1 DEF BeginComponent, diskVars, txnVars
<1>2. CASE Intend
  BY <1>2 DEF Intend, diskVars, jobVars, Fault
<1>3. CASE MoveFile
  BY <1>3 DEF MoveFile, diskVars, jobVars, Fault
<1>4. CASE NoteMove
  BY <1>4 DEF NoteMove, diskVars, jobVars, Persist, Fault
<1>5. CASE RollBackMove
  BY <1>5 DEF RollBackMove, diskVars, jobVars, Fault
<1>6. CASE NoteRollback
  BY <1>6 DEF NoteRollback, diskVars, jobVars, Persist, Fault
<1>7. CASE NoteAgain
  BY <1>7 DEF NoteAgain, diskVars, txnVars, jobVars, Persist, Fault
<1>8. CASE BeginApply
  BY <1>8 DEF BeginApply, diskVars, txnVars, Persist, Fault
<1>9. CASE WriteManifest
  BY <1>9 DEF WriteManifest, diskVars, txnVars, jobVars, BackupFails, Fault
<1>10. CASE WriteBinding
  BY <1>10 DEF WriteBinding, diskVars, txnVars, jobVars, BackupFails, Fault
<1>11. CASE Abort
  BY <1>11 DEF Abort, diskVars, txnVars, jobVars, Persist, Fault
<1>12. CASE StartApplying
  BY <1>12 DEF StartApplying, diskVars, txnVars, jobVars, Persist, Fault
<1>13. ASSUME NEW f \in File, WriteTags(f) PROVE G
  BY <1>13 DEF WriteTags, diskVars, txnVars, Fault
<1>14. CASE Note
  BY <1>14 DEF Note, diskVars, txnVars, Persist, Fault
<1>15. CASE StopWriting
  BY <1>15 DEF StopWriting, diskVars, txnVars, Persist, Fault
<1>16. CASE ApplyComponent
  BY <1>16 DEF ApplyComponent, diskVars, Persist, EndTxn, Fault
<1>17. CASE EndRenames
  BY <1>17 DEF EndRenames, diskVars, txnVars, Persist, Fault
<1>18. CASE Close
  BY <1>18 DEF Close, diskVars, txnVars, jobVars, Persist, Fault
<1>19. CASE RemoveJournal
  BY <1>19 DEF RemoveJournal, diskVars, txnVars, jobVars, Retire, Fault
<1>20. CASE FinalizeManifest
  BY <1>20 DEF FinalizeManifest, diskVars, txnVars, jobVars, WorkEnds, EndTxn, Fault
<1>21. CASE Seal
  BY <1>21 DEF Seal, diskVars, WorkEnds, EndTxn, Fault
<1>22. CASE BeginRecovery
  BY <1>22 DEF BeginRecovery, diskVars, txnVars
<1>23. CASE RecoveryComponent
  BY <1>23 DEF RecoveryComponent, diskVars, EndTxn
<1>24. CASE BeginRestore
  BY <1>24 DEF BeginRestore, diskVars, txnVars, jobVars
<1>25. ASSUME NEW f \in File, Restore(f) PROVE G
  BY <1>25 DEF Restore, diskVars, txnVars, Fault
<1>26. CASE EndRecovery
  BY <1>26 DEF EndRecovery, diskVars, Retire, WorkEnds, EndTxn, Fault
<1>27. CASE Reconcile
  BY <1>27 DEF Reconcile, diskVars, txnVars, jobVars, Retire, Fault
<1>28. CASE Forget \/ Cancel \/ Rest \/ UNCHANGED vars
  BY <1>28 DEF Forget, diskVars, txnVars, jobVars, Retire, Fault, Cancel, Rest, vars
<1>30. CASE Crash
  BY <1>30 DEF Crash, diskVars, WorkEnds, EndTxn
<1>31. CASE Meddle
  BY <1>31 DEF Meddle, diskVars, txnVars, jobVars
<1>34. CASE Look
  BY <1>34 DEF Look, diskVars, txnVars, jobVars
<1> QED
  BY <1>1, <1>2, <1>3, <1>4, <1>5, <1>6, <1>7, <1>8, <1>9, <1>10, <1>11, <1>12, <1>13,
     <1>14, <1>15, <1>16, <1>17, <1>18, <1>19, <1>20, <1>21, <1>22, <1>23, <1>24, <1>25,
     <1>26, <1>27, <1>28, <1>30, <1>31, <1>34 DEF Next, TxnStep, ApplyStep, RecoveryStep

(* Apply ends clean only when all of the batch has been applied, and only  *)
(* then takes its journal off the disk.                                    *)
Finishing == (pc = "closing" /\ Clean => AllDone) /\ (pc = "remove" => AllDone)

(* When the last component is done and every file counts as a success, all *)
(* of the batch has been applied.                                          *)
LEMMA RenamesDone ==
    ASSUME Typed, Phases, Covered, Jobs, Accounts, Standing, EndRenames,
           \A x \in File : outcome[x] = "success"
    PROVE  AllDone
<1> SUFFICES ASSUME NEW x \in File PROVE Done(x)
  BY DEF AllDone
<1>1. pc = "renames" /\ plan = {} /\ job = "apply"
  BY DEF EndRenames
<1>2. members = {} /\ Runs
  BY <1>1 DEF Typed, Quiet, Renaming, Runs
<1>3. Fresh
  BY <1>1, <1>2 DEF Jobs
<1>4. stamp[x] \in {Posted(x), "edited"}
  BY <1>1, <1>2 DEF Accounts
<1>5. x \in Tagged /\ stamp[x] # "edited" => tags[x].what = "new"
  BY <1>4 DEF Posted, Typed, Stamped
<1>6. CASE Renamed(x)
  <2> DEFINE m == Move(x, Home[x], Target[x])
  <2>1. m \in ApplyMoves /\ m.owner = x
    BY <1>6 DEF ApplyMoves, Renamed, Move
  <2>2. x \in OwnersOf(ApplyMoves)
    BY <2>1 DEF OwnersOf
  <2>3. mem.state[x] = "complete"
    BY <1>1, <1>2, <2>2 DEF Covered, Planned
  <2> QED
    BY <1>3, <1>5, <2>3 DEF Standing, Done
<1>7. CASE ~Renamed(x)
  BY <1>3, <1>5, <1>7 DEF Standing, Done, Renamed
<1> QED
  BY <1>6, <1>7

(* Every other way to the end leaves a failure or a file cancelled. *)
LEMMA FinishingStep ==
    /\ Typed /\ Phases /\ Covered /\ Closing /\ Jobs /\ Accounts /\ Standing /\ Finishing
    /\ [Next]_vars
    => Finishing'
<1> SUFFICES ASSUME Typed, Phases, Covered, Closing, Jobs, Accounts, Standing, Finishing,
                    [Next]_vars, pc' \in {"closing", "remove"},
                    pc' = "closing" => Clean'
             PROVE  AllDone'
  BY DEF Finishing
<1>t. TypeOK
  BY DEF Typed
<1>1. CASE StopWriting
  <2>1. pc' = "closing" /\ ~broken'
    BY <1>1 DEF StopWriting, Persist, Clean
  <2>2. ~broken
    BY <1>1, <2>1 DEF StopWriting
  <2>3. pc = "tags"
    BY <1>1, <2>2 DEF StopWriting, Closing
  <2>4. left = {}
    <3> SUFFICES ASSUME NEW x \in left PROVE FALSE
      OBVIOUS
    <3>1. x \in File
      BY <1>t DEF TypeOK
    <3>2. outcome'[x] = "cancelled"
      BY <1>1, <3>1 DEF StopWriting
    <3> QED
      BY <2>1, <3>1, <3>2 DEF Clean
  <2> QED
    BY <2>3, <2>4 DEF Closing, AllDone
<1>2. CASE ApplyComponent
  <2>1. pc' = "closing" => broken'
    BY <1>2, <1>t DEF ApplyComponent, TypeOK
  <2>2. pc' # "remove"
    BY <1>2, <1>t DEF ApplyComponent, TypeOK, Persist
  <2> QED
    BY <2>1, <2>2 DEF Clean
<1>3. CASE EndRenames
  <2>1. pc' = "closing" /\ outcome' = outcome /\ UNCHANGED diskVars
    BY <1>3 DEF EndRenames, Persist
  <2>2. AllDone
    BY <1>3, <2>1, RenamesDone DEF Clean
  <2> QED
    BY <2>1, <2>2, WholeKept
<1>4. CASE Close /\ Clean
  <2>1. pc = "closing" /\ UNCHANGED diskVars
    BY <1>4 DEF Close
  <2> QED
    BY <1>4, <2>1, WholeKept DEF Finishing
<1>5. CASE pc' = pc /\ outcome' = outcome /\ broken' = broken /\ (UNCHANGED diskVars \/ Meddle)
  <2>1. pc = "closing" => Clean
    BY <1>5 DEF Clean
  <2> QED
    BY <1>5, <2>1, WholeKept DEF Finishing
<1> QED
  BY <1>1, <1>2, <1>3, <1>4, <1>5, EndSteps

(* A file with the tags it had before the batch, or edited since.          *)
Good(x) == tags[x].what = "old" \/ stamp[x] = "edited"

(* A recovery restores the tags of every file, and those it has restored   *)
(* and counts as a success are good.                                       *)
Restored ==
    job = "recovery" =>
        /\ pc # "restore" => left = File
        /\ pc = "restore" => \A x \in File \ left : outcome[x] = "success" => Good(x)

(* A file whose restoring succeeds has its old tags. *)
LEMMA RestoresOld ==
    ASSUME Typed, Phases, Returning, NEW f \in File, Restore(f), outcome'[f] = "success"
    PROVE  tags'[f].what = "old"
<1>t. /\ tags \in [File -> [of : File, what : {"old", "new", "theirs"}]]
      /\ outcome \in [File -> {"none", "success", "partial", "failed", "cancelled"}]
  BY DEF Typed, TypeOK
<1>1. outcome[f] = "success" /\ pc = "restore"
  BY <1>t DEF Restore
<1>2. at[Home[f]] = f
  <2>1. job = "recovery" /\ members = {}
    BY <1>1 DEF Phases, InRecovery, Typed, Quiet, Renaming
  <2> QED
    BY <1>1, <2>1 DEF Returning, Planned, Recovering
<1>3. CASE UNCHANGED <<tags, lost>>
  <2>1. outcome' # [outcome EXCEPT ![f] = "failed"]
    BY <1>t
  <2>2. HasSavedTags(f, f) \/ tags' = [tags EXCEPT ![f] = [of |-> f, what |-> "old"]]
    BY <1>2, <2>1 DEF Restore, Put
  <2> QED
    BY <1>3, <1>t, <2>2 DEF HasSavedTags
<1>4. CASE ~UNCHANGED <<tags, lost>>
  BY <1>4, <1>t, RestoresOwn
<1> QED
  BY <1>3, <1>4

(* The restoring of a file concerns no other one. *)
LEMMA RestoresAlone ==
    ASSUME Typed, Phases, Returning, NEW f \in File, Restore(f), NEW x \in File \ {f}
    PROVE  tags'[x] = tags[x] /\ stamp'[x] = stamp[x]
<1>1. pc = "restore" /\ job = "recovery"
  BY DEF Restore, Phases, InRecovery
<1>2. CASE outcome[f] # "success"
  BY <1>2 DEF Restore
<1>3. CASE outcome[f] = "success"
  <2>1. members = {} /\ plan = {}
    BY <1>1 DEF Returning, Typed, Quiet, Renaming
  <2>2. at[Home[f]] = f
    BY <1>1, <1>3, <2>1 DEF Returning, Planned, Recovering
  <2>3. UNCHANGED <<tags, stamp>> \/ Put(f, [of |-> f, what |-> "old"], "recovered")
    BY <2>2 DEF Restore
  <2>4. DOMAIN tags = File /\ DOMAIN stamp = File
    BY DEF Typed, TypeOK
  <2> QED
    BY <2>3, <2>4 DEF Put
<1> QED
  BY <1>2, <1>3

(* A file that is good stays so while the worker writes no tags. *)
LEMMA GoodStays ==
    ASSUME Typed, [Next]_vars, \A f \in File : ~WriteTags(f) /\ ~Restore(f),
           NEW x \in File, Good(x)
    PROVE  Good(x)'
<1>1. CASE UNCHANGED <<tags, stamp>>
  BY <1>1 DEF Good
<1>2. CASE Meddle
  <2>1. UNCHANGED <<tags, stamp>> \/ \E g \in File : Edit(g)
    BY <1>2 DEF Meddle
  <2>2. ASSUME NEW g \in File, Edit(g) PROVE Good(x)'
    <3>1. DOMAIN tags = File /\ DOMAIN stamp = File
      BY DEF Typed, TypeOK
    <3>2. stamp' = [stamp EXCEPT ![g] = "edited"] /\ \E w : tags' = [tags EXCEPT ![g] = w]
      BY <2>2 DEF Edit, Put
    <3> QED
      BY <3>1, <3>2 DEF Good
  <2> QED
    BY <2>1, <2>2 DEF Good
<1> QED
  BY <1>1, <1>2, Writers

(* The steps of a recovery keep that account. *)
LEMMA RestoredStep ==
    /\ Typed /\ Phases /\ Jobs /\ Returning /\ Restored /\ [Next]_vars => Restored'
<1> SUFFICES ASSUME Typed, Phases, Jobs, Returning, Restored, [Next]_vars, job' = "recovery"
             PROVE  /\ pc' # "restore" => left' = File
                    /\ pc' = "restore" => \A x \in File \ left' :
                            outcome'[x] = "success" => Good(x)'
  BY DEF Restored
<1>t. TypeOK /\ TypeOK'
  BY TypedStep DEF Typed
<1>p. pc' \in Recovering
  <2>1. InApply' /\ Jobs'
    BY PhasesStep, JobsStep DEF Phases
  <2> QED
    BY <1>t, <2>1 DEF TypeOK, InApply, Setup, Jobs, Recovering, Renaming
<1>1. CASE BeginRecovery
  BY <1>1 DEF BeginRecovery
<1>2. ASSUME NEW f \in File, Restore(f), job = "recovery"
      PROVE  /\ pc' = "restore"
             /\ \A x \in File \ left' : outcome'[x] = "success" => Good(x)'
  <2>1. pc = "restore" /\ pc' = "restore" /\ left' = left \ {f}
    BY <1>2 DEF Restore
  <2> SUFFICES ASSUME NEW x \in File \ left', outcome'[x] = "success" PROVE Good(x)'
    BY <2>1
  <2>2. CASE x = f
    BY <1>2, <2>2, RestoresOld DEF Good
  <2>3. CASE x # f
    <3>1. outcome[x] = "success" /\ x \notin left
      <4>1. outcome' \in {outcome, [outcome EXCEPT ![f] = "failed"]}
        BY <1>2 DEF Restore
      <4> QED
        BY <1>t, <2>1, <2>3, <4>1 DEF TypeOK
    <3>2. Good(x)
      BY <1>2, <2>1, <3>1 DEF Restored
    <3>3. tags'[x] = tags[x] /\ stamp'[x] = stamp[x]
      BY <1>2, <2>3, RestoresAlone
    <3> QED
      BY <3>2, <3>3 DEF Good
  <2> QED
    BY <2>2, <2>3
<1>3. CASE /\ job = "recovery" /\ pc \in Recovering /\ KeepsTags
           /\ ~\E f \in File : Restore(f)
           /\ \/ \E C \in plan : BeginComponent(C)
              \/ RecoveryComponent \/ BeginRestore
              \/ Carrying \/ UNCHANGED <<pc, outcome, members, plan>>
  <2>1. left' = left
    <3>1. pc' # "idle"
      BY <1>p DEF Recovering, Renaming
    <3> QED
      BY <1>3, <3>1, RecoveryKeeps
  <2>2. ASSUME NEW C \in plan, BeginComponent(C) PROVE pc # "restore" /\ pc' # "restore"
    BY <2>2 DEF BeginComponent
  <2>3. RecoveryComponent \/ Carrying => pc # "restore" /\ pc' # "restore"
    BY DEF RecoveryComponent, Carrying, Intend, MoveFile, NoteMove, RollBackMove, NoteRollback, NoteAgain,
       Persist
  <2>4. BeginRestore => pc # "restore"
    BY DEF BeginRestore
  <2>5. CASE pc # "restore"
    <3>1. left' = File
      BY <1>3, <2>1, <2>5 DEF Restored
    <3> QED
      BY <3>1
  <2>6. CASE pc = "restore"
    <3>1. UNCHANGED <<pc, outcome>>
      BY <1>3, <2>2, <2>3, <2>4, <2>6
    <3>2. \A f \in File : ~WriteTags(f)
      BY <2>6 DEF WriteTags
    <3>3. \A x \in File : Good(x) => Good(x)'
      BY <1>3, <3>2, GoodStays
    <3> QED
      BY <1>3, <2>1, <2>6, <3>1, <3>3 DEF Restored
  <2> QED
    BY <2>5, <2>6
<1>4. CASE BeginRecovery \/ job = "recovery"
  BY <1>p, <1>1, <1>2, <1>3, <1>4, RecoverySteps
<1> QED
  BY <1>p, <1>4, RecoverySteps

(* A file at its new name is stuck there if the ledger cannot say where it *)
(* is: an entry of it failed to be taken back, or was cut off, and another *)
(* program has since taken the name it left.                               *)
Foreign(p) == at[p] = Stranger /\ p \notin late
Jam(j, x) ==
    \E i \in 1 .. Len(j.ledger) :
        /\ j.ledger[i].owner = x
        /\ \/ j.ledger[i].state = "unresolved"
           \/ /\ j.ledger[i].state = "intent" /\ j.ledger[i].dst = Target[x]
              /\ Foreign(j.ledger[i].src)
Jammed(x) ==
    /\ at[Target[x]] = x /\ Jam(log, x)
    /\ Runs => Jam(mem, x) /\ x \notin members /\ ~Planned(x)
(* A file that was written but is not at its new name, and that no move    *)
(* under way came from there.                                              *)
Away(x) ==
    /\ log.state[x] = "verified" /\ Renamed(x) /\ at[Target[x]] # x
    /\ \A k \in 1 .. Len(moved) : Ledgered(k).owner = x => Ledgered(k).src # Target[x]
(* Once a recovery has begun, some file of the batch stays short of what   *)
(* the journal would call done, whatever recoveries and others do.         *)
Hopeless(x) ==
    \/ log.state[x] \notin {"complete", "verified"}
    \/ x \in log.posted /\ stamp[x] # Posted(x)
    \/ Away(x) \/ Jammed(x)
Tried == ~Fresh /\ log.batch = "applying" => \E x \in File : Hopeless(x)

(* A file that is stuck is not found by recovery. *)
LEMMA JamHides ==
    ASSUME Typed, NEW x \in File, Jam(log, x), at[Target[x]] = x
    PROVE  Here(x) \notin Path
<1>t. log \in Journal /\ Target[x] \in Path /\ x # Nobody
  BY PathsAssumption, FilesAssumption DEF Typed, TypeOK
<1>l. log.ledger \in Seq(Entry) /\ DOMAIN log.ledger = 1 .. Len(log.ledger)
  BY <1>t DEF Journal
<1>1. PICK i \in 1 .. Len(log.ledger) :
        /\ log.ledger[i].owner = x
        /\ \/ log.ledger[i].state = "unresolved"
           \/ /\ log.ledger[i].state = "intent" /\ log.ledger[i].dst = Target[x]
              /\ Foreign(log.ledger[i].src)
  BY DEF Jam
<1>2. log.ledger[i].src \in Path
  <2>1. log.ledger[i] \in Entry
    BY <1>l
  <2> QED
    BY <2>1 DEF Entry
<1>3. Ambiguous(log.ledger[i])
  BY <1>t, <1>1, <1>2, FilesAssumption DEF Ambiguous, Taken, Foreign
<1>4. Here(x) \in {"unresolved", "missing"}
  <2> DEFINE own == {k \in DOMAIN log.ledger : log.ledger[k].owner = x}
  <2>1. \E k \in own : Ambiguous(log.ledger[k])
    BY <1>l, <1>1, <1>3
  <2> QED
    BY <2>1 DEF Here, Located
<1> QED
  BY <1>4, PathsAssumption

(* A journal with such a file cannot be retired without a recovery. *)
LEMMA HopelessIsPending ==
    ASSUME Typed, Accounts, NEW x \in File, Hopeless(x)
    PROVE  ~Reconcilable
<1> SUFFICES ASSUME Reconcilable PROVE FALSE
  OBVIOUS
<1>1. Here(x) \in Path /\ ~Changed(x) /\ ~Pending(x)
  BY DEF Reconcilable, Consistent
<1>2. log.state[x] \in {"complete", "verified"}
  BY <1>1 DEF Pending
<1>3. x \in log.posted
  BY <1>2 DEF Accounts
<1>4. at[Here(x)] = x /\ stamp[x] = Posted(x)
  BY <1>1, <1>3 DEF Changed
<1>5. CASE Away(x)
  BY <1>1, <1>4, <1>5 DEF Away, Pending, Renamed
<1>6. CASE Jammed(x)
  BY <1>1, <1>6, JamHides DEF Jammed
<1> QED
  BY <1>2, <1>4, <1>5, <1>6 DEF Hopeless

(* The moves done are those done before, or fewer, and the one just made.  *)
LEMMA MovedSteps ==
    ASSUME Typed, [Next]_vars, NEW k \in 1 .. Len(moved')
    PROVE  \/ /\ k \in 1 .. Len(moved)
              /\ Ledgered(k)'.owner = Ledgered(k).owner /\ Ledgered(k)'.src = Ledgered(k).src
           \/ /\ MoveFile
              /\ Ledgered(k)'.owner = Noted.owner /\ Ledgered(k)'.src = Noted.src
<1>t. /\ moved \in Seq(1 .. Len(mem.ledger)) /\ Len(moved) \in Nat
      /\ \A i \in 1 .. Len(moved) : moved[i] \in 1 .. Len(mem.ledger)
  <2>1. moved \in Seq(1 .. Len(mem.ledger))
    BY DEF Typed, TypeOK
  <2> QED
    BY <2>1
<1>m. moved' # <<>>
  OBVIOUS
<1>p. pc' \in Renaming
  BY <1>m, QuietStep DEF Quiet
<1>1. ASSUME NEW C \in plan, BeginComponent(C), pc' = "intent" PROVE FALSE
  BY <1>1, <1>m DEF BeginComponent
<1>2. CASE Aside
  BY <1>2 DEF Aside, txnVars, Ledgered
<1>3. CASE Carrying
  <2>1. ASSUME NEW i \in 1 .. Len(moved)
        PROVE  /\ mem'.ledger[moved[i]].owner = Ledgered(i).owner
               /\ mem'.ledger[moved[i]].src = Ledgered(i).src
    BY <2>1, <1>3, <1>t, LedgerKept DEF Ledgered
  <2>2. ASSUME k \in 1 .. Len(moved), moved'[k] = moved[k]
        PROVE  Ledgered(k)'.owner = Ledgered(k).owner /\ Ledgered(k)'.src = Ledgered(k).src
    BY <2>1, <2>2 DEF Ledgered
  <2>3. CASE moved' = moved
    BY <2>2, <2>3
  <2>4. CASE RollBackMove
    <3>1. Len(moved') = Len(moved) - 1 /\ \A i \in 1 .. Len(moved) - 1 : moved'[i] = moved[i]
      BY <2>4, <1>t, FrontOf DEF RollBackMove
    <3>2. k \in 1 .. Len(moved) - 1 /\ k \in 1 .. Len(moved)
      BY <3>1, <1>t
    <3> QED
      BY <2>2, <3>1, <3>2
  <2>5. CASE MoveFile /\ moved' = Append(moved, Len(mem.ledger))
    <3>1. /\ \A i \in 1 .. Len(moved) : moved'[i] = moved[i]
          /\ k = Len(moved) + 1 => moved'[k] = Len(mem.ledger)
          /\ k \in 1 .. Len(moved) \/ k = Len(moved) + 1
      BY <2>5, <1>t
    <3>2. Len(mem.ledger) \in 1 .. Len(mem.ledger)
      <4>1. mem \in Journal
        BY DEF Typed, TypeOK
      <4>2. mem.ledger \in Seq(Entry) /\ mem.ledger # <<>>
        BY <2>5, <4>1 DEF Journal, Typed, Quiet, MoveFile
      <4> QED
        BY <4>2
    <3>3. /\ mem'.ledger[Len(mem.ledger)].owner = Noted.owner
          /\ mem'.ledger[Len(mem.ledger)].src = Noted.src
      BY <1>3, <3>2, LedgerKept DEF Noted
    <3>4. CASE k \in 1 .. Len(moved)
      BY <2>2, <3>1, <3>4
    <3>5. CASE k = Len(moved) + 1
      BY <2>5, <3>1, <3>3, <3>5 DEF Ledgered
    <3> QED
      BY <3>1, <3>4, <3>5
  <2>6. moved' = moved \/ RollBackMove \/ (MoveFile /\ moved' = Append(moved, Len(mem.ledger)))
    BY <1>3 DEF Carrying, Intend, MoveFile, NoteMove, NoteRollback, NoteAgain, txnVars
  <2> QED
    BY <2>3, <2>4, <2>5, <2>6
<1> QED
  BY <1>p, <1>1, <1>2, <1>3, RenamingSteps

(* Recovery takes no file to its new name, but for a move it undoes. *)
LEMMA AwayStep ==
    ASSUME Typed, Phases, Jobs, Accounts, Single, Underway, Ledgers, Temporary, [Next]_vars,
           ~Fresh, log'.state = log.state, NEW x \in File, Away(x)
    PROVE  Away(x)'
<1>t. /\ at \in [Path -> File \cup {Nobody, Stranger}] /\ Target[x] \in Path \ Temps
      /\ x # Nobody /\ x # Stranger /\ mem.ledger \in Seq(Entry)
      /\ moved \in Seq(1 .. Len(mem.ledger)) /\ Renamed(x)
  <2>1. mem \in Journal
    BY DEF Typed, TypeOK
  <2> QED
    BY <2>1, PathsAssumption, FilesAssumption DEF Typed, TypeOK, Journal, Away
<1>1. at'[Target[x]] # x
  <2> SUFFICES ASSUME at'[Target[x]] = x PROVE FALSE
    OBVIOUS
  <2>1. at[Target[x]] # x
    BY DEF Away
  <2>2. ~Meddle
    BY <1>t, <2>1 DEF Meddle, Taken
  <2>3. (MoveFile \/ RollBackMove) /\ at' # at
    BY <2>1, <2>2, Writers
  <2>4. job = "recovery"
    BY <2>3 DEF MoveFile, RollBackMove, Jobs, Runs, Typed, TypeOK
  <2>5. PICK i \in 1 .. Len(mem.ledger), s \in Path, d \in Path :
                /\ at[s] = mem.ledger[i].owner /\ s # d
                /\ at' = [at EXCEPT ![d] = at[s], ![s] = Nobody]
                /\ \/ /\ MoveFile /\ i = Len(mem.ledger)
                      /\ s = mem.ledger[i].src /\ d = mem.ledger[i].dst
                   \/ /\ RollBackMove /\ moved # <<>> /\ i = Last(moved)
                      /\ s = mem.ledger[i].dst /\ d = mem.ledger[i].src
    BY <2>3, Moves DEF Temporary
  <2>6. d = Target[x] /\ mem.ledger[i].owner = x
    BY <2>1, <2>5, <1>t
  <2>7. CASE MoveFile /\ i = Len(mem.ledger) /\ d = mem.ledger[i].dst
    <3>1. pc = "move" /\ Noted.owner = x /\ Noted.dst = Target[x]
      BY <2>6, <2>7 DEF MoveFile, Noted
    <3>2. Noted.dst = Home[x]
      BY <3>1, <2>4, <1>t DEF Underway, Detour, Goal
    <3> QED
      BY <3>1, <3>2, <1>t DEF Renamed
  <2>8. CASE RollBackMove /\ moved # <<>> /\ i = Last(moved) /\ d = mem.ledger[i].src
    <3>1. Len(moved) \in 1 .. Len(moved) /\ Last(moved) = moved[Len(moved)]
      BY <2>8, <1>t, FrontOf
    <3>2. Ledgered(Len(moved)).owner = x /\ Ledgered(Len(moved)).src = Target[x]
      BY <3>1, <2>6, <2>8 DEF Ledgered
    <3> QED
      BY <3>1, <3>2 DEF Away
  <2> QED
    BY <2>5, <2>7, <2>8
<1>2. ASSUME NEW k \in 1 .. Len(moved'), Ledgered(k)'.owner = x PROVE Ledgered(k)'.src # Target[x]
  <2>1. CASE k \in 1 .. Len(moved) /\ Ledgered(k)'.owner = Ledgered(k).owner /\ Ledgered(k)'.src = Ledgered(k).src
    BY <1>2, <2>1 DEF Away
  <2>2. CASE MoveFile /\ Ledgered(k)'.owner = Noted.owner /\ Ledgered(k)'.src = Noted.src
    <3>1. at[Noted.src] = x
      BY <1>2, <2>2 DEF Underway, MoveFile
    <3> QED
      BY <3>1, <2>2 DEF Away
  <2> QED
    BY <1>2, <2>1, <2>2, MovedSteps
<1> QED
  BY <1>1, <1>2 DEF Away

(* Nothing replaces the file of somebody else, once the worker has looked. *)
LEMMA ForeignStill ==
    ASSUME Typed, Underway, Ledgers, [Next]_vars, NEW p \in Path, Foreign(p)
    PROVE  Foreign(p)'
<1>t. Stranger # Nobody /\ Stranger \notin members
  BY FilesAssumption DEF Typed, TypeOK
<1>1. at'[p] = Stranger
  BY <1>t, Kept DEF Foreign
<1>2. CASE UNCHANGED lookVars \/ Look \/ LookIsOver
  <2>1. late' \subseteq late
    BY <1>2 DEF lookVars, Look, LookIsOver
  <2> QED
    BY <1>1, <2>1 DEF Foreign
<1>3. CASE Meddle
  <2>1. p \notin late'
    BY <1>3, <1>t DEF Meddle, Foreign, Taken
  <2> QED
    BY <1>1, <2>1 DEF Foreign
<1> QED
  BY <1>2, <1>3, PastSteps

(* The entry that keeps a file from being found stays in the ledger. *)
LEMMA JamStays ==
    ASSUME Typed, Underway, Ledgers, Carrying, [Next]_vars,
           NEW x \in File, x \notin members, Jam(mem, x)
    PROVE  Jam(mem, x)'
<1>t. /\ mem.ledger \in Seq(Entry) /\ Len(mem.ledger) \in Nat /\ members \subseteq File
      /\ moved \in Seq(1 .. Len(mem.ledger)) /\ Stranger \notin File /\ Stranger # Nobody
  <2>1. mem \in Journal
    BY DEF Typed, TypeOK
  <2>2. mem.ledger \in Seq(Entry)
    BY <2>1 DEF Journal
  <2> QED
    BY <2>2, FilesAssumption DEF Typed, TypeOK
<1>1. PICK i \in 1 .. Len(mem.ledger) :
        /\ mem.ledger[i].owner = x
        /\ \/ mem.ledger[i].state = "unresolved"
           \/ /\ mem.ledger[i].state = "intent" /\ mem.ledger[i].dst = Target[x]
              /\ Foreign(mem.ledger[i].src)
  BY DEF Jam
<1>2. /\ i \in 1 .. Len(mem'.ledger)
      /\ mem'.ledger[i].owner = mem.ledger[i].owner
      /\ mem'.ledger[i].src = mem.ledger[i].src /\ mem'.ledger[i].dst = mem.ledger[i].dst
  <2>1. Len(mem.ledger) <= Len(mem'.ledger) /\ Len(mem'.ledger) \in Nat
    BY LedgerKept
  <2> QED
    BY <2>1, <1>t, LedgerKept
<1>3. mem'.ledger[i].state = mem.ledger[i].state
  <2>1. ~(MoveFile /\ i = Len(mem.ledger))
    BY <1>1 DEF MoveFile, Underway, Noted
  <2>2. ~(RollBackMove /\ moved # <<>> /\ i = Last(moved))
    <3> SUFFICES ASSUME moved # <<>>, i = Last(moved) PROVE FALSE
      OBVIOUS
    <3>1. Len(moved) \in 1 .. Len(moved) /\ Last(moved) = moved[Len(moved)]
      BY <1>t, FrontOf
    <3>2. Ledgered(Len(moved)).owner = x
      BY <3>1, <1>1 DEF Ledgered
    <3> QED
      BY <3>1, <3>2 DEF Ledgers
  <2> QED
    BY <2>1, <2>2, EntryStates
<1>4. Foreign(mem.ledger[i].src) =>
        at'[mem'.ledger[i].src] = Stranger /\ mem'.ledger[i].src \notin late'
  <2>1. mem.ledger[i].src \in Path
    BY <1>t, EntryTyped DEF Typed
  <2> DEFINE p == mem.ledger[i].src
  <2>2. ASSUME NEW q \in Path, Foreign(q) PROVE at'[q] = Stranger /\ q \notin late'
    BY <2>2, ForeignStill DEF Foreign
  <2> QED
    BY <2>1, <2>2, <1>2 DEF Foreign
<1> QED
  BY <1>1, <1>2, <1>3, <1>4 DEF Jam, Foreign

(* Recovery plans no move of a file it has not found. *)
LEMMA UnfoundIsLeft ==
    ASSUME BeginRecovery, NEW x \in File, Here(x) \notin Path
    PROVE  ~Planned(x)'
<1> DEFINE here == [f \in File |-> Here(f)]
           sure == {f \in File : here[f] \in Path /\ Evidence(log, f, at[here[f]])}
           back == {Move(f, here[f], Home[f]) : f \in {g \in sure : here[g] # Home[g]}}
           bad == Blocked(back, Taken)
<1>1. plan' = Components(back \ bad)
  BY DEF BeginRecovery
<1>2. x \notin sure
  OBVIOUS
<1>3. \A f, s, d : Move(f, s, d).owner = f
  BY DEF Move
<1>4. ASSUME NEW m \in back PROVE m.owner # x
  <2>1. PICK f \in sure : m = Move(f, here[f], Home[f])
    OBVIOUS
  <2> HIDE DEF sure, here
  <2> QED
    BY <1>2, <1>3, <2>1
<1> HIDE DEF back, bad
<1>5. \A C \in Components(back \ bad) : C \subseteq back
  BY ComponentsTyped
<1>6. ~\E C \in plan' : x \in OwnersOf(C)
  BY <1>1, <1>4, <1>5 DEF OwnersOf
<1> QED
  BY <1>6 DEF Planned

(* A file that is stuck stays where it is: no recovery moves it. *)
LEMMA JammedStep ==
    ASSUME Typed, Phases, Jobs, Underway, Ledgers, [Next]_vars, ~Fresh,
           log' = log \/ (Carrying /\ log' = mem'), NEW x \in File, Jammed(x)
    PROVE  Jammed(x)'
<1>t. /\ TypeOK /\ log.ledger \in Seq(Entry) /\ Target[x] \in Path /\ members \subseteq File
      /\ x # Nobody /\ Stranger \notin File /\ Stranger # Nobody
  <2>1. log \in Journal
    BY DEF Typed, TypeOK
  <2>2. log.ledger \in Seq(Entry)
    BY <2>1 DEF Journal
  <2> QED
    BY <2>2, PathsAssumption, FilesAssumption DEF Typed, TypeOK
<1>m. x \notin members
  <2>1. pc \in Renaming => Runs
    BY DEF Renaming, Runs
  <2> QED
    BY <2>1 DEF Typed, Quiet, Jammed
<1>0. pc # "new" /\ ~BeginApply /\ (Carrying => Runs)
  BY DEF Jobs, BeginApply, Carrying, Intend, MoveFile, NoteMove, RollBackMove, NoteRollback, NoteAgain,
     Runs
<1>1. at'[Target[x]] = x
  BY <1>t, <1>m, Kept DEF Jammed
<1>2. Carrying => Jam(mem, x)'
  BY <1>0, <1>m, JamStays DEF Jammed
<1>3. ASSUME log' = log PROVE Jam(log, x)'
  <2>1. ASSUME NEW i \in 1 .. Len(log.ledger) PROVE log.ledger[i].src \in Path
    <3>1. log.ledger[i] \in Entry
      BY <1>t
    <3> QED
      BY <3>1 DEF Entry
  <2>2. \A p \in Path : Foreign(p) => Foreign(p)'
    BY ForeignStill
  <2>3. PICK i \in 1 .. Len(log.ledger) :
        /\ log.ledger[i].owner = x
        /\ \/ log.ledger[i].state = "unresolved"
           \/ /\ log.ledger[i].state = "intent" /\ log.ledger[i].dst = Target[x]
              /\ Foreign(log.ledger[i].src)
    BY DEF Jammed, Jam
  <2>4. Foreign(log.ledger[i].src) =>
            at'[log'.ledger[i].src] = Stranger /\ log'.ledger[i].src \notin late'
    BY <1>3, <2>1, <2>2 DEF Foreign
  <2> QED
    BY <1>3, <2>3, <2>4 DEF Jam, Foreign
<1>4. ASSUME log' = mem', Carrying PROVE Jam(log, x)'
  BY <1>2, <1>4 DEF Jam
<1>5. ASSUME Runs' PROVE Jam(mem, x)'
  <2>1. CASE Carrying
    BY <2>1, <1>2
  <2>2. CASE BeginRecovery
    <3>1. mem' = log /\ log' = log
      BY <2>2 DEF BeginRecovery
    <3>2. Jam(log, x)'
      BY <3>1, <1>3
    <3> QED
      BY <3>1, <3>2 DEF Jam
  <2>3. CASE ~Carrying /\ mem'.ledger = mem.ledger /\ Runs
    <3>1. Jam(mem, x)
      BY <2>3 DEF Jammed
    <3>2. \A p \in Path : Foreign(p) => Foreign(p)'
      BY ForeignStill
    <3>3. \A i \in 1 .. Len(mem.ledger) : mem.ledger[i].src \in Path
      BY <1>t, EntryTyped
    <3>4. \A i \in 1 .. Len(mem.ledger) :
              Foreign(mem.ledger[i].src) =>
                  at'[mem'.ledger[i].src] = Stranger /\ mem'.ledger[i].src \notin late'
      BY <2>3, <3>2, <3>3 DEF Foreign
    <3> QED
      BY <2>3, <3>1, <3>4 DEF Jam, Foreign
  <2> QED
    BY <1>0, <1>5, <2>1, <2>2, <2>3, LedgerSteps DEF Runs
<1>6. ASSUME Runs' PROVE x \notin members' /\ ~Planned(x)'
  <2>1. ASSUME NEW C \in plan, BeginComponent(C) PROVE x \notin members' /\ ~Planned(x)'
    <3>1. Runs /\ plan' = plan \ {C} /\ members' \in {members, OwnersOf(C)}
      BY <2>1 DEF BeginComponent, Runs, txnVars
    <3>2. \A D \in plan : x \notin OwnersOf(D)
      BY <3>1 DEF Jammed, Planned
    <3>3. ~\E D \in plan' : x \in OwnersOf(D)
      BY <3>1, <3>2
    <3> QED
      BY <3>1, <3>2, <3>3, <2>1, <1>m DEF Planned
  <2>2. CASE BeginRecovery
    <3>1. Here(x) \notin Path /\ members' = members
      BY <2>2, JamHides DEF Jammed, BeginRecovery, txnVars
    <3> QED
      BY <2>2, <3>1, <1>m, UnfoundIsLeft
  <2>3. CASE Runs /\ plan' = plan /\ (members' = members \/ members' = {})
    BY <2>3, <1>m DEF Jammed, Planned
  <2> QED
    BY <1>0, <1>6, <2>1, <2>2, <2>3, PlanSteps DEF Runs
<1> QED
  BY <1>1, <1>3, <1>4, <1>5, <1>6 DEF Jammed

(* Until a recovery begins a file that has been written is found at its    *)
(* new name, or is not there, or is stuck there.                           *)
LEMMA Placed ==
    ASSUME Typed, Noting, Standing, Arrivals, Fresh, pc = "idle", log.batch = "applying",
           NEW x \in File, log.state[x] \in {"complete", "verified"}
    PROVE  \/ Here(x) = Target[x] /\ at[Target[x]] = x
           \/ log.state[x] = "verified" /\ Renamed(x) /\ at[Target[x]] # x
           \/ at[Target[x]] = x /\ Jam(log, x)
<1>t. /\ log.ledger \in Seq(Entry) /\ DOMAIN log.ledger = 1 .. Len(log.ledger)
      /\ Len(log.ledger) \in Nat /\ Target[x] \in Path /\ Home[x] \in Path /\ x # Nobody
      /\ at \in [Path -> File \cup {Nobody, Stranger}]
  <2>1. log \in Journal
    BY DEF Typed, TypeOK
  <2>2. log.ledger \in Seq(Entry)
    BY <2>1 DEF Journal
  <2> QED
    BY <2>2, PathsAssumption, FilesAssumption DEF Typed, TypeOK
<1>1. CASE at[Target[x]] # x
  BY <1>1 DEF Standing, Renamed
<1>2. CASE at[Target[x]] = x /\ ~Renamed(x)
  <2>1. \A k \in DOMAIN log.ledger : log.ledger[k].owner # x
    BY <1>2, <1>t DEF Noting, Line
  <2>2. Home[x] = Target[x] /\ Home[x] \in Taken
    BY <1>2, <1>t DEF Renamed, Taken
  <2>3. \A k \in DOMAIN log.ledger : log.ledger[k].owner = x => ~Ambiguous(log.ledger[k])
    BY <2>1
  <2>4. Located(log, x) = Home[x]
    BY <2>1, <2>2, <2>3, LocatedAt
  <2> QED
    BY <1>2, <2>2, <2>4 DEF Here
<1>3. CASE at[Target[x]] = x /\ Renamed(x)
  <2>1. PICK i \in 1 .. Len(log.ledger) :
          /\ log.ledger[i].owner = x /\ log.ledger[i].dst = Target[x]
          /\ \A k \in 1 .. Len(log.ledger) : log.ledger[k].owner = x => k <= i
          /\ log.ledger[i].state # "rolled_back"
          /\ log.ledger[i].state = "intent" => at[log.ledger[i].src] \in {Nobody, Stranger}
    BY <1>3 DEF Arrivals, Arrived
  <2>e. /\ \A k \in 1 .. Len(log.ledger) : log.ledger[k].state \in {"intent", "completed", "rolled_back", "unresolved"}
        /\ log.ledger[i].src \in Path
    <3>1. \A k \in 1 .. Len(log.ledger) : log.ledger[k] \in Entry
      BY <1>t
    <3> QED
      BY <3>1 DEF Entry
  <2>d. Target[x] \in Taken
    BY <1>3, <1>t DEF Taken
  <2>2. ASSUME ~Jam(log, x) PROVE Here(x) = Target[x]
    <3>1. \A k \in 1 .. Len(log.ledger) : log.ledger[k].owner = x => log.ledger[k].state # "unresolved"
      BY <2>2 DEF Jam
    <3>2. log.ledger[i].state = "intent" => log.ledger[i].src \notin Taken
      <4>1. late = {}
        BY DEF Typed, Looked
      <4> QED
        BY <2>1, <2>2, <2>e, <4>1 DEF Jam, Taken, Foreign
    <3>3. \A k \in 1 .. Len(log.ledger) :
            log.ledger[k].owner = x /\ log.ledger[k].state = "intent" => k = i
      BY <2>1, <1>t DEF Noting
    <3>4. \A k \in DOMAIN log.ledger : log.ledger[k].owner = x => ~Ambiguous(log.ledger[k])
      BY <2>1, <3>1, <3>2, <3>3, <2>d, <1>t DEF Ambiguous
    <3>5. EntryPlace(log.ledger[i]) = Target[x]
      <4>1. CASE log.ledger[i].state = "completed"
        BY <2>1, <4>1 DEF EntryPlace
      <4>2. CASE log.ledger[i].state = "intent"
        BY <2>1, <2>d, <4>2 DEF EntryPlace
      <4> QED
        BY <2>1, <2>e, <3>1, <4>1, <4>2
    <3>6. Located(log, x) = EntryPlace(log.ledger[i])
      BY <2>1, <2>d, <3>4, <3>5, <1>t, LocatedAt
    <3> QED
      BY <3>5, <3>6 DEF Here
  <2> QED
    BY <1>3, <2>2
<1> QED
  BY <1>1, <1>2, <1>3

(* After the first recovery no file gets back the stamp of its writing. *)
LEMMA StampStaysLost ==
    ASSUME Typed, Phases, Jobs, [Next]_vars, ~Fresh, NEW x \in File, stamp[x] # Posted(x)
    PROVE  stamp'[x] # Posted(x)
<1>t. stamp \in [File -> {"scanned", "applied", "recovered", "edited"}]
  BY DEF Typed, TypeOK
<1>p. Posted(x) \notin {"recovered", "edited"}
  BY DEF Posted
<1>1. ASSUME NEW f, NEW what, NEW by \in {"recovered", "edited"}, Put(f, what, by)
      PROVE  stamp'[x] # Posted(x)
  BY <1>1, <1>t, <1>p DEF Put
<1>2. ASSUME NEW f \in File, WriteTags(f) PROVE FALSE
  <2>1. pc = "tags"
    BY <1>2 DEF WriteTags
  <2> QED
    BY <2>1 DEF Phases, InApply, Jobs, Runs
<1>3. ASSUME NEW f \in File, Restore(f) PROVE stamp'[x] # Posted(x)
  <2>1. UNCHANGED stamp \/ Put(at[Home[f]], [of |-> f, what |-> "old"], "recovered")
    BY <1>3 DEF Restore
  <2> QED
    BY <2>1, <1>1
<1>4. CASE Meddle
  <2>1. UNCHANGED stamp \/ \E f \in File : Edit(f)
    BY <1>4 DEF Meddle
  <2>2. ASSUME NEW f \in File, Edit(f) PROVE stamp'[x] # Posted(x)
    <3>1. \E w : Put(f, w, "edited")
      BY <2>2 DEF Edit
    <3> QED
      BY <3>1, <1>1
  <2> QED
    BY <2>1, <2>2
<1> QED
  BY <1>2, <1>3, <1>4, Writers

(* A file that is hopeless stays so, as long as there is a journal. *)
LEMMA HopelessStep ==
    ASSUME Typed, Phases, Jobs, Accounts, Single, Underway, Ledgers, Temporary, [Next]_vars,
           ~Fresh, log' # NoJournal, NEW x \in File, Hopeless(x)
    PROVE  Hopeless(x)'
<1>1. /\ log'.state = log.state /\ log'.posted = log.posted
      /\ log' = log \/ (Carrying /\ log' = mem')
  BY RecoveryJournal
<1>2. CASE log.state[x] \notin {"complete", "verified"}
  BY <1>1, <1>2 DEF Hopeless
<1>3. CASE x \in log.posted /\ stamp[x] # Posted(x)
  <2>1. stamp'[x] # Posted(x)
    BY <1>3, StampStaysLost
  <2> QED
    BY <1>1, <1>3, <2>1 DEF Hopeless, Posted
<1>4. CASE Away(x)
  BY <1>1, <1>4, AwayStep DEF Hopeless
<1>5. CASE Jammed(x)
  BY <1>1, <1>5, JammedStep DEF Hopeless
<1> QED
  BY <1>2, <1>3, <1>4, <1>5 DEF Hopeless

(* The first recovery begins because some file is.                         *)
LEMMA FirstRecovery ==
    ASSUME Typed, Phases, Jobs, Accounts, Underway, Ledgers, Noting, Standing, Arrivals,
           [Next]_vars, BeginRecovery, Fresh, log.batch = "applying"
    PROVE  \E x \in File : Hopeless(x)'
<1>0. /\ pc = "idle" /\ ~Reconcilable /\ manifest # "none" /\ mem' = log /\ log' = log
      /\ UNCHANGED <<at, stamp, moved, members, late>>
  BY DEF BeginRecovery, Readable, diskVars, txnVars, lookVars
<1>q. moved = <<>> /\ members = {}
  BY <1>0 DEF Typed, Quiet, Renaming
<1>1. PICK x \in File : Here(x) \notin Path \/ Changed(x) \/ Pending(x)
  BY <1>0 DEF Reconcilable, Consistent
<1> SUFFICES ASSUME log.state[x] \in {"complete", "verified"},
                    x \in log.posted => stamp[x] = Posted(x)
             PROVE  Hopeless(x)'
  BY <1>0 DEF Hopeless, Posted
<1>2. x \in log.posted
  BY DEF Accounts
<1>3. CASE Here(x) = Target[x] /\ at[Target[x]] = x
  BY <1>1, <1>2, <1>3, PathsAssumption DEF Changed, Pending
<1>4. CASE log.state[x] = "verified" /\ Renamed(x) /\ at[Target[x]] # x
  <2>1. 1 .. Len(moved') = {}
    BY <1>0, <1>q
  <2> QED
    BY <1>0, <1>4, <2>1 DEF Hopeless, Away
<1>5. CASE at[Target[x]] = x /\ Jam(log, x)
  <2>1. ~Planned(x)'
    BY <1>5, JamHides, UnfoundIsLeft
  <2>2. Jam(log, x)' /\ Jam(mem, x)'
    BY <1>0, <1>5 DEF Jam, Foreign
  <2> QED
    BY <1>0, <1>5, <1>q, <2>1, <2>2 DEF Hopeless, Jammed
<1> QED
  BY <1>0, <1>3, <1>4, <1>5, Placed

(* Once a recovery has begun there is always such a file. *)
LEMMA TriedStep ==
    /\ Typed /\ Phases /\ Jobs /\ Accounts /\ Single /\ Underway /\ Ledgers /\ Temporary
    /\ Noting /\ Standing /\ Arrivals /\ Tried /\ [Next]_vars
    => Tried'
<1> SUFFICES ASSUME Typed, Phases, Jobs, Accounts, Single, Underway, Ledgers, Temporary,
                    Noting, Standing, Arrivals, Tried, [Next]_vars,
                    ~Fresh', log'.batch = "applying"
             PROVE  \E x \in File : Hopeless(x)'
  BY DEF Tried
<1>1. CASE Fresh
  <2>1. BeginRecovery
    BY <1>1, JobSteps DEF Fresh
  <2> QED
    BY <1>1, <2>1, FirstRecovery DEF BeginRecovery
<1>2. CASE ~Fresh
  <2>1. log' # NoJournal
    BY DEF NoJournal
  <2>2. log.batch = "applying"
    BY <1>2, <2>1, RecoveryJournal
  <2>3. PICK x \in File : Hopeless(x)
    BY <1>2, <2>2 DEF Tried
  <2> QED
    BY <1>2, <2>1, <2>3, HopelessStep
<1> QED
  BY <1>1, <1>2

(* Without a journal on offer the batch has been applied to all its files, *)
(* or to none, at every step.                                              *)
Silent == ~Offered => AllHome \/ AllDone

(* What the batch did not touch is at home. *)
LEMMA Untouched ==
    ASSUME Typed, Phases, log.batch \in {"backing_up", "failed"}
    PROVE  AllHome
<1> SUFFICES ASSUME NEW x \in File PROVE AtHome(x)
  BY DEF AllHome
<1>1. at[Home[x]] = x /\ tags[x].what # "new"
  BY DEF Phases, Unwritten
<1>2. tags[x].what \in {"old", "new", "theirs"} /\ (tags[x].what = "theirs" => stamp[x] = "edited")
  <2>1. tags[x] \in [of : File, what : {"old", "new", "theirs"}]
    BY DEF Typed, TypeOK
  <2> QED
    BY <2>1 DEF Typed, Stamped
<1> QED
  BY <1>1, <1>2 DEF AtHome

(* What recovery has brought back, to the last file, is at home. *)
LEMMA BroughtBack ==
    ASSUME Typed, Phases, Returning, Restored, EndRecovery, Recovered
    PROVE  AllHome
<1> SUFFICES ASSUME NEW x \in File PROVE AtHome(x)
  BY DEF AllHome
<1>1. pc = "restore" /\ left = {} /\ outcome[x] = "success"
  BY DEF EndRecovery, Recovered
<1>2. job = "recovery" /\ plan = {} /\ members = {}
  BY <1>1 DEF Phases, InRecovery, Returning, Typed, Quiet, Renaming
<1>3. at[Home[x]] = x
  BY <1>1, <1>2 DEF Returning, Planned, Recovering
<1>4. Good(x)
  BY <1>1, <1>2 DEF Restored
<1> QED
  BY <1>3, <1>4 DEF AtHome, Good

(* A journal with nothing pending, before any recovery, is of a batch that *)
(* has been applied.                                                       *)
LEMMA NothingPending ==
    ASSUME Typed, Accounts, Standing, Fresh, Reconcilable
    PROVE  AllDone
<1> SUFFICES ASSUME NEW x \in File PROVE Done(x)
  BY DEF AllDone
<1>1. Here(x) \in Path /\ ~Changed(x) /\ ~Pending(x)
  BY DEF Reconcilable, Consistent
<1>2. log.state[x] \in {"complete", "verified"}
  BY <1>1 DEF Pending
<1>3. x \in log.posted
  BY <1>2 DEF Accounts
<1>4. at[Here(x)] = x /\ stamp[x] = Posted(x)
  BY <1>1, <1>3 DEF Changed
<1>5. at[Target[x]] = x
  <2>1. CASE log.state[x] = "complete"
    BY <2>1 DEF Standing
  <2>2. CASE log.state[x] = "verified" /\ Here(x) = Target[x]
    BY <2>2, <1>4
  <2>3. CASE Home[x] = Target[x]
    BY <2>3 DEF Standing, Renamed
  <2> QED
    BY <1>1, <1>2, <2>1, <2>2, <2>3 DEF Pending
<1>6. x \in Tagged /\ stamp[x] # "edited" => tags[x].what = "new"
  BY <1>4 DEF Posted, Typed, Stamped
<1> QED
  BY <1>5, <1>6 DEF Done

(* While no journal is on offer the batch touches no file. *)
LEMMA SilentIsStill ==
    ASSUME Typed, Phases, [Next]_vars, ~Offered
    PROVE  UNCHANGED diskVars \/ Meddle
<1>1. ASSUME NEW f \in File, WriteTags(f) PROVE FALSE
  <2>1. pc = "tags"
    BY <1>1 DEF WriteTags
  <2> QED
    BY <2>1 DEF Phases, InApply, Writing, Offered
<1>2. ASSUME NEW f \in File, Restore(f) PROVE FALSE
  <2>1. pc = "restore"
    BY <1>2 DEF Restore
  <2> QED
    BY <2>1 DEF Phases, InRecovery, Recovering
<1>3. ASSUME MoveFile \/ RollBackMove PROVE FALSE
  <2>1. pc \in Renaming /\ job \in {"apply", "recovery"}
    BY <1>3 DEF MoveFile, RollBackMove, Renaming, Typed, TypeOK
  <2> QED
    BY <2>1 DEF Phases, InApply, InRecovery, Writing, Recovering, Offered
<1> QED
  BY <1>1, <1>2, <1>3, Writers DEF diskVars

(* A journal is retired only when the batch is whole, and it stays whole. *)
LEMMA SilentStep ==
    /\ Typed /\ Phases /\ Accounts /\ Standing /\ Finishing /\ Returning /\ Restored
    /\ Tried /\ Silent /\ [Next]_vars
    => Silent'
<1> SUFFICES ASSUME Typed, Phases, Accounts, Standing, Finishing, Returning, Restored,
                    Tried, Silent, [Next]_vars, ~Offered'
             PROVE  (AllHome \/ AllDone)'
  BY DEF Silent
<1>1. CASE ~Offered
  BY <1>1, SilentIsStill, WholeKept DEF Silent
<1>2. CASE Offered
  <2>1. CASE Close /\ Clean
    BY <2>1, WholeKept DEF Close, Finishing
  <2>2. CASE RemoveJournal
    BY <2>2, WholeKept DEF RemoveJournal, Finishing
  <2>3. CASE EndRecovery /\ Recovered
    BY <2>3, BroughtBack, WholeKept DEF EndRecovery
  <2>4. CASE Forget
    <3>1. log.batch = "failed" /\ UNCHANGED diskVars
      BY <2>4 DEF Forget
    <3> QED
      BY <3>1, Untouched, WholeKept
  <2>5. CASE Reconcile
    <3>1. Reconcilable /\ UNCHANGED diskVars
      BY <2>5 DEF Reconcile
    <3>2. CASE log.batch = "applying"
      <4>1. Fresh
        BY <3>1, <3>2, HopelessIsPending DEF Tried
      <4> QED
        BY <3>1, <4>1, NothingPending, WholeKept
    <3>3. CASE log.batch # "applying"
      <4>1. log.batch \in {"none", "backing_up", "applying", "failed", "done"}
        BY DEF Typed, TypeOK, Journal
      <4> QED
        BY <1>2, <3>1, <3>3, <4>1, Untouched, WholeKept DEF Offered
    <3> QED
      BY <3>2, <3>3
  <2> QED
    BY <1>2, <2>1, <2>2, <2>3, <2>4, <2>5, LogSteps
<1> QED
  BY <1>1, <1>2

(* What the worker and the journals say of the batch, as long as recovery   *)
(* can tell the files apart.                                               *)
Told ==
    /\ Outset /\ Noting /\ Standing /\ Arrivals
    /\ Finishing /\ Restored /\ Tried /\ Silent

(* It holds when the batch begins. *)
LEMMA InitTold == Init => Jobs /\ Accounts /\ Told
<1> SUFFICES ASSUME Init PROVE Jobs /\ Accounts /\ Told
  OBVIOUS
<1>1. /\ pc = "new" /\ job = "apply" /\ mem = NoJournal /\ log = NoJournal /\ members = {}
      /\ left = {} /\ \A x \in File : outcome[x] = "none" /\ tags[x].what = "old"
  BY DEF Init, NoWork
<1>2. Fresh
  BY DEF Init, Fresh
<1>3. /\ log.batch = "none" /\ 1 .. Len(log.ledger) = {} /\ Len(log.ledger) <= Len(log.ledger)
      /\ \A x \in File : log.state[x] = "planned"
  BY <1>1 DEF NoJournal
<1>4. AllHome
  <2>1. \A x \in File : at[Home[x]] = x
    BY <1>1, InitPhases DEF Phases, Unwritten, Setup
  <2> QED
    BY <1>1, <2>1 DEF AllHome, AtHome
<1>5. Jobs /\ Accounts
  BY <1>1, <1>2, <1>3 DEF Jobs, Accounts, Runs
<1>7. Outset /\ Noting
  BY <1>1, <1>3 DEF Outset, Noting, Runs
<1>8. Standing
  BY <1>1, <1>3, <1>4 DEF Standing, AllHome, AtHome
<1>9. Arrivals
  BY <1>1, <1>3 DEF Arrivals, Runs
<1>10. Finishing /\ Restored /\ Tried /\ Silent
  BY <1>1, <1>2, <1>4 DEF Finishing, Restored, Tried, Silent
<1> QED
  BY <1>5, <1>7, <1>8, <1>9, <1>10 DEF Told

(* With no journal on offer and no worker, the batch has been applied to   *)
(* all its files or to none, wherever it was cut off, whatever failed,     *)
(* whoever edited its files meanwhile, and however often it was recovered: *)
(* unless the files are given the same values and a rollback was lost.     *)
THEOREM SilenceIsWhole == Spec => []SilentMeansWhole
<1> DEFINE IInv == /\ Invariant /\ Jobs /\ Accounts
                   /\ ~Mistakable => Sure /\ Told
<1>1. Init => IInv
  BY SureInductive, InitTold
<1>2. IInv /\ [Next]_vars => IInv'
  <2> SUFFICES ASSUME Invariant, Jobs, Accounts, ~Mistakable => Sure /\ Told, [Next]_vars
               PROVE  Jobs' /\ Accounts' /\ (~Mistakable' => Told')
    BY SureInductive
  <2>1. Jobs' /\ Accounts'
    BY JobsStep, AccountsStep DEF Invariant
  <2>0. ASSUME ~Mistakable'
        PROVE  /\ Sure /\ Places /\ Temporary /\ Outset /\ Noting /\ Standing /\ Arrivals
               /\ Finishing /\ Restored /\ Tried /\ Silent
    BY <2>0, SureInductive DEF Told, Sure
  <2>3. ~Mistakable' => Outset' /\ Noting'
    BY <2>0, OutsetStep, NotingStep DEF Invariant, Places
  <2>4. ~Mistakable' => Standing'
    BY <2>0, StandingStep DEF Invariant, Places
  <2>5. ~Mistakable' => Arrivals'
    BY <2>0, ArrivalsStep DEF Invariant, Places
  <2>6. ~Mistakable' => Finishing'
    BY <2>0, FinishingStep DEF Invariant, Places
  <2>7. ~Mistakable' => Restored'
    BY <2>0, RestoredStep DEF Invariant, Places
  <2>8. ~Mistakable' => Tried'
    BY <2>0, TriedStep DEF Invariant, Places
  <2>9. ~Mistakable' => Silent'
    BY <2>0, SilentStep DEF Invariant, Places
  <2> QED
    BY <2>1, <2>3, <2>4, <2>5, <2>6, <2>7, <2>8, <2>9 DEF Told
<1>3. IInv => SilentMeansWhole
  BY DEF Told, Silent, SilentMeansWhole, AllHome, AllDone
<1> QED
  BY <1>1, <1>2, <1>3, PTL DEF Spec

=============================================================================
