---------------------------- MODULE TagUndoProofs ----------------------------
(***************************************************************************)
(* What TagUndo promises for any batch, any names and any bounds, whenever *)
(* other programs touch the files.                                         *)
(***************************************************************************)
EXTENDS TagUndo, SequenceTheorems, TLAPS

(* A worker with a record in hand knows it, and the name its file had.     *)
KeysKnown ==
    /\ pc \in {"write", "note", "put", "record", "move", "replace", "moved"} => cur \in File
    /\ \A r \in File : /\ log.state[r] # "none" => log.key[r] \in Path
                       /\ mem.state[r] # "none" => mem.key[r] \in Path
    /\ pc \in {"undo", "write", "note", "moves", "move", "replace", "moved"} =>
         \A r \in left : mem.key[r] \in Path
    /\ pc \in {"write", "note", "move", "replace", "moved"} => mem.key[cur] \in Path

Typed == TypeOK /\ KeysKnown

(* A journal that is none has no entry; one that is closed has put back    *)
(* what it took on.                                                        *)
Closed == {"completed", "retired"}
PutBack(r) == tags[r] = "old" \/ stamp[r] = "edited" \/ r \in misled
Truthful(j) ==
    /\ j.batch = "none" => \A r \in File : j.state[r] = "none"
    /\ \A r \in File : j.state[r] \in Done => PutBack(r)
    /\ j.batch \in Closed =>
         \A r \in File : j.state[r] \in {"none", "cancelled"} \/ PutBack(r)
JournalsTrue == Truthful(log) /\ Truthful(mem)

(* Where a worker is, and what its journal says then. *)
Undoing == {"undo", "write", "note", "close"}
Recovering == {"look", "put", "record"}
Moving == {"plan", "moves", "move", "replace", "moved"}
WorkerSound ==
    /\ pc \in {"write", "put"} => cur \notin left
    /\ pc \in Recovering => mem.batch \notin {"none"} \cup Closed
    /\ pc \in Undoing => mem.batch \in {"metadata_writing", "metadata_verified"}
    /\ pc \in Moving => /\ mem.batch = "completed"
                        /\ \A r \in File : mem.state[r] # "none" => PutBack(r)
    /\ pc \in {"moves", "move", "replace", "moved"} => \A r \in left : mem.state[r] # "none"
    /\ pc \in {"move", "replace", "moved"} => mem.state[cur] # "none"
    /\ pc \in Undoing /\ ~partial =>
         \A r \in File : \/ mem.state[r] \in {"none", "verified", "cancelled"}
                         \/ r \in left
                         \/ pc = "write" /\ r = cur
    /\ pc = "close" => left = {}

(* What is going to be written over is still what it was taken for, unless *)
(* others have touched it since.                                           *)
Trusted(r, p) == SameIdentity(r, p) \/ p \in since
Aimed ==
    /\ pc \in {"undo", "write", "note"} => \A r \in left : Trusted(r, mem.key[r])
    /\ pc = "write" => Trusted(cur, mem.key[cur])
    /\ pc = "put" /\ Keyed(cur) /\ Taken(Final[cur]) => Trusted(cur, Final[cur])

(* A file has one name. *)
Single == \A p, q \in Path : at[p] = at[q] /\ at[p] \in File => p = q

Inv == Typed /\ JournalsTrue /\ WorkerSound /\ Single /\ Aimed /\ JournalledKept

----------------------------------------------------------------------------
(* Lemmas                                                                  *)

(* An entry of the ledger is replaced by a step of the ledger.             *)
LEMMA LedgerStep ==
    ASSUME NEW j \in Journal, NEW r \in File, NEW n \in Nat, NEW s \in Step
    PROVE  /\ [j EXCEPT !.ledger[r][n] = s] \in Journal
           /\ [j EXCEPT !.ledger[r] = Append(@, s)] \in Journal
<1>1. j.ledger \in [File -> Seq(Step)] /\ j.ledger[r] \in Seq(Step)
  BY DEF Journal
<1>2. [j.ledger[r] EXCEPT ![n] = s] \in Seq(Step)
  <2>1. CASE n \in 1 .. Len(j.ledger[r])
    BY <1>1, <2>1, ExceptSeq
  <2>2. CASE n \notin 1 .. Len(j.ledger[r])
    <3>1. DOMAIN j.ledger[r] = 1 .. Len(j.ledger[r])
      BY <1>1
    <3>2. [j.ledger[r] EXCEPT ![n] = s] = j.ledger[r]
      BY <1>1, <2>2, <3>1
    <3> QED
      BY <1>1, <3>2
  <2> QED
    BY <2>1, <2>2
<1>3. Append(j.ledger[r], s) \in Seq(Step)
  BY <1>1
<1>4. /\ [j.ledger EXCEPT ![r] = [j.ledger[r] EXCEPT ![n] = s]] \in [File -> Seq(Step)]
      /\ [j.ledger EXCEPT ![r] = Append(j.ledger[r], s)] \in [File -> Seq(Step)]
  BY <1>1, <1>2, <1>3
<1> QED
  BY <1>4 DEF Journal

(* A changed journal is a journal. *)
LEMMA JournalStep ==
    ASSUME NEW j \in Journal
    PROVE  /\ NoJournal \in Journal
           /\ \A b \in Batch : [j EXCEPT !.batch = b] \in Journal
           /\ \A r \in File, s \in EntryState :
                /\ [j EXCEPT !.state[r] = s] \in Journal
                /\ [j EXCEPT !.added[r] = s] \in Journal
           /\ \A s, a \in [File -> EntryState] : [j EXCEPT !.state = s, !.added = a] \in Journal
<1>1. NoJournal \in Journal
  <2>1. <<>> \in Seq(Step)
    OBVIOUS
  <2> QED
    BY <2>1 DEF NoJournal, Journal, Batch, EntryState
<1> QED
  BY <1>1 DEF Journal

(* Every step leaves a journal on disk and one in memory. *)
LEMMA JournalsTyped == Typed /\ [Next]_vars => (log \in Journal /\ mem \in Journal)'
<1> SUFFICES ASSUME Typed, [Next]_vars PROVE (log \in Journal /\ mem \in Journal)'
  OBVIOUS
<1> USE DEF Typed
<1>j. log \in Journal /\ mem \in Journal
  BY DEF TypeOK
<1>m. /\ NoJournal \in Journal
      /\ \A b \in Batch : [mem EXCEPT !.batch = b] \in Journal /\ [log EXCEPT !.batch = b] \in Journal
      /\ \A f \in File, s \in EntryState :
           [mem EXCEPT !.state[f] = s] \in Journal /\ [mem EXCEPT !.added[f] = s] \in Journal
      /\ \A f \in File, n \in Nat, s \in Step :
           [mem EXCEPT !.ledger[f][n] = s] \in Journal /\ [mem EXCEPT !.ledger[f] = Append(@, s)] \in Journal
  BY <1>j, JournalStep, LedgerStep
<1>b. /\ {"metadata_writing", "metadata_verified", "partial", "completed", "retired"} \subseteq Batch
      /\ {"none", "planned", "written", "verified", "failed", "cancelled", "unresolved", "complete"}
             \subseteq EntryState
  BY DEF Batch, EntryState
<1>1. CASE BeginUndo
  <2>2. \A r \in File : Current(r) \in Path \cup {Nobody}
    BY NamesAssumption DEF Current
  <2> DEFINE sound == {r \in File : SameIdentity(r, Current(r))}
             s == [r \in File |-> IF r \in sound THEN "planned" ELSE "none"]
             k == [r \in File |-> IF r \in sound THEN Current(r) ELSE Nobody]
  <2>3. s \in [File -> EntryState] /\ k \in [File -> Path \cup {Nobody}]
    BY <2>2 DEF EntryState
  <2>4. /\ mem' = [NoJournal EXCEPT !.batch = "metadata_writing", !.state = s, !.key = k]
        /\ log' = mem'
    BY <1>1 DEF BeginUndo, Persist
  <2>5. mem' \in Journal
    <3> HIDE DEF s, k
    <3> QED
      BY <1>m, <1>b, <2>3, <2>4 DEF Journal
  <2> QED
    BY <2>4, <2>5
<1>2. ASSUME NEW r \in File, NextRecord(r) PROVE (log \in Journal /\ mem \in Journal)'
  BY <1>2, <1>j, <1>m, <1>b DEF NextRecord, vars, diskVars, workVars, pastVars, Persist, WorkEnds
<1>3. CASE Write
  BY <1>3, <1>j, <1>m, <1>b DEF Write, RestoreTags, KeysKnown
<1>4. CASE Note
  BY <1>4, <1>j, <1>m, <1>b DEF Note, vars, diskVars, workVars, pastVars, Persist, WorkEnds
<1>5. CASE EndUndo
  BY <1>5, <1>j, <1>m, <1>b DEF EndUndo, vars, diskVars, workVars, pastVars, Persist, WorkEnds
<1>6. CASE Close
  BY <1>6, <1>j, <1>m, <1>b DEF Close, vars, diskVars, workVars, pastVars, Persist, WorkEnds
<1>7. CASE Reconcile
  BY <1>7, <1>j, <1>m, <1>b DEF Reconcile, vars, diskVars, workVars, pastVars, Persist, WorkEnds
<1>8. CASE BeginRecovery
  BY <1>8, <1>j, <1>m, <1>b DEF BeginRecovery, vars, diskVars, workVars, pastVars, Persist, WorkEnds
<1>9. ASSUME NEW r \in File, Look(r) PROVE (log \in Journal /\ mem \in Journal)'
  BY <1>9, <1>j, <1>m, <1>b DEF Look, Enter, Persist
<1>10. CASE Put
  BY <1>10, <1>j, <1>m, <1>b DEF Put, RestoreTags, Entered, KeysKnown
<1>11. CASE Record
  BY <1>11, <1>j, <1>m, <1>b DEF Record, vars, diskVars, workVars, pastVars, Persist, WorkEnds
<1>12. CASE EndLook
  BY <1>12, <1>j, <1>m, <1>b DEF EndLook, Persist, Outcome, WorkEnds
<1>13. CASE PlanMoves
  <2> DEFINE place == [r \in Journalled(mem) |-> Here(mem, r)]
             back == {r \in Journalled(mem) : place[r] = Home[r]}
             free == {r \in Journalled(mem) : place[r] # Nobody /\ ~Taken(Home[r])}
             s == [r \in File |-> IF r \in back THEN "complete"
                                  ELSE IF r \in Journalled(mem) \ free THEN "unresolved"
                                  ELSE mem.state[r]]
             a == [r \in File |-> IF mem.added[r] = "none" THEN "none" ELSE "unresolved"]
  <2>1. s \in [File -> EntryState] /\ a \in [File -> EntryState]
    BY <1>j, <1>b DEF Journal
  <2>2. mem' = [mem EXCEPT !.state = s, !.added = a] /\ log' = log
    BY <1>13, <1>j DEF PlanMoves, Journal
  <2> HIDE DEF s, a
  <2>3. mem' \in Journal
    BY <2>1, <2>2, <1>j DEF Journal
  <2> QED
    BY <2>2, <2>3, <1>j
<1>14. ASSUME NEW r \in File, Intend(r) PROVE (log \in Journal /\ mem \in Journal)'
  BY <1>14, <1>j, <1>m, <1>b DEF Intend, Persist, Step
<1>14b. CASE LookBack
  <2>1. cur \in File /\ Len(mem.ledger[cur]) \in Nat
    BY <1>14b, <1>j DEF LookBack, KeysKnown, Journal
  <2> QED
    BY <1>14b, <2>1, <1>j, <1>m DEF LookBack, InLedger, Step
<1>15. CASE MoveBack
  <2>1. cur \in File /\ Len(mem.ledger[cur]) \in Nat
    BY <1>15, <1>j DEF MoveBack, KeysKnown, Journal
  <2> QED
    BY <1>15, <2>1, <1>j, <1>m DEF MoveBack, InLedger, Step
<1>16. CASE NoteMove
  BY <1>16, <1>j, <1>m, <1>b DEF NoteMove, Settled, KeysKnown
<1>17. CASE EndRecovery
  BY <1>17, <1>j, <1>m, <1>b DEF EndRecovery, Outcome, WorkEnds
<1>18. CASE Cancel
  BY <1>18, <1>j, <1>m, <1>b DEF Cancel
<1>19. CASE Stop
  BY <1>19, <1>j, <1>m, <1>b DEF Stop, vars, diskVars, workVars, pastVars, Persist, WorkEnds
<1>20. CASE Meddle
  BY <1>20, <1>j, <1>m, <1>b DEF Meddle, vars, diskVars, workVars, pastVars, Persist, WorkEnds
<1>21. CASE Rest
  BY <1>21, <1>j, <1>m, <1>b DEF Rest, vars, diskVars, workVars, pastVars, Persist, WorkEnds
<1>22. CASE UNCHANGED vars
  BY <1>22, <1>j, <1>m, <1>b DEF vars, diskVars, workVars, pastVars, Persist, WorkEnds
<1> QED
  BY <1>1, <1>2, <1>3, <1>4, <1>5, <1>6, <1>7, <1>8, <1>9, <1>10, <1>11, <1>12, <1>13, <1>14, <1>14b, <1>15, <1>16, <1>17, <1>18, <1>19, <1>20, <1>21, <1>22 DEF Next, UndoStep, RecoveryStep

(* Every step keeps the types. *)
LEMMA TypeStep == Typed /\ [Next]_vars => TypeOK'
<1> SUFFICES ASSUME Typed, [Next]_vars PROVE TypeOK'
  OBVIOUS
<1> USE DEF Typed
<1>t. {log', mem'} \subseteq Journal
  BY JournalsTyped
<1>f. \A k \in {"meddling", "stops", "faults", "recoveries"} :
        budget[k] > 0 => [budget EXCEPT ![k] = @ - 1] \in
            [meddling : 0 .. MaxMeddling, stops : 0 .. MaxStops,
             faults : 0 .. MaxFaults, recoveries : 0 .. MaxRecoveries]
  BY BoundsAssumption DEF TypeOK
<1>1. CASE BeginUndo
  BY <1>1, <1>t, <1>f DEF BeginUndo, vars, diskVars, workVars, pastVars, TypeOK, WorkEnds, Persist
<1>2. ASSUME NEW r \in File, NextRecord(r) PROVE TypeOK'
  BY <1>2, <1>t, <1>f DEF NextRecord, vars, diskVars, workVars, pastVars, TypeOK, WorkEnds, Persist
<1>3. CASE Write
  <2>1. cur \in File
    BY <1>3 DEF Write, KeysKnown
  <2>2. tags' \in [File -> {"old", "new", "theirs"}] /\ stamp' \in [File -> {"applied", "undone", "edited"}]
    BY <1>3 DEF Write, RestoreTags, TypeOK
  <2>3. since' \subseteq Path /\ misled' \subseteq File /\ lost' \subseteq {"journalled", "unjournalled"}
    BY <1>3, <2>1 DEF Write, RestoreTags, Overwritten, pastVars, TypeOK
  <2>4. budget' \in [meddling : 0 .. MaxMeddling, stops : 0 .. MaxStops,
                     faults : 0 .. MaxFaults, recoveries : 0 .. MaxRecoveries]
    BY <1>3, <1>f DEF Write, RestoreTags, Fault, TypeOK
  <2> QED
    BY <1>3, <1>t, <2>2, <2>3, <2>4 DEF Write, RestoreTags, TypeOK
<1>4. CASE Note
  BY <1>4, <1>t, <1>f DEF Note, vars, diskVars, workVars, pastVars, TypeOK, WorkEnds, Persist
<1>5. CASE EndUndo
  BY <1>5, <1>t, <1>f DEF EndUndo, vars, diskVars, workVars, pastVars, TypeOK, WorkEnds, Persist
<1>6. CASE Close
  BY <1>6, <1>t, <1>f DEF Close, vars, diskVars, workVars, pastVars, TypeOK, WorkEnds, Persist
<1>7. CASE Reconcile
  BY <1>7, <1>t, <1>f DEF Reconcile, vars, diskVars, workVars, pastVars, TypeOK, WorkEnds, Persist
<1>8. CASE BeginRecovery
  BY <1>8, <1>t, <1>f DEF BeginRecovery, vars, diskVars, workVars, pastVars, TypeOK, WorkEnds, Persist
<1>9. ASSUME NEW r \in File, Look(r) PROVE TypeOK'
  BY <1>9, <1>t, <1>f DEF Look, vars, diskVars, workVars, pastVars, TypeOK, WorkEnds, Persist
<1>10. CASE Put
  <2>1. cur \in File
    BY <1>10 DEF Put, KeysKnown
  <2>2. tags' \in [File -> {"old", "new", "theirs"}] /\ stamp' \in [File -> {"applied", "undone", "edited"}]
    BY <1>10 DEF Put, RestoreTags, TypeOK
  <2>3. since' \subseteq Path /\ misled' \subseteq File /\ lost' \subseteq {"journalled", "unjournalled"}
    <3>1. \/ UNCHANGED pastVars
          \/ \E how \in {"journalled", "unjournalled"} : Overwritten(cur, Final[cur], how)
      BY <1>10 DEF Put, RestoreTags
    <3> QED
      BY <2>1, <3>1 DEF Overwritten, pastVars, TypeOK
  <2>4. budget' \in [meddling : 0 .. MaxMeddling, stops : 0 .. MaxStops,
                     faults : 0 .. MaxFaults, recoveries : 0 .. MaxRecoveries]
    BY <1>10, <1>f DEF Put, RestoreTags, Fault, TypeOK
  <2> QED
    BY <1>10, <1>t, <2>2, <2>3, <2>4 DEF Put, RestoreTags, TypeOK
<1>11. CASE Record
  BY <1>11, <1>t, <1>f DEF Record, vars, diskVars, workVars, pastVars, TypeOK, WorkEnds, Persist
<1>12. CASE EndLook
  BY <1>12, <1>t, <1>f DEF EndLook, vars, diskVars, workVars, pastVars, TypeOK, WorkEnds, Persist
<1>13. CASE PlanMoves
  BY <1>13, <1>t DEF PlanMoves, Journalled, diskVars, pastVars, TypeOK
<1>14. ASSUME NEW r \in File, Intend(r) PROVE TypeOK'
  BY <1>14, <1>t, <1>f DEF Intend, vars, diskVars, workVars, pastVars, TypeOK, WorkEnds, Persist
<1>14b. CASE LookBack
  BY <1>14b, <1>t, <1>f DEF LookBack, diskVars, pastVars, TypeOK
<1>15. CASE MoveBack
  BY <1>15, <1>t, <1>f, NamesAssumption DEF MoveBack, Fault, pastVars, TypeOK, KeysKnown
<1>16. CASE NoteMove
  BY <1>16, <1>t, <1>f DEF NoteMove, vars, diskVars, workVars, pastVars, TypeOK, WorkEnds, Persist
<1>17. CASE EndRecovery
  BY <1>17, <1>t, <1>f DEF EndRecovery, vars, diskVars, workVars, pastVars, TypeOK, WorkEnds, Persist
<1>18. CASE Cancel
  BY <1>18, <1>t, <1>f DEF Cancel, vars, diskVars, workVars, pastVars, TypeOK, WorkEnds, Persist
<1>19. CASE Stop
  BY <1>19, <1>t, <1>f DEF Stop, vars, diskVars, workVars, pastVars, TypeOK, WorkEnds, Persist
<1>20. CASE Meddle
  <2>1. since' \subseteq Path
    BY <1>20 DEF Meddle, Touched, TypeOK
  <2> QED
    BY <1>20, <2>1, <1>t, <1>f DEF Meddle, Edit, TakeAway, GiveBack, Appear, workVars, TypeOK
<1>21. CASE Rest
  BY <1>21, <1>t, <1>f DEF Rest, vars, diskVars, workVars, pastVars, TypeOK, WorkEnds, Persist
<1>22. CASE UNCHANGED vars
  BY <1>22, <1>t, <1>f DEF vars, diskVars, workVars, pastVars, TypeOK, WorkEnds, Persist
<1> QED
  BY <1>1, <1>2, <1>3, <1>4, <1>5, <1>6, <1>7, <1>8, <1>9, <1>10, <1>11, <1>12, <1>13, <1>14, <1>14b, <1>15, <1>16, <1>17, <1>18, <1>19, <1>20, <1>21, <1>22 DEF Next, UndoStep, RecoveryStep

(* Every step keeps the records in hand known. *)
LEMMA KeysStep == Typed /\ [Next]_vars => KeysKnown'
<1> SUFFICES ASSUME Typed, [Next]_vars PROVE KeysKnown'
  OBVIOUS
<1> USE DEF Typed
<1>1. CASE BeginUndo
  BY <1>1 DEF BeginUndo, Persist, SameIdentity, KeysKnown
<1>2. ASSUME NEW r \in File, NextRecord(r) PROVE KeysKnown'
  <2>1. \E s : mem' = [mem EXCEPT !.state[r] = s] /\ log' = mem'
    BY <1>2 DEF NextRecord, Persist
  <2>2. mem'.key = mem.key /\ \A f \in File : mem'.state[f] # "none" => f = r \/ mem.state[f] # "none"
    BY <2>1 DEF TypeOK, Journal
  <2>3. mem.key[r] \in Path
    BY <1>2 DEF NextRecord, KeysKnown
  <2>4. /\ left' = left \ {r}
        /\ (pc' = "undo" /\ cur' = cur) \/ (pc' = "write" /\ cur' = r)
    BY <1>2 DEF NextRecord, Persist
  <2>5. \A f \in left : mem.key[f] \in Path
    BY <1>2 DEF NextRecord, KeysKnown
  <2>6. \A f \in File : mem'.state[f] # "none" => mem'.key[f] \in Path
    BY <2>2, <2>3 DEF KeysKnown
  <2> QED
    BY <1>2, <2>1, <2>2, <2>3, <2>4, <2>5, <2>6 DEF KeysKnown
<1>3. CASE Write
  <2>1. pc' = "note" /\ UNCHANGED <<log, cur, left>>
    BY <1>3 DEF Write
  <2>2. \E s : mem' = [mem EXCEPT !.state[cur] = s]
    BY <1>3 DEF Write, RestoreTags
  <2>3. mem'.key = mem.key /\ \A f \in File : mem'.state[f] # "none" => f = cur \/ mem.state[f] # "none"
    BY <2>2 DEF TypeOK, Journal
  <2> QED
    BY <1>3, <2>1, <2>3 DEF Write, KeysKnown
<1>4. CASE Note
  BY <1>4 DEF Note, vars, diskVars, workVars, pastVars, KeysKnown, TypeOK, WorkEnds, Persist, Journal, NoJournal
<1>5. CASE EndUndo
  BY <1>5 DEF EndUndo, vars, diskVars, workVars, pastVars, KeysKnown, TypeOK, WorkEnds, Persist, Journal, NoJournal
<1>6. CASE Close
  BY <1>6 DEF Close, vars, diskVars, workVars, pastVars, KeysKnown, TypeOK, WorkEnds, Persist, Journal, NoJournal
<1>7. CASE Reconcile
  BY <1>7 DEF Reconcile, vars, diskVars, workVars, pastVars, KeysKnown, TypeOK, WorkEnds, Persist, Journal, NoJournal
<1>8. CASE BeginRecovery
  BY <1>8 DEF BeginRecovery, vars, diskVars, workVars, pastVars, KeysKnown, TypeOK, WorkEnds, Persist, Journal, NoJournal
<1>9. ASSUME NEW r \in File, Look(r) PROVE KeysKnown'
  <2>1. \A s : LET j == Enter(r, s) IN
          \A f \in File : j.state[f] # "none" => j.key[f] \in Path
    BY <1>9, NamesAssumption DEF Enter, Keyed, KeysKnown, TypeOK, Journal
  <2>2. UNCHANGED <<mem, log>> \/ \E s : mem' = Enter(r, s) /\ log' = mem'
    BY <1>9 DEF Look, Persist
  <2>3. /\ \A f \in File : mem'.state[f] # "none" => mem'.key[f] \in Path
        /\ \A f \in File : log'.state[f] # "none" => log'.key[f] \in Path
    BY <2>1, <2>2 DEF KeysKnown
  <2>4. pc' = "look" \/ (pc' = "put" /\ cur' = r)
    BY <1>9 DEF Look, Persist
  <2> QED
    BY <1>9, <2>3, <2>4 DEF KeysKnown
<1>10. CASE Put
  <2>1. pc' = "record" /\ UNCHANGED <<log, cur, left>> /\ cur \in File
    BY <1>10 DEF Put, KeysKnown
  <2>2. \E s : Entered(cur, s)
    BY <1>10 DEF Put, RestoreTags
  <2>3. Keyed(cur) => mem.key[cur] \in Path
    BY <2>1, NamesAssumption DEF Keyed
  <2>0. \A f \in File : mem.state[f] # "none" => mem.key[f] \in Path
    BY DEF KeysKnown, TypeOK, Journal
  <2>4. mem'.key = mem.key /\ \A f \in File : mem'.state[f] # "none" => mem.key[f] \in Path
    <3>1. CASE Keyed(cur)
      BY <2>0, <2>1, <2>2, <2>3, <3>1 DEF Entered, TypeOK, Journal
    <3>2. CASE ~Keyed(cur)
      BY <2>0, <2>1, <2>2, <3>2 DEF Entered, TypeOK, Journal
    <3> QED
      BY <3>1, <3>2
  <2> QED
    BY <2>1, <2>4 DEF KeysKnown
<1>11. CASE Record
  BY <1>11 DEF Record, vars, diskVars, workVars, pastVars, KeysKnown, TypeOK, WorkEnds, Persist, Journal, NoJournal
<1>12. CASE EndLook
  <2> DEFINE j == [mem EXCEPT !.batch = Outcome(mem)]
  <2>1. j.state = mem.state /\ j.key = mem.key
    BY DEF TypeOK, Journal
  <2>2. \/ mem' = j /\ log' = j /\ pc' = "plan"
        \/ log' = j /\ WorkEnds
    BY <1>12 DEF EndLook, Persist
  <2> HIDE DEF j
  <2>3. \A f \in File : j.state[f] # "none" => j.key[f] \in Path
    BY <2>1 DEF KeysKnown
  <2>4. \A f \in File : NoJournal.state[f] = "none"
    BY DEF NoJournal
  <2>5. CASE mem' = j /\ log' = j /\ pc' = "plan"
    BY <2>3, <2>5 DEF KeysKnown
  <2>6. CASE log' = j /\ WorkEnds
    BY <2>3, <2>4, <2>6 DEF KeysKnown, WorkEnds
  <2> QED
    BY <2>2, <2>5, <2>6
<1>13. CASE PlanMoves
  <2>0. \A f \in File : mem.state[f] # "none" => mem.key[f] \in Path
    BY DEF KeysKnown, TypeOK, Journal
  <2>1. pc' = "moves" /\ log' = log /\ mem'.key = mem.key
    BY <1>13 DEF PlanMoves, TypeOK, Journal
  <2>2. left' \subseteq Journalled(mem)
    BY <1>13 DEF PlanMoves
  <2>3. \A f \in File : mem'.state[f] # "none" => mem.state[f] # "none"
    BY <1>13 DEF PlanMoves, TypeOK, Journal, Journalled
  <2>4. \A f \in left' : f \in File /\ mem.state[f] # "none"
    BY <2>2 DEF Journalled
  <2>5. /\ \A f \in left' : mem'.key[f] \in Path
        /\ \A f \in File : mem'.state[f] # "none" => mem'.key[f] \in Path
    BY <2>0, <2>1, <2>3, <2>4
  <2> QED
    BY <2>1, <2>5 DEF KeysKnown
<1>14. ASSUME NEW r \in File, Intend(r) PROVE KeysKnown'
  BY <1>14 DEF Intend, vars, diskVars, workVars, pastVars, KeysKnown, TypeOK, WorkEnds, Persist, Journal, NoJournal
<1>14b. CASE LookBack
  <2>1. mem'.key = mem.key /\ mem'.state = mem.state
    BY <1>14b DEF LookBack, InLedger, TypeOK, Journal
  <2> QED
    BY <1>14b, <2>1 DEF LookBack, KeysKnown
<1>15. CASE MoveBack
  <2>1. mem'.key = mem.key /\ mem'.state = mem.state
    BY <1>15 DEF MoveBack, InLedger, TypeOK, Journal
  <2> QED
    BY <1>15, <2>1 DEF MoveBack, KeysKnown
<1>16. CASE NoteMove
  BY <1>16 DEF NoteMove, vars, diskVars, workVars, pastVars, KeysKnown, TypeOK, WorkEnds, Persist, Journal, NoJournal
<1>17. CASE EndRecovery
  BY <1>17 DEF EndRecovery, vars, diskVars, workVars, pastVars, KeysKnown, TypeOK, WorkEnds, Persist, Journal, NoJournal
<1>18. CASE Cancel
  BY <1>18 DEF Cancel, vars, diskVars, workVars, pastVars, KeysKnown, TypeOK, WorkEnds, Persist, Journal, NoJournal
<1>19. CASE Stop
  BY <1>19 DEF Stop, vars, diskVars, workVars, pastVars, KeysKnown, TypeOK, WorkEnds, Persist, Journal, NoJournal
<1>20. CASE Meddle
  BY <1>20 DEF Meddle, vars, diskVars, workVars, pastVars, KeysKnown, TypeOK, WorkEnds, Persist, Journal, NoJournal
<1>21. CASE Rest
  BY <1>21 DEF Rest, vars, diskVars, workVars, pastVars, KeysKnown, TypeOK, WorkEnds, Persist, Journal, NoJournal
<1>22. CASE UNCHANGED vars
  BY <1>22 DEF vars, diskVars, workVars, pastVars, KeysKnown, TypeOK, WorkEnds, Persist, Journal, NoJournal
<1> QED
  BY <1>1, <1>2, <1>3, <1>4, <1>5, <1>6, <1>7, <1>8, <1>9, <1>10, <1>11, <1>12, <1>13, <1>14, <1>14b, <1>15, <1>16, <1>17, <1>18, <1>19, <1>20, <1>21, <1>22 DEF Next, UndoStep, RecoveryStep

(* What has been put back stays so, or is edited by others. *)
LEMMA KeptStep == Typed /\ [Next]_vars => \A f \in File : PutBack(f) => PutBack(f)'
<1> SUFFICES ASSUME Typed, [Next]_vars PROVE \A f \in File : PutBack(f) => PutBack(f)'
  OBVIOUS
<1>1. CASE BeginUndo
  BY <1>1 DEF BeginUndo, vars, diskVars, workVars, pastVars, PutBack, Typed, TypeOK
<1>2. ASSUME NEW r \in File, NextRecord(r) PROVE \A f \in File : PutBack(f) => PutBack(f)'
  BY <1>2 DEF NextRecord, vars, diskVars, workVars, pastVars, PutBack, Typed, TypeOK
<1>3. CASE Write
  BY <1>3 DEF Write, RestoreTags, Overwritten, pastVars, PutBack, Typed, TypeOK
<1>4. CASE Note
  BY <1>4 DEF Note, vars, diskVars, workVars, pastVars, PutBack, Typed, TypeOK
<1>5. CASE EndUndo
  BY <1>5 DEF EndUndo, vars, diskVars, workVars, pastVars, PutBack, Typed, TypeOK
<1>6. CASE Close
  BY <1>6 DEF Close, vars, diskVars, workVars, pastVars, PutBack, Typed, TypeOK
<1>7. CASE Reconcile
  BY <1>7 DEF Reconcile, vars, diskVars, workVars, pastVars, PutBack, Typed, TypeOK
<1>8. CASE BeginRecovery
  BY <1>8 DEF BeginRecovery, vars, diskVars, workVars, pastVars, PutBack, Typed, TypeOK
<1>9. ASSUME NEW r \in File, Look(r) PROVE \A f \in File : PutBack(f) => PutBack(f)'
  BY <1>9 DEF Look, vars, diskVars, workVars, pastVars, PutBack, Typed, TypeOK
<1>10. CASE Put
  BY <1>10 DEF Put, RestoreTags, Overwritten, pastVars, PutBack, Typed, TypeOK
<1>11. CASE Record
  BY <1>11 DEF Record, vars, diskVars, workVars, pastVars, PutBack, Typed, TypeOK
<1>12. CASE EndLook
  BY <1>12 DEF EndLook, vars, diskVars, workVars, pastVars, PutBack, Typed, TypeOK
<1>13. CASE PlanMoves
  BY <1>13 DEF PlanMoves, vars, diskVars, workVars, pastVars, PutBack, Typed, TypeOK
<1>14. ASSUME NEW r \in File, Intend(r) PROVE \A f \in File : PutBack(f) => PutBack(f)'
  BY <1>14 DEF Intend, vars, diskVars, workVars, pastVars, PutBack, Typed, TypeOK
<1>14b. CASE LookBack
  BY <1>14b DEF LookBack, diskVars, pastVars, PutBack, Typed, TypeOK
<1>15. CASE MoveBack
  BY <1>15 DEF MoveBack, vars, diskVars, workVars, pastVars, PutBack, Typed, TypeOK
<1>16. CASE NoteMove
  BY <1>16 DEF NoteMove, vars, diskVars, workVars, pastVars, PutBack, Typed, TypeOK
<1>17. CASE EndRecovery
  BY <1>17 DEF EndRecovery, vars, diskVars, workVars, pastVars, PutBack, Typed, TypeOK
<1>18. CASE Cancel
  BY <1>18 DEF Cancel, vars, diskVars, workVars, pastVars, PutBack, Typed, TypeOK
<1>19. CASE Stop
  BY <1>19 DEF Stop, vars, diskVars, workVars, pastVars, PutBack, Typed, TypeOK
<1>20. CASE Meddle
  BY <1>20 DEF Meddle, Edit, TakeAway, GiveBack, Appear, PutBack, Typed, TypeOK
<1>21. CASE Rest
  BY <1>21 DEF Rest, vars, diskVars, workVars, pastVars, PutBack, Typed, TypeOK
<1>22. CASE UNCHANGED vars
  BY <1>22 DEF vars, diskVars, workVars, pastVars, PutBack, Typed, TypeOK
<1> QED
  BY <1>1, <1>2, <1>3, <1>4, <1>5, <1>6, <1>7, <1>8, <1>9, <1>10, <1>11, <1>12, <1>13, <1>14, <1>14b, <1>15, <1>16, <1>17, <1>18, <1>19, <1>20, <1>21, <1>22 DEF Next, UndoStep, RecoveryStep

(* What changes, and what does not, when an entry does. *)
LEMMA Parts ==
    ASSUME NEW j \in Journal
    PROVE  /\ \A r \in File : \A s :
                LET k == [j EXCEPT !.state[r] = s]
                IN  /\ k.batch = j.batch /\ k.key = j.key
                    /\ \A f \in File : k.state[f] = IF f = r THEN s ELSE j.state[f]
           /\ \A r \in File : \A s :
                LET k == [j EXCEPT !.added[r] = s]
                IN  k.batch = j.batch /\ k.key = j.key /\ k.state = j.state
           /\ \A r \in File : \A n, s :
                LET k == [j EXCEPT !.ledger[r][n] = s]
                IN  k.batch = j.batch /\ k.key = j.key /\ k.state = j.state
           /\ \A r \in File : \A s :
                LET k == [j EXCEPT !.ledger[r] = Append(@, s)]
                IN  k.batch = j.batch /\ k.key = j.key /\ k.state = j.state
           /\ \A b :
                LET k == [j EXCEPT !.batch = b]
                IN  k.batch = b /\ k.key = j.key /\ k.state = j.state
BY DEF Journal

(* A change of one entry leaves a journal true if the entry is. *)
LEMMA Entry ==
    ASSUME Typed, NEW j \in Journal, Truthful(j), NEW k, k.batch = j.batch, j.batch \notin {"none"} \cup Closed,
           NEW r \in File, \A f \in File : f # r => k.state[f] = j.state[f],
           \A f \in File : PutBack(f) => PutBack(f)',
           k.state[r] \in Done => PutBack(r)'
    PROVE  /\ k.batch = "none" => \A f \in File : k.state[f] = "none"
           /\ \A f \in File : k.state[f] \in Done => PutBack(f)'
           /\ k.batch \in Closed =>
                \A f \in File : k.state[f] \in {"none", "cancelled"} \/ PutBack(f)'
BY DEF Truthful

(* Every step keeps the journals true to the files. *)
LEMMA TruthStep == Inv /\ [Next]_vars => JournalsTrue'
<1> SUFFICES ASSUME Inv, [Next]_vars PROVE JournalsTrue'
  OBVIOUS
<1> USE DEF Inv, Typed
<1>k. \A f \in File : PutBack(f) => PutBack(f)'
  BY KeptStep
<1>j. log \in Journal /\ mem \in Journal
  BY DEF TypeOK
<1>1. CASE BeginUndo
  BY <1>1, <1>k DEF BeginUndo, vars, diskVars, workVars, pastVars, JournalsTrue, Truthful, Done, Closed, WorkerSound, TypeOK, WorkEnds, Persist, Journal, NoJournal
<1>2. ASSUME NEW r \in File, NextRecord(r) PROVE JournalsTrue'
  <2>1. PICK s \in {"cancelled", "written"} : mem' = [mem EXCEPT !.state[r] = s] /\ log' = mem'
    BY <1>2 DEF NextRecord, Persist
  <2>2. mem.batch \notin {"none"} \cup Closed
    BY <1>2 DEF NextRecord, WorkerSound, Undoing, Closed
  <2>3. /\ mem'.batch = mem.batch /\ mem'.state[r] = s
        /\ \A f \in File : f # r => mem'.state[f] = mem.state[f]
    <3> DEFINE k == [mem EXCEPT !.state[r] = s]
    <3>1. k.batch = mem.batch /\ \A f \in File : k.state[f] = IF f = r THEN s ELSE mem.state[f]
      BY <1>j, Parts
    <3>2. mem' = k
      BY <2>1
    <3> HIDE DEF k
    <3> QED
      BY <1>2, <3>1, <3>2
  <2> QED
    BY <1>j, <1>k, <2>1, <2>2, <2>3, Entry DEF JournalsTrue, Truthful, Done
<1>3. CASE Write
  <2>1. PICK c \in File : c = cur
    BY <1>3 DEF Write, KeysKnown
  <2>2. \E s \in {"cancelled", "failed", "verified"} :
          mem' = [mem EXCEPT !.state[c] = s] /\ (s = "verified" => PutBack(c)')
    <3>1. mem.key[cur] \in Path
      BY <1>3 DEF Write, KeysKnown
    <3>2. CASE cancel
      BY <1>3, <2>1, <3>2 DEF Write
    <3>3. CASE ~cancel
      BY <1>3, <2>1, <3>1, <3>3 DEF Write, RestoreTags, HasSavedTags, Overwritten, pastVars, PutBack, TypeOK
    <3> QED
      BY <3>2, <3>3
  <2>3. mem.batch \notin {"none"} \cup Closed /\ log' = log
    BY <1>3 DEF Write, WorkerSound, Undoing, Closed
  <2>4. /\ mem'.batch = mem.batch /\ (mem'.state[c] \in Done => PutBack(c)')
        /\ \A f \in File : f # c => mem'.state[f] = mem.state[f]
    <3>1. PICK s \in {"cancelled", "failed", "verified"} :
            mem' = [mem EXCEPT !.state[c] = s] /\ (s = "verified" => PutBack(c)')
      BY <2>2
    <3>2. /\ mem'.batch = mem.batch /\ mem'.state[c] = s
          /\ \A f \in File : f # c => mem'.state[f] = mem.state[f]
      BY <1>j, <3>1, Parts
    <3> QED
      BY <3>1, <3>2 DEF Done, PutBack
  <2>5. Truthful(mem)'
    BY <1>j, <1>k, <2>3, <2>4, Entry DEF JournalsTrue, Truthful
  <2>6. Truthful(log)'
    BY <1>k, <2>3 DEF JournalsTrue, Truthful
  <2> QED
    BY <2>5, <2>6 DEF JournalsTrue
<1>4. CASE Note
  BY <1>4, <1>k DEF Note, vars, diskVars, workVars, pastVars, JournalsTrue, Truthful, Done, Closed, WorkerSound, TypeOK, WorkEnds, Persist, Journal, NoJournal
<1>5. CASE EndUndo
  BY <1>5, <1>k DEF EndUndo, vars, diskVars, workVars, pastVars, JournalsTrue, Truthful, Done, Closed, WorkerSound, TypeOK, WorkEnds, Persist, Journal, NoJournal
<1>6. CASE Close
  <2>1. log'.state = mem.state /\ log'.batch \in {"partial", "completed"} /\ mem' = NoJournal
    BY <1>6, <1>j, Parts DEF Close, WorkEnds
  <2>2. log'.batch = "completed" => ~partial
    BY <1>6, <1>j, Parts DEF Close
  <2>3. ~partial => \A f \in File : mem.state[f] \in {"none", "verified", "cancelled"}
    BY <1>6 DEF Close, WorkerSound, Undoing
  <2> QED
    BY <1>k, <2>1, <2>2, <2>3 DEF JournalsTrue, Truthful, Done, Closed, NoJournal
<1>7. CASE Reconcile
  <2>1. log'.state = log.state /\ log'.batch = "retired" /\ mem' = mem
    BY <1>7, <1>j, Parts DEF Reconcile, workVars
  <2>2. \A f \in File : log.state[f] = "none" \/ log.state[f] \in Done
    BY <1>7 DEF Reconcile, Reconcilable, Journalled, Pending, Done
  <2> QED
    BY <1>k, <2>1, <2>2 DEF JournalsTrue, Truthful, Closed
<1>8. CASE BeginRecovery
  BY <1>8, <1>k DEF BeginRecovery, vars, diskVars, workVars, pastVars, JournalsTrue, Truthful, Done, Closed, WorkerSound, TypeOK, WorkEnds, Persist, Journal, NoJournal
<1>9. ASSUME NEW r \in File, Look(r) PROVE JournalsTrue'
  <2>1. CASE UNCHANGED <<mem, log>>
    BY <1>k, <2>1 DEF JournalsTrue, Truthful
  <2>2. ASSUME NEW s, mem' = Enter(r, s), log' = mem', s \in Done => HasSavedTags(r, Final[r])
        PROVE  JournalsTrue'
    <3>1. mem.batch \notin {"none"} \cup Closed
      BY <1>9 DEF Look, WorkerSound, Recovering
    <3>2. /\ mem'.batch = mem.batch
          /\ \A f \in File : f # r => mem'.state[f] = mem.state[f]
          /\ mem'.state[r] \in {s, mem.state[r]}
      BY <1>9, <1>j, <2>2, Parts DEF Enter
    <3>3. mem'.state[r] \in Done => PutBack(r)'
      BY <1>9, <1>k, <2>2, <3>2 DEF HasSavedTags, PutBack, JournalsTrue, Truthful
    <3> QED
      BY <1>9, <1>j, <1>k, <2>2, <3>1, <3>2, <3>3, Entry DEF JournalsTrue, Truthful
  <2> QED
    BY <1>9, <2>1, <2>2 DEF Look, Persist, Done
<1>10. CASE Put
  <2>1. PICK c \in File : c = cur
    BY <1>10 DEF Put, KeysKnown
  <2>2. \E s \in {"failed", "verified"} :
          Entered(c, s) /\ (s = "verified" => PutBack(c)')
    <3>1. Final[c] \in Path
      BY NamesAssumption
    <3>3. CASE cancel
      BY <1>10, <2>1, <3>3 DEF Put
    <3>4. CASE ~cancel
      BY <1>10, <2>1, <3>1, <3>4 DEF Put, RestoreTags, HasSavedTags, Overwritten, pastVars, PutBack, TypeOK
    <3> QED
      BY <3>3, <3>4
  <2>3. mem.batch \notin {"none"} \cup Closed /\ log' = log
    BY <1>10 DEF Put, WorkerSound, Recovering
  <2>4. /\ mem'.batch = mem.batch
        /\ \A f \in File : f # c => mem'.state[f] = mem.state[f]
        /\ mem'.state[c] \in Done => PutBack(c)' \/ mem'.state[c] = mem.state[c]
    BY <1>j, <2>2, Parts DEF Entered, Done
  <2>5. mem'.state[c] \in Done => PutBack(c)'
    BY <1>k, <2>4 DEF JournalsTrue, Truthful
  <2>6. Truthful(mem)'
    BY <1>j, <1>k, <2>3, <2>4, <2>5, Entry DEF JournalsTrue, Truthful
  <2>7. Truthful(log)'
    BY <1>k, <2>3 DEF JournalsTrue, Truthful
  <2> QED
    BY <2>6, <2>7 DEF JournalsTrue
<1>11. CASE Record
  BY <1>11, <1>k DEF Record, vars, diskVars, workVars, pastVars, JournalsTrue, Truthful, Done, Closed, WorkerSound, TypeOK, WorkEnds, Persist, Journal, NoJournal
<1>12. CASE EndLook
  <2>0. /\ log' = [mem EXCEPT !.batch = Outcome(mem)]
        /\ mem' = log' \/ mem' = NoJournal
    BY <1>12 DEF EndLook, Persist, WorkEnds
  <2>1. log'.state = mem.state /\ log'.batch = Outcome(mem) /\ mem' \in {log', NoJournal}
    BY <1>j, <2>0, Parts
  <2>2. Outcome(mem) \in {"completed", "partial"}
    BY DEF Outcome
  <2>3. Outcome(mem) = "completed" => \A f \in File : mem.state[f] \in Done \cup {"none"}
    BY DEF Outcome
  <2> QED
    BY <1>k, <2>1, <2>2, <2>3 DEF JournalsTrue, Truthful, Closed, NoJournal, Done
<1>13. CASE PlanMoves
  <2>1. mem'.batch = mem.batch /\ log' = log
    BY <1>13 DEF PlanMoves, TypeOK, Journal
  <2>2. \A f \in File : mem'.state[f] # "none" => mem.state[f] # "none"
    BY <1>13 DEF PlanMoves, TypeOK, Journal, Journalled
  <2>3. mem.batch = "completed" /\ \A f \in File : mem.state[f] # "none" => PutBack(f)
    BY <1>13 DEF PlanMoves, WorkerSound, Moving
  <2> QED
    BY <1>k, <2>1, <2>2, <2>3 DEF JournalsTrue, Truthful, Done
<1>14. ASSUME NEW r \in File, Intend(r) PROVE JournalsTrue'
  BY <1>14, <1>k DEF Intend, vars, diskVars, workVars, pastVars, JournalsTrue, Truthful, Done, Closed, WorkerSound, TypeOK, WorkEnds, Persist, Journal, NoJournal
<1>14b. CASE LookBack
  <2>1. mem'.batch = mem.batch /\ mem'.state = mem.state /\ log' = log
    BY <1>14b DEF LookBack, InLedger, TypeOK, Journal
  <2> QED
    BY <1>k, <2>1 DEF JournalsTrue, Truthful
<1>15. CASE MoveBack
  <2>1. mem'.batch = mem.batch /\ mem'.state = mem.state /\ log' = log
    BY <1>15 DEF MoveBack, InLedger, TypeOK, Journal
  <2> QED
    BY <1>k, <2>1 DEF JournalsTrue, Truthful
<1>16. CASE NoteMove
  <2>1. mem'.batch = mem.batch /\ log' = mem /\ cur \in File
    BY <1>16, <1>j, Parts DEF NoteMove, KeysKnown
  <2>2. \A f \in File : mem'.state[f] # "none" => mem.state[f] # "none"
    BY <1>16, <1>j, <2>1, Parts DEF NoteMove, WorkerSound
  <2>3. mem.batch = "completed" /\ \A f \in File : mem.state[f] # "none" => PutBack(f)
    BY <1>16 DEF NoteMove, WorkerSound, Moving
  <2> QED
    BY <1>k, <2>1, <2>2, <2>3 DEF JournalsTrue, Truthful, Done
<1>17. CASE EndRecovery
  <2>1. log'.state = mem.state /\ log'.batch \in {"retired", "partial"} /\ mem' = NoJournal
    BY <1>17, <1>j, Parts DEF EndRecovery, WorkEnds
  <2>2. \A f \in File : mem.state[f] # "none" => PutBack(f)
    BY <1>17 DEF EndRecovery, WorkerSound, Moving
  <2> QED
    BY <1>k, <2>1, <2>2 DEF JournalsTrue, Truthful, Done, Closed, NoJournal
<1>18. CASE Cancel
  BY <1>18, <1>k DEF Cancel, vars, diskVars, workVars, pastVars, JournalsTrue, Truthful, Done, Closed, WorkerSound, TypeOK, WorkEnds, Persist, Journal, NoJournal
<1>19. CASE Stop
  BY <1>19, <1>k DEF Stop, vars, diskVars, workVars, pastVars, JournalsTrue, Truthful, Done, Closed, WorkerSound, TypeOK, WorkEnds, Persist, Journal, NoJournal
<1>20. CASE Meddle
  BY <1>20, <1>k DEF Meddle, vars, diskVars, workVars, pastVars, JournalsTrue, Truthful, Done, Closed, WorkerSound, TypeOK, WorkEnds, Persist, Journal, NoJournal
<1>21. CASE Rest
  BY <1>21, <1>k DEF Rest, vars, diskVars, workVars, pastVars, JournalsTrue, Truthful, Done, Closed, WorkerSound, TypeOK, WorkEnds, Persist, Journal, NoJournal
<1>22. CASE UNCHANGED vars
  BY <1>22, <1>k DEF vars, diskVars, workVars, pastVars, JournalsTrue, Truthful, Done, Closed, WorkerSound, TypeOK, WorkEnds, Persist, Journal, NoJournal
<1> QED
  BY <1>1, <1>2, <1>3, <1>4, <1>5, <1>6, <1>7, <1>8, <1>9, <1>10, <1>11, <1>12, <1>13, <1>14, <1>14b, <1>15, <1>16, <1>17, <1>18, <1>19, <1>20, <1>21, <1>22 DEF Next, UndoStep, RecoveryStep

(* Every step keeps what the worker's place says of its journal. *)
LEMMA WorkerStep == Inv /\ [Next]_vars => WorkerSound'
<1> SUFFICES ASSUME Inv, [Next]_vars PROVE WorkerSound'
  OBVIOUS
<1> USE DEF Inv, Typed
<1>k. \A f \in File : PutBack(f) => PutBack(f)'
  BY KeptStep
<1>j. log \in Journal /\ mem \in Journal
  BY DEF TypeOK
<1>1. CASE BeginUndo
  BY <1>1, <1>k DEF BeginUndo, vars, diskVars, workVars, pastVars, WorkerSound, Undoing, Recovering, Moving, Closed, TypeOK, WorkEnds, Persist, Journal, NoJournal
<1>2. ASSUME NEW r \in File, NextRecord(r) PROVE WorkerSound'
  BY <1>2, <1>k DEF NextRecord, vars, diskVars, workVars, pastVars, WorkerSound, Undoing, Recovering, Moving, Closed, TypeOK, WorkEnds, Persist, Journal, NoJournal
<1>3. CASE Write
  <2>1. PICK c \in File : c = cur
    BY <1>3 DEF Write, KeysKnown
  <2>2. \/ mem' = [mem EXCEPT !.state[c] = "cancelled"]
        \/ mem' = [mem EXCEPT !.state[c] = "verified"]
        \/ mem' = [mem EXCEPT !.state[c] = "failed"] /\ partial'
    BY <1>3, <2>1 DEF Write, RestoreTags
  <2>3. /\ mem'.batch = mem.batch
        /\ mem'.state[c] \in {"cancelled", "verified"} \/ partial'
        /\ \A f \in File : f # c => mem'.state[f] = mem.state[f]
    <3>1. PICK s : mem' = [mem EXCEPT !.state[c] = s] /\ (s \in {"cancelled", "verified"} \/ partial')
      BY <2>2
    <3>2. /\ mem'.batch = mem.batch /\ mem'.state[c] = s
          /\ \A f \in File : f # c => mem'.state[f] = mem.state[f]
      BY <1>j, <3>1, Parts
    <3> QED
      BY <3>1, <3>2
  <2>4. pc = "write" /\ pc' = "note" /\ left' = left /\ (partial => partial')
    BY <1>3 DEF Write, RestoreTags
  <2> QED
    BY <2>1, <2>3, <2>4 DEF WorkerSound, Undoing, Recovering, Moving, Closed
<1>4. CASE Note
  BY <1>4, <1>k DEF Note, vars, diskVars, workVars, pastVars, WorkerSound, Undoing, Recovering, Moving, Closed, TypeOK, WorkEnds, Persist, Journal, NoJournal
<1>5. CASE EndUndo
  BY <1>5, <1>k DEF EndUndo, vars, diskVars, workVars, pastVars, WorkerSound, Undoing, Recovering, Moving, Closed, TypeOK, WorkEnds, Persist, Journal, NoJournal
<1>6. CASE Close
  BY <1>6, <1>k DEF Close, vars, diskVars, workVars, pastVars, WorkerSound, Undoing, Recovering, Moving, Closed, TypeOK, WorkEnds, Persist, Journal, NoJournal
<1>7. CASE Reconcile
  BY <1>7, <1>k DEF Reconcile, vars, diskVars, workVars, pastVars, WorkerSound, Undoing, Recovering, Moving, Closed, TypeOK, WorkEnds, Persist, Journal, NoJournal
<1>8. CASE BeginRecovery
  <2>1. mem' = log /\ pc' = "look" /\ log.batch \notin {"none", "completed", "retired"}
    BY <1>8 DEF BeginRecovery, Offered
  <2> QED
    BY <2>1 DEF WorkerSound, Undoing, Recovering, Moving, Closed
<1>9. ASSUME NEW r \in File, Look(r) PROVE WorkerSound'
  <2>1. mem'.batch = mem.batch
    <3>1. mem' = mem \/ \E s : mem' = Enter(r, s)
      BY <1>9 DEF Look, Persist
    <3>2. ASSUME NEW s, mem' = Enter(r, s) PROVE mem'.batch = mem.batch
      BY <1>j, <3>2, Parts DEF Enter
    <3> QED
      BY <3>1, <3>2
  <2>2. pc = "look" /\ (pc' = "look" \/ (pc' = "put" /\ cur' = r)) /\ left' = left \ {r}
    BY <1>9 DEF Look, Persist
  <2> QED
    BY <2>1, <2>2 DEF WorkerSound, Undoing, Recovering, Moving, Closed
<1>10. CASE Put
  <2>1. PICK c \in File : c = cur
    BY <1>10 DEF Put, KeysKnown
  <2>2. \E s : Entered(c, s)
    BY <1>10, <2>1 DEF Put, RestoreTags
  <2>3. mem'.batch = mem.batch
    BY <1>j, <2>2, Parts DEF Entered
  <2>4. pc = "put" /\ pc' = "record"
    BY <1>10 DEF Put
  <2> QED
    BY <2>3, <2>4 DEF WorkerSound, Undoing, Recovering, Moving, Closed
<1>11. CASE Record
  BY <1>11, <1>k DEF Record, vars, diskVars, workVars, pastVars, WorkerSound, Undoing, Recovering, Moving, Closed, TypeOK, WorkEnds, Persist, Journal, NoJournal
<1>12. CASE EndLook
  <2>1. CASE pc' = "plan" /\ Outcome(mem) = "completed" /\ mem' = [mem EXCEPT !.batch = Outcome(mem)]
    <3>1. mem'.batch = "completed" /\ mem'.state = mem.state
      BY <1>j, <2>1, Parts
    <3>2. \A f \in File : mem.state[f] \in Done \cup {"none"}
      BY <2>1 DEF Outcome
    <3>3. \A f \in File : mem.state[f] # "none" => PutBack(f)'
      BY <1>k, <3>2 DEF JournalsTrue, Truthful
    <3> QED
      BY <2>1, <3>1, <3>3 DEF WorkerSound, Undoing, Recovering, Moving, Closed
  <2>2. CASE WorkEnds
    BY <2>2 DEF WorkEnds, WorkerSound, Undoing, Recovering, Moving, Closed
  <2> QED
    BY <1>12, <1>j, <2>1, <2>2, Parts DEF EndLook, Persist
<1>13. CASE PlanMoves
  <2>1. mem'.batch = mem.batch /\ pc = "plan" /\ pc' = "moves"
    BY <1>13 DEF PlanMoves, TypeOK, Journal
  <2>2. \A f \in File : mem'.state[f] # "none" <=> mem.state[f] # "none"
    BY <1>13 DEF PlanMoves, TypeOK, Journal, Journalled
  <2>3. \A f \in left' : f \in File /\ mem.state[f] # "none"
    BY <1>13 DEF PlanMoves, Journalled
  <2> QED
    BY <1>k, <2>1, <2>2, <2>3 DEF WorkerSound, Undoing, Recovering, Moving, Closed
<1>14. ASSUME NEW r \in File, Intend(r) PROVE WorkerSound'
  BY <1>14, <1>k DEF Intend, vars, diskVars, workVars, pastVars, WorkerSound, Undoing, Recovering, Moving, Closed, TypeOK, WorkEnds, Persist, Journal, NoJournal
<1>14b. CASE LookBack
  <2>1. mem'.batch = mem.batch /\ mem'.state = mem.state /\ cur' = cur /\ left' = left
    BY <1>14b DEF LookBack, InLedger, TypeOK, Journal
  <2>2. pc = "move" /\ pc' \in {"replace", "moved"}
    BY <1>14b DEF LookBack
  <2> QED
    BY <1>k, <2>1, <2>2 DEF WorkerSound, Undoing, Recovering, Moving, Closed
<1>15. CASE MoveBack
  <2>1. mem'.batch = mem.batch /\ mem'.state = mem.state /\ cur' = cur /\ left' = left
    BY <1>15 DEF MoveBack, InLedger, TypeOK, Journal
  <2>2. pc = "replace" /\ pc' = "moved"
    BY <1>15 DEF MoveBack
  <2> QED
    BY <1>k, <2>1, <2>2 DEF WorkerSound, Undoing, Recovering, Moving, Closed
<1>16. CASE NoteMove
  <2>1. mem'.batch = mem.batch /\ cur \in File /\ left' = left /\ pc = "moved" /\ pc' = "moves"
    BY <1>16, <1>j, Parts DEF NoteMove, KeysKnown
  <2>2. \A f \in File : mem'.state[f] # "none" <=> mem.state[f] # "none"
    BY <1>16, <1>j, <2>1, Parts DEF NoteMove, Settled, WorkerSound
  <2>3. left \subseteq File
    BY DEF TypeOK
  <2> QED
    BY <1>k, <2>1, <2>2, <2>3 DEF WorkerSound, Undoing, Recovering, Moving, Closed
<1>17. CASE EndRecovery
  BY <1>17, <1>k DEF EndRecovery, vars, diskVars, workVars, pastVars, WorkerSound, Undoing, Recovering, Moving, Closed, TypeOK, WorkEnds, Persist, Journal, NoJournal
<1>18. CASE Cancel
  BY <1>18, <1>k DEF Cancel, vars, diskVars, workVars, pastVars, WorkerSound, Undoing, Recovering, Moving, Closed, TypeOK, WorkEnds, Persist, Journal, NoJournal
<1>19. CASE Stop
  BY <1>19, <1>k DEF Stop, vars, diskVars, workVars, pastVars, WorkerSound, Undoing, Recovering, Moving, Closed, TypeOK, WorkEnds, Persist, Journal, NoJournal
<1>20. CASE Meddle
  BY <1>20, <1>k DEF Meddle, vars, diskVars, workVars, pastVars, WorkerSound, Undoing, Recovering, Moving, Closed, TypeOK, WorkEnds, Persist, Journal, NoJournal
<1>21. CASE Rest
  BY <1>21, <1>k DEF Rest, vars, diskVars, workVars, pastVars, WorkerSound, Undoing, Recovering, Moving, Closed, TypeOK, WorkEnds, Persist, Journal, NoJournal
<1>22. CASE UNCHANGED vars
  BY <1>22, <1>k DEF vars, diskVars, workVars, pastVars, WorkerSound, Undoing, Recovering, Moving, Closed, TypeOK, WorkEnds, Persist, Journal, NoJournal
<1> QED
  BY <1>1, <1>2, <1>3, <1>4, <1>5, <1>6, <1>7, <1>8, <1>9, <1>10, <1>11, <1>12, <1>13, <1>14, <1>14b, <1>15, <1>16, <1>17, <1>18, <1>19, <1>20, <1>21, <1>22 DEF Next, UndoStep, RecoveryStep

(* Every step keeps what is to be written over what it was taken for. *)
LEMMA AimStep == Inv /\ [Next]_vars => Aimed'
<1> SUFFICES ASSUME Inv, [Next]_vars PROVE Aimed'
  OBVIOUS
<1> USE DEF Inv, Typed
<1>k. \A f \in File : PutBack(f) => PutBack(f)'
  BY KeptStep
<1>j. log \in Journal /\ mem \in Journal
  BY DEF TypeOK
<1>1. CASE BeginUndo
  BY <1>1 DEF BeginUndo, vars, diskVars, workVars, pastVars, Aimed, Trusted, SameIdentity, Taken, Keyed, TypeOK, WorkEnds, Persist, Journal, NoJournal
<1>2. ASSUME NEW r \in File, NextRecord(r) PROVE Aimed'
  <2>1. \E s : mem' = [mem EXCEPT !.state[r] = s]
    BY <1>2 DEF NextRecord, Persist
  <2>2. mem'.key = mem.key
    BY <1>j, <2>1, Parts
  <2>3. /\ pc = "undo" /\ r \in left /\ left' = left \ {r} /\ UNCHANGED <<diskVars, since>>
        /\ pc' = "undo" \/ (pc' = "write" /\ cur' = r)
    BY <1>2 DEF NextRecord, Persist, pastVars
  <2>4. \A f \in left : Trusted(f, mem.key[f])
    BY <2>3 DEF Aimed
  <2>5. \A f \in left : Trusted(f, mem.key[f])'
    BY <2>2, <2>3, <2>4 DEF Trusted, SameIdentity, diskVars
  <2> QED
    BY <2>3, <2>5 DEF Aimed
<1>3. CASE Write
  <2>1. PICK c \in File : c = cur
    BY <1>3 DEF Write, KeysKnown
  <2>2. \E s : mem' = [mem EXCEPT !.state[c] = s]
    BY <1>3, <2>1 DEF Write, RestoreTags
  <2>3. mem'.key = mem.key
    BY <1>j, <2>2, Parts
  <2>4. /\ pc = "write" /\ pc' = "note" /\ c \notin left /\ mem.key[c] \in Path
        /\ UNCHANGED <<at, left, since>>
    BY <1>3, <2>1 DEF Write, RestoreTags, Overwritten, pastVars, WorkerSound, KeysKnown
  <2>5. \A f \in File : f # at[mem.key[c]] => stamp'[f] = stamp[f]
    BY <1>3, <2>1, <2>4 DEF Write, RestoreTags, TypeOK
  <2>6. left \subseteq File
    BY DEF TypeOK
  <2>7. ASSUME NEW f \in left PROVE Trusted(f, mem.key[f])'
    <3>1. Trusted(f, mem.key[f]) /\ Trusted(c, mem.key[c])
      BY <2>1, <2>4 DEF Aimed
    <3>2. CASE mem.key[f] \in since
      BY <2>3, <2>4, <3>2 DEF Trusted
    <3>3. CASE SameIdentity(f, mem.key[f]) /\ at[mem.key[c]] # f
      BY <2>3, <2>4, <2>5, <2>6, <3>3 DEF Trusted, SameIdentity
    <3>4. CASE SameIdentity(f, mem.key[f]) /\ at[mem.key[c]] = f
      <4>1. mem.key[c] = mem.key[f]
        BY <2>4, <2>6, <3>4 DEF Single, SameIdentity
      <4>2. mem.key[c] \in since
        BY <2>4, <3>1, <3>4 DEF Trusted, SameIdentity
      <4> QED
        BY <2>3, <2>4, <4>1, <4>2 DEF Trusted
    <3> QED
      BY <3>1, <3>2, <3>3, <3>4 DEF Trusted
  <2> QED
    BY <2>4, <2>7 DEF Aimed
<1>4. CASE Note
  BY <1>4 DEF Note, vars, diskVars, workVars, pastVars, Aimed, Trusted, SameIdentity, Taken, Keyed, TypeOK, WorkEnds, Persist, Journal, NoJournal
<1>5. CASE EndUndo
  BY <1>5 DEF EndUndo, vars, diskVars, workVars, pastVars, Aimed, Trusted, SameIdentity, Taken, Keyed, TypeOK, WorkEnds, Persist, Journal, NoJournal
<1>6. CASE Close
  BY <1>6 DEF Close, vars, diskVars, workVars, pastVars, Aimed, Trusted, SameIdentity, Taken, Keyed, TypeOK, WorkEnds, Persist, Journal, NoJournal
<1>7. CASE Reconcile
  BY <1>7 DEF Reconcile, vars, diskVars, workVars, pastVars, Aimed, Trusted, SameIdentity, Taken, Keyed, TypeOK, WorkEnds, Persist, Journal, NoJournal
<1>8. CASE BeginRecovery
  BY <1>8 DEF BeginRecovery, vars, diskVars, workVars, pastVars, Aimed, Trusted, SameIdentity, Taken, Keyed, TypeOK, WorkEnds, Persist, Journal, NoJournal
<1>9. ASSUME NEW r \in File, Look(r) PROVE Aimed'
  <2>1. mem'.key = mem.key
    <3>1. mem' = mem \/ \E s : mem' = Enter(r, s)
      BY <1>9 DEF Look, Persist
    <3>2. ASSUME NEW s, mem' = Enter(r, s) PROVE mem'.key = mem.key
      BY <1>j, <3>2, Parts DEF Enter
    <3> QED
      BY <3>1, <3>2
  <2>2. pc' = "look" \/ (pc' = "put" /\ cur' = r /\ (Keyed(r) /\ Taken(Final[r]) => SameIdentity(r, Final[r])))
    BY <1>9 DEF Look, Persist
  <2>3. UNCHANGED diskVars
    BY <1>9 DEF Look
  <2> QED
    BY <2>1, <2>2, <2>3 DEF Aimed, Trusted, SameIdentity, Keyed, Taken, diskVars
<1>10. CASE Put
  BY <1>10 DEF Put, vars, diskVars, workVars, pastVars, Aimed, Trusted, SameIdentity, Taken, Keyed, TypeOK, WorkEnds, Persist, Journal, NoJournal
<1>11. CASE Record
  BY <1>11 DEF Record, vars, diskVars, workVars, pastVars, Aimed, Trusted, SameIdentity, Taken, Keyed, TypeOK, WorkEnds, Persist, Journal, NoJournal
<1>12. CASE EndLook
  BY <1>12 DEF EndLook, vars, diskVars, workVars, pastVars, Aimed, Trusted, SameIdentity, Taken, Keyed, TypeOK, WorkEnds, Persist, Journal, NoJournal
<1>13. CASE PlanMoves
  BY <1>13 DEF PlanMoves, vars, diskVars, workVars, pastVars, Aimed, Trusted, SameIdentity, Taken, Keyed, TypeOK, WorkEnds, Persist, Journal, NoJournal
<1>14. ASSUME NEW r \in File, Intend(r) PROVE Aimed'
  BY <1>14 DEF Intend, vars, diskVars, workVars, pastVars, Aimed, Trusted, SameIdentity, Taken, Keyed, TypeOK, WorkEnds, Persist, Journal, NoJournal
<1>14b. CASE LookBack
  BY <1>14b DEF LookBack, Aimed
<1>15. CASE MoveBack
  BY <1>15 DEF MoveBack, vars, diskVars, workVars, pastVars, Aimed, Trusted, SameIdentity, Taken, Keyed, TypeOK, WorkEnds, Persist, Journal, NoJournal
<1>16. CASE NoteMove
  BY <1>16 DEF NoteMove, vars, diskVars, workVars, pastVars, Aimed, Trusted, SameIdentity, Taken, Keyed, TypeOK, WorkEnds, Persist, Journal, NoJournal
<1>17. CASE EndRecovery
  BY <1>17 DEF EndRecovery, vars, diskVars, workVars, pastVars, Aimed, Trusted, SameIdentity, Taken, Keyed, TypeOK, WorkEnds, Persist, Journal, NoJournal
<1>18. CASE Cancel
  BY <1>18 DEF Cancel, vars, diskVars, workVars, pastVars, Aimed, Trusted, SameIdentity, Taken, Keyed, TypeOK, WorkEnds, Persist, Journal, NoJournal
<1>19. CASE Stop
  BY <1>19 DEF Stop, vars, diskVars, workVars, pastVars, Aimed, Trusted, SameIdentity, Taken, Keyed, TypeOK, WorkEnds, Persist, Journal, NoJournal
<1>20. CASE Meddle
  <2>1. UNCHANGED <<pc, mem, cur, left>>
    BY <1>20 DEF Meddle, workVars
  <2>2. pc \in {"undo", "write", "note", "put"} => since' = since \cup Touched
    BY <1>20 DEF Meddle
  <2>3. ASSUME NEW f \in File, NEW p, Trusted(f, p), pc \in {"undo", "write", "note", "put"}
        PROVE  Trusted(f, p)'
    BY <2>2, <2>3 DEF Trusted, SameIdentity, Touched
  <2>4. ASSUME NEW p \in Path, Taken(p)', ~Taken(p), pc \in {"undo", "write", "note", "put"}
        PROVE  p \in since'
    BY <2>2, <2>4 DEF Taken, Touched
  <2>5. left \subseteq File /\ (pc \in {"write", "put"} => cur \in File)
    BY DEF TypeOK, KeysKnown
  <2>6. pc \in {"undo", "write", "note"} => \A f \in left : Trusted(f, mem.key[f])'
    BY <2>1, <2>3, <2>5 DEF Aimed
  <2>7. pc = "write" => Trusted(cur, mem.key[cur])'
    BY <2>1, <2>3, <2>5 DEF Aimed
  <2>8. ASSUME pc = "put", Keyed(cur)', Taken(Final[cur])' PROVE Trusted(cur, Final[cur])'
    <3>1. cur' = cur /\ cur \in File /\ Keyed(cur) /\ Final[cur] \in Path
      BY <2>1, <2>5, <2>8, NamesAssumption DEF Keyed
    <3>2. CASE Taken(Final[cur])
      BY <2>3, <2>8, <3>1, <3>2 DEF Aimed
    <3>3. CASE ~Taken(Final[cur])
      BY <2>4, <2>8, <3>1, <3>3 DEF Trusted
    <3> QED
      BY <3>2, <3>3
  <2> QED
    BY <2>1, <2>6, <2>7, <2>8 DEF Aimed
<1>21. CASE Rest
  BY <1>21 DEF Rest, vars, diskVars, workVars, pastVars, Aimed, Trusted, SameIdentity, Taken, Keyed, TypeOK, WorkEnds, Persist, Journal, NoJournal
<1>22. CASE UNCHANGED vars
  BY <1>22 DEF vars, diskVars, workVars, pastVars, Aimed, Trusted, SameIdentity, Taken, Keyed, TypeOK, WorkEnds, Persist, Journal, NoJournal
<1> QED
  BY <1>1, <1>2, <1>3, <1>4, <1>5, <1>6, <1>7, <1>8, <1>9, <1>10, <1>11, <1>12, <1>13, <1>14, <1>14b, <1>15, <1>16, <1>17, <1>18, <1>19, <1>20, <1>21, <1>22 DEF Next, UndoStep, RecoveryStep

(* Every step leaves a file under one name. *)
LEMMA SingleStep == Inv /\ [Next]_vars => Single'
<1> SUFFICES ASSUME Inv, [Next]_vars PROVE Single'
  OBVIOUS
<1>t. at \in [Path -> File \cup {Nobody, Stranger}]
  BY DEF Inv, Typed, TypeOK
<1>1. CASE UNCHANGED at
  BY <1>1 DEF Inv, Single
<1>2. ASSUME NEW p \in Path, NEW q \in Path, at' = [at EXCEPT ![p] = Nobody, ![q] = at[p]]
      PROVE  Single'
  BY <1>2, <1>t, NobodyAssumption DEF Inv, Single
<1>3. ASSUME NEW p \in Path, NEW x \in {Nobody, Stranger}, at' = [at EXCEPT ![p] = x]
      PROVE  Single'
  BY <1>3, <1>t, NobodyAssumption DEF Inv, Single
<1>4. CASE MoveBack
  <2>1. cur \in File /\ mem.key[cur] \in Path /\ Home[cur] \in Path
    BY <1>4, NamesAssumption DEF MoveBack, Inv, Typed, KeysKnown
  <2> QED
    BY <1>1, <1>2, <1>4, <2>1 DEF MoveBack
<1>5. CASE Meddle
  <2>1. \A f \in File : Final[f] \in Path /\ Home[f] \in Path
    BY NamesAssumption
  <2>2. ASSUME NEW f \in File, Edit(f) \/ TakeAway(f) \/ GiveBack(f) PROVE Single'
    <3>1. CASE Edit(f)
      BY <1>1, <3>1 DEF Edit
    <3>2. CASE TakeAway(f)
      BY <1>3, <2>1, <3>2 DEF TakeAway
    <3>3. CASE GiveBack(f)
      <4>1. at' = [at EXCEPT ![Final[f]] = Nobody, ![Home[f]] = at[Final[f]]]
        BY <3>3 DEF GiveBack
      <4> QED
        BY <1>2, <2>1, <4>1
    <3> QED
      BY <2>2, <3>1, <3>2, <3>3
  <2>3. ASSUME NEW p \in Path, Appear(p) PROVE Single'
    BY <1>3, <2>3 DEF Appear
  <2> QED
    BY <1>5, <2>2, <2>3 DEF Meddle
<1>6. CASE [UndoStep \/ Cancel \/ Stop \/ Rest]_vars
  BY <1>1, <1>6 DEF UndoStep, BeginUndo, Write, Note, EndUndo, Close, NextRecord, Cancel, Stop, Rest, vars, diskVars
<1>7. CASE RecoveryStep /\ ~MoveBack
  BY <1>1, <1>7 DEF RecoveryStep, Reconcile, BeginRecovery, Put, Record, EndLook, PlanMoves, LookBack,
                    NoteMove, EndRecovery, Look, Intend, diskVars
<1> QED
  BY <1>4, <1>5, <1>6, <1>7 DEF Next, RecoveryStep

(* No step overwrites a file of the journal that is not its own. *)
LEMMA LostStep == Inv /\ [Next]_vars => JournalledKept'
<1> SUFFICES ASSUME Inv, [Next]_vars PROVE JournalledKept'
  OBVIOUS
<1> USE DEF Inv, Typed
<1>1. CASE BeginUndo
  BY <1>1 DEF BeginUndo, vars, diskVars, workVars, pastVars, JournalledKept
<1>2. ASSUME NEW r \in File, NextRecord(r) PROVE JournalledKept'
  BY <1>2 DEF NextRecord, vars, diskVars, workVars, pastVars, JournalledKept
<1>3. CASE Write
  BY <1>3 DEF Write, RestoreTags, Overwritten, pastVars, JournalledKept, Aimed, Trusted
<1>4. CASE Note
  BY <1>4 DEF Note, vars, diskVars, workVars, pastVars, JournalledKept
<1>5. CASE EndUndo
  BY <1>5 DEF EndUndo, vars, diskVars, workVars, pastVars, JournalledKept
<1>6. CASE Close
  BY <1>6 DEF Close, vars, diskVars, workVars, pastVars, JournalledKept
<1>7. CASE Reconcile
  BY <1>7 DEF Reconcile, vars, diskVars, workVars, pastVars, JournalledKept
<1>8. CASE BeginRecovery
  BY <1>8 DEF BeginRecovery, vars, diskVars, workVars, pastVars, JournalledKept
<1>9. ASSUME NEW r \in File, Look(r) PROVE JournalledKept'
  BY <1>9 DEF Look, vars, diskVars, workVars, pastVars, JournalledKept
<1>10. CASE Put
  BY <1>10 DEF Put, RestoreTags, Overwritten, pastVars, JournalledKept, Aimed, Trusted
<1>11. CASE Record
  BY <1>11 DEF Record, vars, diskVars, workVars, pastVars, JournalledKept
<1>12. CASE EndLook
  BY <1>12 DEF EndLook, vars, diskVars, workVars, pastVars, JournalledKept
<1>13. CASE PlanMoves
  BY <1>13 DEF PlanMoves, vars, diskVars, workVars, pastVars, JournalledKept
<1>14. ASSUME NEW r \in File, Intend(r) PROVE JournalledKept'
  BY <1>14 DEF Intend, vars, diskVars, workVars, pastVars, JournalledKept
<1>14b. CASE LookBack
  BY <1>14b DEF LookBack, pastVars, JournalledKept
<1>15. CASE MoveBack
  BY <1>15 DEF MoveBack, vars, diskVars, workVars, pastVars, JournalledKept
<1>16. CASE NoteMove
  BY <1>16 DEF NoteMove, vars, diskVars, workVars, pastVars, JournalledKept
<1>17. CASE EndRecovery
  BY <1>17 DEF EndRecovery, vars, diskVars, workVars, pastVars, JournalledKept
<1>18. CASE Cancel
  BY <1>18 DEF Cancel, vars, diskVars, workVars, pastVars, JournalledKept
<1>19. CASE Stop
  BY <1>19 DEF Stop, vars, diskVars, workVars, pastVars, JournalledKept
<1>20. CASE Meddle
  BY <1>20 DEF Meddle, vars, diskVars, workVars, pastVars, JournalledKept
<1>21. CASE Rest
  BY <1>21 DEF Rest, vars, diskVars, workVars, pastVars, JournalledKept
<1>22. CASE UNCHANGED vars
  BY <1>22 DEF vars, diskVars, workVars, pastVars, JournalledKept
<1> QED
  BY <1>1, <1>2, <1>3, <1>4, <1>5, <1>6, <1>7, <1>8, <1>9, <1>10, <1>11, <1>12, <1>13, <1>14, <1>14b, <1>15, <1>16, <1>17, <1>18, <1>19, <1>20, <1>21, <1>22 DEF Next, UndoStep, RecoveryStep

----------------------------------------------------------------------------
(* The theorems                                                            *)

(* The batch begins applied, sealed and untouched. *)
LEMMA InitTyped == Init => Typed
<1> SUFFICES ASSUME Init PROVE Typed
  OBVIOUS
<1>1. at \in [Path -> File \cup {Nobody, Stranger}]
  <2>1. \A x \in Path : (\E f \in File : Final[f] = x) =>
                            (CHOOSE f \in File : Final[f] = x) \in File
    OBVIOUS
  <2> QED
    BY <2>1 DEF Init
<1>2. log \in Journal /\ mem \in Journal
  <2>1. <<>> \in Seq(Step)
    OBVIOUS
  <2> QED
    BY <2>1 DEF Init, NoWork, NoJournal, Journal, Batch, EntryState
<1>3. \A b \in Nat : b \in 0 .. b
  OBVIOUS
<1>4. budget \in [meddling : 0 .. MaxMeddling, stops : 0 .. MaxStops,
                  faults : 0 .. MaxFaults, recoveries : 0 .. MaxRecoveries]
  BY <1>3, BoundsAssumption DEF Init
<1> QED
  BY <1>1, <1>2, <1>4 DEF Init, NoWork, NoJournal, Typed, TypeOK, KeysKnown

(* Types and keys are kept whatever others do. *)
LEMMA TypedStep == Typed /\ [Next]_vars => Typed'
  BY TypeStep, KeysStep DEF Typed

(* Types and keys hold always. *)
LEMMA SpecTyped == Spec => []Typed
  BY InitTyped, TypedStep, PTL DEF Spec

(* Nothing has been journalled, aimed at or lost in the beginning. *)
LEMMA InitInv == Init => Inv
<1> SUFFICES ASSUME Init PROVE Inv
  OBVIOUS
<1>1. JournalsTrue
  BY DEF Init, NoWork, NoJournal, JournalsTrue, Truthful, Done, Closed
<1>2. WorkerSound /\ Aimed
  BY DEF Init, WorkerSound, Aimed, Undoing, Recovering, Moving
<1>3. Single
  <2>1. ASSUME NEW p \in Path, at[p] \in File PROVE Final[at[p]] = p
    <3>1. CASE \E f \in File : Final[f] = p
      BY <3>1 DEF Init
    <3>2. CASE ~\E f \in File : Final[f] = p
      BY <2>1, <3>2, NobodyAssumption DEF Init
    <3> QED
      BY <3>1, <3>2
  <2> QED
    BY <2>1 DEF Single
<1> QED
  BY <1>1, <1>2, <1>3, InitTyped DEF Init, Inv, JournalledKept

(* The invariant is inductive. *)
LEMMA InvStep == Inv /\ [Next]_vars => Inv'
<1> SUFFICES ASSUME Inv, [Next]_vars PROVE Inv'
  OBVIOUS
<1>1. Typed'
  BY TypedStep DEF Inv
<1> QED
  BY <1>1, TruthStep, WorkerStep, SingleStep, AimStep, LostStep DEF Inv

(* The inductive invariant holds always. *)
LEMMA SpecInv == Spec => []Inv
<1>1. Init => Inv
  BY InitInv
<1>2. Inv /\ [Next]_vars => Inv'
  BY InvStep
<1> QED
  BY <1>1, <1>2, PTL DEF Spec

(* The Undo and its recovery stay within their types and bounds for every  *)
(* batch, whatever names it gave and whenever others edit the files.       *)
THEOREM UndoTypes == Spec => []TypeOK
<1>1. Typed => TypeOK
  BY DEF Typed
<1> QED
  BY <1>1, SpecTyped, PTL

(* Undo and the recovery of a journalled file write over nothing but the   *)
(* file the Apply left there, untouched, for every batch and number of     *)
(* crashes, failures and recoveries, and whenever others touch the files:  *)
(* but for what they have touched since the worker's look.                 *)
THEOREM UndoKeeps == Spec => []JournalledKept
<1>1. Inv => JournalledKept
  BY DEF Inv
<1> QED
  BY <1>1, SpecInv, PTL

(* A journal that is not offered any more has put back what it took on,    *)
(* whatever crashed or was touched in between: no recovery is lost half    *)
(* way, and only tags that went to another file are missing.               *)
THEOREM UndoCloses == Spec => []UndoneOrOffered
<1>1. Inv => UndoneOrOffered
  BY DEF Inv, JournalsTrue, Truthful, UndoneOrOffered, Offered, Closed, PutBack, Journalled
<1> QED
  BY <1>1, SpecInv, PTL
=============================================================================
