----------------------- MODULE DownloadAdmissionProofs -----------------------
(* Theorems about DownloadAdmission, for every batch, scope and threshold. *)
EXTENDS DownloadAdmission, FiniteSetTheorems, TLAPS

USE DEF coordinatorVars, rateVars, systemicVars, conservativeVars, threadVars

-----------------------------------------------------------------------------
(* Typing. *)

(* The initial state is well typed. *)
LEMMA InitTyped == Init => TypeOK
<1> SUFFICES ASSUME Init PROVE TypeOK
  OBVIOUS
<1>1. CoordinatorTypeOK
  BY DEF Init, CoordinatorInit, CoordinatorTypeOK
<1>2. pc \in [Job -> PCs] /\ result \in [Job -> Results]
  BY DEF Init, PCs, Results
<1>3. stage \in [Job -> {"match", "download", "rematch"}]
  BY DEF Init
<1>4. permit \in [Job -> Permit \cup {NoPermit}] /\ attempts \in [Job -> Nat]
  BY DEF Init
<1>5. rematched \in [Job -> BOOLEAN] /\ cancelled \in [Job -> BOOLEAN]
  BY DEF Init
<1> QED
  BY <1>1, <1>2, <1>3, <1>4, <1>5 DEF TypeOK

(* The request keys a job uses are keys of the coordinator. *)
LEMMA KeysAreKeys ==
  ASSUME NEW j \in Job
  PROVE  DownloadKey(j) \in Key /\ RequestKey(j) \in Key
  BY JobAssumption DEF DownloadKey, RequestKey

(* Every step of every thread, of the user and of the clock keeps the types. *)
LEMMA StepTyped == TypeOK /\ [Next]_vars => TypeOK'
<1> SUFFICES ASSUME TypeOK, [Next]_vars PROVE TypeOK'
  OBVIOUS
<1> USE DEF TypeOK, CoordinatorTypeOK, PCs, At, GoTo, Drop, Comes
<1>1. ASSUME NEW j \in Job, Begin(j) PROVE TypeOK'
  BY <1>1 DEF Begin, StartDownload, JoinConservativeQueue
<1>2. ASSUME NEW j \in Job, EnterGate(j) PROVE TypeOK'
  BY <1>2, KeysAreKeys DEF EnterGate, TakeConservativeGate
<1>3. ASSUME NEW j \in Job, LeaveQueue(j) PROVE TypeOK'
  BY <1>3 DEF LeaveQueue, LeaveConservativeQueue
<1>4. ASSUME NEW j \in Job, PassGate(j) PROVE TypeOK'
  BY <1>4 DEF PassGate, DropConservativeGate
<1>5. ASSUME NEW j \in Job, LeaveGate(j) PROVE TypeOK'
  BY <1>5 DEF LeaveGate, ReleaseConservativeGate
<1>6. ASSUME NEW j \in Job, Admit(j) PROVE TypeOK'
  <2>1. PICK p \in {[epoch |-> epoch, canary |-> c] : c \in BOOLEAN} :
           /\ AdmitOrdinary(p) \/ AdmitCanary(RequestKey(j), p)
           /\ permit' = [permit EXCEPT ![j] = p]
    BY <1>6 DEF Admit
  <2>2. p \in Permit
    BY <2>1 DEF Permit
  <2>3. permit' \in [Job -> Permit \cup {NoPermit}]
    BY <2>1, <2>2
  <2>4. /\ blocked' = blocked /\ epoch' = epoch /\ owner' = owner
        /\ canaryInFlight' \in BOOLEAN
    BY <2>1 DEF AdmitOrdinary, AdmitCanary
  <2> QED
    BY <1>6, <2>3, <2>4 DEF Admit
<1>7. ASSUME NEW j \in Job, GiveUpWaiting(j) PROVE TypeOK'
  BY <1>7 DEF GiveUpWaiting, AbandonOwner, Results
<1>8. ASSUME NEW j \in Job, EnterResolution(j) PROVE TypeOK'
  BY <1>8, KeysAreKeys DEF EnterResolution, TakeResolutionGate
<1>9. ASSUME NEW j \in Job, GiveUpPermit(j) PROVE TypeOK'
  BY <1>9 DEF GiveUpPermit, AbandonAttempt, Results
<1>10. ASSUME NEW j \in Job, Start(j) PROVE TypeOK'
  BY <1>10 DEF Start
<1>11. ASSUME NEW j \in Job, GoRound(j) PROVE TypeOK'
  BY <1>11 DEF GoRound, AbandonAttempt, ReleaseResolutionGate
<1>12. ASSUME NEW j \in Job, NetworkReturns(j) PROVE TypeOK'
  <2>1. Answers(j) \subseteq Results
    BY DEF Answers, Results
  <2>2. result' \in [Job -> Results]
    BY <1>12, <2>1 DEF NetworkReturns
  <2>3. streak' \in [Scope -> Nat] /\ pauses' \in SUBSET Scope
    BY <1>12 DEF NetworkReturns, NoteSuccessfulTrack
  <2> QED
    BY <1>12, <2>2, <2>3 DEF NetworkReturns, ReleaseResolutionGate
<1>13. ASSUME NEW j \in Job, Report(j) PROVE TypeOK'
  <2>1. /\ blocked' \in {"open", "cooling", "expired"}
        /\ epoch' \in Nat
        /\ owner' \in Key \cup {NoOwner}
        /\ canaryInFlight' \in BOOLEAN
    <3>1. CASE NoteRateLimit(permit[j], RequestKey(j))
      BY <3>1, KeysAreKeys DEF NoteRateLimit
    <3>2. CASE CompleteAttempt(permit[j])
      BY <3>2 DEF CompleteAttempt
    <3>3. CASE AbandonAttempt(permit[j], RequestKey(j))
      BY <3>3 DEF AbandonAttempt
    <3> QED
      BY <1>13, <3>1, <3>2, <3>3 DEF Report
  <2>2. /\ stage' \in [Job -> {"match", "download", "rematch"}]
        /\ rematched' \in [Job -> BOOLEAN]
        /\ pc' \in [Job -> PCs]
        /\ permit' \in [Job -> Permit \cup {NoPermit}]
    BY <1>13 DEF Report
  <2> QED
    BY <1>13, <2>1, <2>2 DEF Report
<1>14. ASSUME NEW j \in Job, Matched(j) PROVE TypeOK'
  <2>1. streak' \in [Scope -> Nat] /\ pauses' \in SUBSET Scope
    BY <1>14 DEF Matched, NoteFailurePolicy, NoteSystemicFailure
  <2> QED
    BY <1>14, <2>1 DEF Matched, StartDownload, JoinConservativeQueue
<1>15. ASSUME NEW j \in Job, Rematched(j) PROVE TypeOK'
  BY <1>15 DEF Rematched, Results
<1>16. ASSUME NEW j \in Job, Settle(j) PROVE TypeOK'
  <2>1. streak' \in [Scope -> Nat] /\ pauses' \in SUBSET Scope
    BY <1>16
    DEF Settle, Cancel, Succeed, AwaitCanary, Retry, Fail, NoteFailurePolicy,
        NoteSystemicFailure
  <2>2. owner' \in Key \cup {NoOwner} /\ canaryInFlight' \in BOOLEAN
        /\ blocked' = blocked /\ epoch' = epoch
    BY <1>16 DEF Settle, Cancel, Succeed, AwaitCanary, Retry, Fail, AbandonOwner
  <2>3. pc' \in [Job -> PCs] /\ attempts' \in [Job -> Nat]
    BY <1>16 DEF Settle, Cancel, Succeed, AwaitCanary, Retry, Fail, AfterDownload
  <2> QED
    BY <1>16, <2>1, <2>2, <2>3 DEF Settle
<1>17. ASSUME NEW j \in Job, CancelJob(j) PROVE TypeOK'
  BY <1>17 DEF CancelJob
<1>18. ASSUME NEW s \in Scope, ResolveIncident(s) PROVE TypeOK'
  BY <1>18 DEF ResolveIncident, ResetSystemic
<1>19. CASE RateCooldownOver
  BY <1>19 DEF RateCooldownOver, CooldownExpires
<1>20. CASE GateCooldownOver
  BY <1>20 DEF GateCooldownOver, ConservativeCooldownEnds
<1>21. CASE Drained \/ UNCHANGED vars
  BY <1>21 DEF Drained, vars
<1> QED
  BY <1>1, <1>2, <1>3, <1>4, <1>5, <1>6, <1>7, <1>8, <1>9, <1>10, <1>11, <1>12,
     <1>13, <1>14, <1>15, <1>16, <1>17, <1>18, <1>19, <1>20, <1>21
  DEF Next, ThreadStep

(* The coordinator's and the threads' variables keep their types, whatever *)
(* the batch, the scopes and the thresholds.                               *)
THEOREM TypeCorrect == Spec => []TypeOK
<1>1. Init => TypeOK
  BY InitTyped
<1>2. TypeOK /\ [Next]_vars => TypeOK'
  BY StepTyped
<1> QED
  BY <1>1, <1>2, PTL DEF Spec

-----------------------------------------------------------------------------
(* Permits. *)

(* What PermitsFresh says of one job. *)
Fresh(j) ==
  /\ pc[j] \in WithPermit <=> permit[j] # NoPermit
  /\ permit[j] # NoPermit =>
        /\ permit[j].epoch <= epoch
        /\ permit[j].epoch = epoch /\ ~permit[j].canary => blocked = "open"

(* A step on behalf of j that leaves j in order, and at most opens the gate *)
(* or begins the next incident, leaves every job in order.                  *)
LEMMA OthersStayFresh ==
  ASSUME TypeOK, PermitsFresh, NEW j \in Job, Fresh(j)',
         \A i \in Job : i # j => permit'[i] = permit[i] /\ pc'[i] = pc[i],
         \/ epoch' = epoch /\ (blocked' = blocked \/ blocked' = "open")
         \/ epoch' = epoch + 1
  PROVE  PermitsFresh'
<1>1. \A i \in Job : permit[i] # NoPermit => permit[i].epoch \in Nat
  BY DEF TypeOK, Permit
<1>2. epoch \in Nat
  BY DEF TypeOK, CoordinatorTypeOK
<1>3. \A i \in Job : i # j => Fresh(i)'
  BY <1>1, <1>2 DEF PermitsFresh, Fresh
<1> QED
  BY <1>3 DEF PermitsFresh, Fresh

(* A step that moves j among the places with a permit, or among those       *)
(* without, and leaves permits and incident alone.                          *)
LEMMA MoveKeepsFresh ==
  ASSUME TypeOK, PermitsFresh, NEW j \in Job, NEW loc,
         pc[j] \in WithPermit <=> loc \in WithPermit,
         pc' = [pc EXCEPT ![j] = loc],
         permit' = permit, blocked' = blocked, epoch' = epoch
  PROVE  PermitsFresh'
<1>1. pc'[j] = loc /\ \A i \in Job : i # j => pc'[i] = pc[i]
  BY DEF TypeOK
<1>2. Fresh(j)'
  BY <1>1 DEF PermitsFresh, Fresh
<1> QED
  BY <1>1, <1>2, OthersStayFresh

(* A step that takes j's permit away. *)
LEMMA ReturnKeepsFresh ==
  ASSUME TypeOK, PermitsFresh, NEW j \in Job, NEW loc,
         loc \notin WithPermit,
         pc' = [pc EXCEPT ![j] = loc],
         permit' = [permit EXCEPT ![j] = NoPermit],
         \/ epoch' = epoch /\ (blocked' = blocked \/ blocked' = "open")
         \/ epoch' = epoch + 1
  PROVE  PermitsFresh'
<1>1. /\ pc'[j] = loc /\ permit'[j] = NoPermit
      /\ \A i \in Job : i # j => permit'[i] = permit[i] /\ pc'[i] = pc[i]
  BY DEF TypeOK
<1>2. Fresh(j)'
  BY <1>1 DEF Fresh
<1> QED
  BY <1>1, <1>2, OthersStayFresh

(* Every step keeps the permits in order. *)
LEMMA StepFresh == TypeOK /\ PermitsFresh /\ [Next]_vars => PermitsFresh'
<1> SUFFICES ASSUME TypeOK, PermitsFresh, [Next]_vars PROVE PermitsFresh'
  OBVIOUS
<1> USE DEF At, GoTo, Drop, WithPermit
<1>1. ASSUME NEW j \in Job, Begin(j) PROVE PermitsFresh'
  BY <1>1, MoveKeepsFresh DEF Begin, StartDownload
<1>2. ASSUME NEW j \in Job, EnterGate(j) PROVE PermitsFresh'
  BY <1>2, MoveKeepsFresh DEF EnterGate
<1>3. ASSUME NEW j \in Job, LeaveQueue(j) PROVE PermitsFresh'
  BY <1>3, MoveKeepsFresh DEF LeaveQueue
<1>4. ASSUME NEW j \in Job, PassGate(j) PROVE PermitsFresh'
  BY <1>4, MoveKeepsFresh DEF PassGate
<1>5. ASSUME NEW j \in Job, LeaveGate(j) PROVE PermitsFresh'
  BY <1>5, MoveKeepsFresh DEF LeaveGate
<1>6. ASSUME NEW j \in Job, Admit(j) PROVE PermitsFresh'
  <2>1. PICK p \in {[epoch |-> epoch, canary |-> c] : c \in BOOLEAN} :
           /\ AdmitOrdinary(p) \/ AdmitCanary(RequestKey(j), p)
           /\ permit' = [permit EXCEPT ![j] = p]
    BY <1>6 DEF Admit
  <2>2. p \in Permit /\ p # NoPermit /\ p.epoch = epoch /\ epoch \in Nat
    BY <2>1, PermitAssumption DEF Permit, TypeOK, CoordinatorTypeOK
  <2>3. /\ blocked' = blocked /\ epoch' = epoch
        /\ ~p.canary => blocked = "open"
    BY <2>1 DEF AdmitOrdinary, AdmitCanary
  <2>4. /\ permit'[j] = p /\ pc'[j] = "permitted"
        /\ \A i \in Job : i # j => permit'[i] = permit[i] /\ pc'[i] = pc[i]
    BY <1>6, <2>1 DEF Admit, TypeOK
  <2>5. Fresh(j)'
    BY <2>2, <2>3, <2>4 DEF Fresh
  <2> QED
    BY <2>3, <2>4, <2>5, OthersStayFresh
<1>7. ASSUME NEW j \in Job, GiveUpWaiting(j) PROVE PermitsFresh'
  BY <1>7, MoveKeepsFresh DEF GiveUpWaiting, AbandonOwner
<1>8. ASSUME NEW j \in Job, EnterResolution(j) PROVE PermitsFresh'
  BY <1>8, MoveKeepsFresh DEF EnterResolution
<1>9. ASSUME NEW j \in Job, GiveUpPermit(j) PROVE PermitsFresh'
  BY <1>9, ReturnKeepsFresh DEF GiveUpPermit, AbandonAttempt
<1>10. ASSUME NEW j \in Job, Start(j) PROVE PermitsFresh'
  BY <1>10, MoveKeepsFresh DEF Start
<1>11. ASSUME NEW j \in Job, GoRound(j) PROVE PermitsFresh'
  BY <1>11, ReturnKeepsFresh DEF GoRound, AbandonAttempt
<1>12. ASSUME NEW j \in Job, NetworkReturns(j) PROVE PermitsFresh'
  BY <1>12, MoveKeepsFresh DEF NetworkReturns
<1>13. ASSUME NEW j \in Job, Report(j) PROVE PermitsFresh'
  <2>1. \/ epoch' = epoch /\ (blocked' = blocked \/ blocked' = "open")
        \/ epoch' = epoch + 1
    BY <1>13 DEF Report, NoteRateLimit, CompleteAttempt, AbandonAttempt
  <2>2. PICK loc \in {"waiting", "returned"} : pc' = [pc EXCEPT ![j] = loc]
    BY <1>13 DEF Report
  <2> QED
    BY <1>13, <2>1, <2>2, ReturnKeepsFresh DEF Report
<1>14. ASSUME NEW j \in Job, Matched(j) PROVE PermitsFresh'
  BY <1>14, MoveKeepsFresh DEF Matched, StartDownload
<1>15. ASSUME NEW j \in Job, Rematched(j) PROVE PermitsFresh'
  BY <1>15, MoveKeepsFresh DEF Rematched, PermitsFresh
<1>16. ASSUME NEW j \in Job, Settle(j) PROVE PermitsFresh'
  <2>1. PICK loc \in {"waiting", "leaving", "done"} : pc' = [pc EXCEPT ![j] = loc]
    BY <1>16 DEF Settle, Cancel, Succeed, AwaitCanary, Retry, Fail, AfterDownload
  <2>2. blocked' = blocked /\ epoch' = epoch
    BY <1>16 DEF Settle, Cancel, Succeed, AwaitCanary, Retry, Fail, AbandonOwner
  <2> QED
    BY <1>16, <2>1, <2>2, MoveKeepsFresh DEF Settle
<1>17. ASSUME NEW j \in Job, CancelJob(j) PROVE PermitsFresh'
  BY <1>17 DEF CancelJob, PermitsFresh
<1>18. ASSUME NEW s \in Scope, ResolveIncident(s) PROVE PermitsFresh'
  BY <1>18 DEF ResolveIncident, PermitsFresh
<1>19. CASE RateCooldownOver
  BY <1>19 DEF RateCooldownOver, CooldownExpires, PermitsFresh
<1>20. CASE GateCooldownOver
  BY <1>20 DEF GateCooldownOver, PermitsFresh
<1>21. CASE Drained \/ UNCHANGED vars
  BY <1>21 DEF Drained, vars, PermitsFresh
<1> QED
  BY <1>1, <1>2, <1>3, <1>4, <1>5, <1>6, <1>7, <1>8, <1>9, <1>10, <1>11, <1>12,
     <1>13, <1>14, <1>15, <1>16, <1>17, <1>18, <1>19, <1>20, <1>21
  DEF Next, ThreadStep

(* No permit is ever from a future incident, and an ordinary permit of the *)
(* current incident means that the incident has not begun to block.        *)
THEOREM PermitsStayFresh == Spec => []PermitsFresh
<1>1. Init => PermitsFresh
  BY DEF Init, PermitsFresh, WithPermit
<1>2. TypeOK /\ PermitsFresh /\ [Next]_vars => PermitsFresh'
  BY StepFresh
<1> QED
  BY <1>1, <1>2, TypeCorrect, PTL DEF Spec

-----------------------------------------------------------------------------
(* The canary flag. *)

(* A step that leaves the permits alone, and does not raise the flag. *)
LEMMA HolderKept ==
  ASSUME CanaryFlagHasHolder, permit' = permit, canaryInFlight' => canaryInFlight
  PROVE  CanaryFlagHasHolder'
  BY DEF CanaryFlagHasHolder, HasCanary

(* A step that takes j's permit, and the flag with it if that was a canary. *)
LEMMA HolderReturns ==
  ASSUME TypeOK, CanaryFlagHasHolder, NEW j \in Job,
         permit' = [permit EXCEPT ![j] = NoPermit],
         canaryInFlight' => canaryInFlight /\ ~HasCanary(j)
  PROVE  CanaryFlagHasHolder'
<1>1. \A i \in Job : i # j => permit'[i] = permit[i]
  BY DEF TypeOK
<1> QED
  BY <1>1 DEF CanaryFlagHasHolder, HasCanary

(* Every step keeps a holder for the flag. *)
LEMMA StepHolder ==
  TypeOK /\ PermitsFresh /\ CanaryFlagHasHolder /\ [Next]_vars => CanaryFlagHasHolder'
<1> SUFFICES ASSUME TypeOK, PermitsFresh, CanaryFlagHasHolder, [Next]_vars
             PROVE  CanaryFlagHasHolder'
  OBVIOUS
<1> USE DEF At, GoTo, Drop, WithPermit
<1>1. ASSUME NEW j \in Job, Admit(j) PROVE CanaryFlagHasHolder'
  <2>1. PICK p \in {[epoch |-> epoch, canary |-> c] : c \in BOOLEAN} :
           /\ AdmitOrdinary(p) \/ AdmitCanary(RequestKey(j), p)
           /\ permit' = [permit EXCEPT ![j] = p]
    BY <1>1 DEF Admit
  <2>2. /\ permit'[j] = p /\ p # NoPermit
        /\ \A i \in Job : i # j => permit'[i] = permit[i]
    BY <2>1, PermitAssumption DEF TypeOK, CoordinatorTypeOK, Permit
  <2>3. permit[j] = NoPermit
    BY <1>1 DEF Admit, PermitsFresh
  <2>4. CASE AdmitCanary(RequestKey(j), p)
    <3>1. p.canary
      BY <2>4 DEF AdmitCanary
    <3> QED
      BY <2>2, <3>1 DEF CanaryFlagHasHolder, HasCanary
  <2>5. CASE AdmitOrdinary(p)
    <3>1. canaryInFlight' = canaryInFlight
      BY <2>5 DEF AdmitOrdinary
    <3>2. \A i \in Job : HasCanary(i) => HasCanary(i)'
      BY <2>2, <2>3 DEF HasCanary
    <3> QED
      BY <3>1, <3>2 DEF CanaryFlagHasHolder
  <2> QED
    BY <2>1, <2>4, <2>5
<1>2. ASSUME NEW j \in Job, GiveUpPermit(j) PROVE CanaryFlagHasHolder'
  <2>1. canaryInFlight' => canaryInFlight /\ ~HasCanary(j)
    BY <1>2 DEF GiveUpPermit, AbandonAttempt, HasCanary, TypeOK, CoordinatorTypeOK
  <2> QED
    BY <1>2, <2>1, HolderReturns DEF GiveUpPermit
<1>3. ASSUME NEW j \in Job, GoRound(j) PROVE CanaryFlagHasHolder'
  <2>1. canaryInFlight' => canaryInFlight /\ ~HasCanary(j)
    BY <1>3 DEF GoRound, AbandonAttempt, HasCanary, TypeOK, CoordinatorTypeOK
  <2> QED
    BY <1>3, <2>1, HolderReturns DEF GoRound
<1>4. ASSUME NEW j \in Job, Report(j) PROVE CanaryFlagHasHolder'
  <2>1. canaryInFlight' => canaryInFlight /\ ~HasCanary(j)
    BY <1>4 DEF Report, NoteRateLimit, CompleteAttempt, AbandonAttempt,
                HasCanary, TypeOK, CoordinatorTypeOK
  <2> QED
    BY <1>4, <2>1, HolderReturns DEF Report
<1>5. ASSUME NEW j \in Job, GiveUpWaiting(j) PROVE CanaryFlagHasHolder'
  BY <1>5, HolderKept DEF GiveUpWaiting, AbandonOwner
<1>6. ASSUME NEW j \in Job, Settle(j) PROVE CanaryFlagHasHolder'
  BY <1>6, HolderKept
  DEF Settle, Cancel, Succeed, AwaitCanary, Retry, Fail, AbandonOwner
<1>7. ASSUME NEW j \in Job,
             Begin(j) \/ EnterGate(j) \/ LeaveQueue(j) \/ PassGate(j) \/ LeaveGate(j)
      PROVE  CanaryFlagHasHolder'
  BY <1>7, HolderKept DEF Begin, EnterGate, LeaveQueue, PassGate, LeaveGate
<1>8. ASSUME NEW j \in Job,
             EnterResolution(j) \/ Start(j) \/ NetworkReturns(j)
             \/ Matched(j) \/ Rematched(j) \/ CancelJob(j)
      PROVE  CanaryFlagHasHolder'
  BY <1>8, HolderKept
  DEF EnterResolution, Start, NetworkReturns, Matched, Rematched, CancelJob
<1>9. ASSUME NEW s \in Scope, ResolveIncident(s) PROVE CanaryFlagHasHolder'
  BY <1>9, HolderKept DEF ResolveIncident
<1>10. CASE RateCooldownOver \/ GateCooldownOver \/ Drained \/ UNCHANGED vars
  BY <1>10, HolderKept
  DEF RateCooldownOver, CooldownExpires, GateCooldownOver, Drained, vars
<1> QED
  BY <1>1, <1>2, <1>3, <1>4, <1>5, <1>6, <1>7, <1>8, <1>9, <1>10
  DEF Next, ThreadStep

(* Whatever is cancelled, throttled or failed, _canary_in_flight is never  *)
(* left behind by a thread that has gone.                                  *)
THEOREM CanaryFlagHeld == Spec => []CanaryFlagHasHolder
<1>1. Init => CanaryFlagHasHolder
  BY DEF Init, CoordinatorInit, CanaryFlagHasHolder
<1>2. TypeOK /\ PermitsFresh /\ CanaryFlagHasHolder /\ [Next]_vars
        => CanaryFlagHasHolder'
  BY StepHolder
<1> QED
  BY <1>1, <1>2, TypeCorrect, PermitsStayFresh, PTL DEF Spec

-----------------------------------------------------------------------------
(* Systemic stops. *)

(* Counting a failure, or none, keeps streaks and stops together. *)
LEMMA FailureStopsByStreak ==
  ASSUME TypeOK, StoppedByStreak, NoteFailurePolicy
  PROVE  StoppedByStreak'
<1>1. CASE UNCHANGED systemicVars
  BY <1>1 DEF StoppedByStreak
<1>2. ASSUME NEW s \in Scope, NoteSystemicFailure(s) PROVE StoppedByStreak'
  <2>1. /\ streak'[s] = streak[s] + 1
        /\ \A t \in Scope : t # s => streak'[t] = streak[t]
    BY <1>2 DEF NoteSystemicFailure, TypeOK, CoordinatorTypeOK
  <2>2. streak[s] \in Nat /\ Threshold[s] \in Nat
    BY ThresholdAssumption DEF TypeOK, CoordinatorTypeOK
  <2>3. \A t \in Scope : t # s => (t \in pauses' <=> t \in pauses)
    BY <1>2 DEF NoteSystemicFailure
  <2>4. s \in pauses' <=> streak'[s] >= Threshold[s]
    BY <1>2, <2>1, <2>2 DEF NoteSystemicFailure, StoppedByStreak
  <2> QED
    BY <2>1, <2>3, <2>4 DEF StoppedByStreak
<1> QED
  BY <1>1, <1>2 DEF NoteFailurePolicy

(* Every step keeps them together. *)
LEMMA StepStopped == TypeOK /\ StoppedByStreak /\ [Next]_vars => StoppedByStreak'
<1> SUFFICES ASSUME TypeOK, StoppedByStreak, [Next]_vars PROVE StoppedByStreak'
  OBVIOUS
<1>1. ASSUME UNCHANGED systemicVars PROVE StoppedByStreak'
  BY <1>1 DEF StoppedByStreak
<1>2. ASSUME NEW j \in Job, NetworkReturns(j) PROVE StoppedByStreak'
  <2>1. CASE NoteSuccessfulTrack
    <3>1. \A s \in Scope : Threshold[s] \in Nat \ {0}
      BY ThresholdAssumption
    <3>2. \A s \in Scope :
             /\ streak'[s] = IF s \in pauses THEN streak[s] ELSE 0
             /\ s \in pauses' <=> s \in pauses
      BY <2>1 DEF NoteSuccessfulTrack
    <3> QED
      BY <3>1, <3>2 DEF StoppedByStreak
  <2> QED
    BY <1>1, <1>2, <2>1 DEF NetworkReturns
<1>3. ASSUME NEW j \in Job, Matched(j) \/ Settle(j) PROVE StoppedByStreak'
  BY <1>1, <1>3, FailureStopsByStreak
  DEF Matched, Settle, Cancel, Succeed, AwaitCanary, Retry, Fail
<1>4. ASSUME NEW s \in Scope, ResolveIncident(s) PROVE StoppedByStreak'
  <2>1. /\ streak'[s] = 0 /\ Threshold[s] \in Nat \ {0}
        /\ \A t \in Scope : t # s => streak'[t] = streak[t]
    BY <1>4, ThresholdAssumption
    DEF ResolveIncident, ResetSystemic, TypeOK, CoordinatorTypeOK
  <2>2. \A t \in Scope : t \in pauses' <=> t \in pauses /\ t # s
    BY <1>4 DEF ResolveIncident, ResetSystemic
  <2> QED
    BY <2>1, <2>2 DEF StoppedByStreak
<1>5. ASSUME NEW j \in Job,
             Begin(j) \/ EnterGate(j) \/ LeaveQueue(j) \/ PassGate(j) \/ LeaveGate(j)
             \/ Admit(j) \/ GiveUpWaiting(j) \/ EnterResolution(j)
             \/ GiveUpPermit(j) \/ Start(j) \/ GoRound(j) \/ Report(j)
             \/ Rematched(j) \/ CancelJob(j)
      PROVE  StoppedByStreak'
  BY <1>1, <1>5
  DEF Begin, EnterGate, LeaveQueue, PassGate, LeaveGate, Admit, GiveUpWaiting,
      EnterResolution, GiveUpPermit, Start, GoRound, Report, Rematched, CancelJob
<1>6. CASE RateCooldownOver \/ GateCooldownOver \/ Drained \/ UNCHANGED vars
  BY <1>1, <1>6 DEF RateCooldownOver, GateCooldownOver, Drained, vars
<1> QED
  BY <1>2, <1>3, <1>4, <1>5, <1>6 DEF Next, ThreadStep

(* A scope is stopped exactly while its failures have reached the          *)
(* threshold, for every table of thresholds.                               *)
THEOREM StopsFollowStreaks == Spec => []StoppedByStreak
<1>1. Init => StoppedByStreak
  <2>1. \A s \in Scope : Threshold[s] \in Nat \ {0}
    BY ThresholdAssumption
  <2> QED
    BY <2>1 DEF Init, CoordinatorInit, StoppedByStreak
<1>2. TypeOK /\ StoppedByStreak /\ [Next]_vars => StoppedByStreak'
  BY StepStopped
<1> QED
  BY <1>1, <1>2, TypeCorrect, PTL DEF Spec

-----------------------------------------------------------------------------
(* The owner of an incident. *)

(* What OwnerStillThere says of the owner's thread. *)
Minds(j) ==
  \/ At(j, "waiting")
  \/ At(j, "returned") /\ stage[j] = "download" /\ result[j] = "rate"
  \/ pc[j] \in WithPermit /\ permit[j] = [epoch |-> epoch, canary |-> TRUE]

(* Two jobs never share a request key. *)
LEMMA KeysDiffer ==
  ASSUME NEW i \in Job, NEW j \in Job, RequestKey(i) = RequestKey(j)
  PROVE  i = j
  BY DEF RequestKey

(* If j owns the incident, j's thread minds it and admission is closed. *)
LEMMA OwnerMinds ==
  ASSUME OwnerStillThere, NEW j \in Job, owner = RequestKey(j)
  PROVE  Minds(j) /\ blocked # "open"
<1>1. owner # NoOwner
  BY KeysAreKeys, KeyAssumption
<1>2. PICK i \in Job : owner = RequestKey(i) /\ Minds(i)
  BY <1>1 DEF OwnerStillThere, Minds
<1>3. i = j
  BY <1>2, KeysDiffer
<1> QED
  BY <1>1, <1>2, <1>3 DEF OwnerStillThere

(* A step of j's thread that leaves the incident alone, and in which j, if *)
(* it is the owner, goes on minding it.                                    *)
LEMMA OwnerKept ==
  ASSUME OwnerStillThere, NEW j \in Job,
         blocked' = blocked, epoch' = epoch, owner' = owner,
         \A i \in Job : i # j => /\ pc'[i] = pc[i] /\ stage'[i] = stage[i]
                                /\ permit'[i] = permit[i] /\ result'[i] = result[i],
         owner = RequestKey(j) => Minds(j)' /\ RequestKey(j)' = RequestKey(j)
  PROVE  OwnerStillThere'
<1> SUFFICES ASSUME owner # NoOwner PROVE OwnerStillThere'
  BY DEF OwnerStillThere
<1>1. PICK i \in Job : owner = RequestKey(i) /\ Minds(i)
  BY DEF OwnerStillThere, Minds
<1>2. owner' = RequestKey(i)' /\ Minds(i)'
  <2>1. CASE i = j
    BY <1>1, <2>1
  <2>2. CASE i # j
    BY <1>1, <2>2 DEF Minds, At, RequestKey
  <2> QED
    BY <2>1, <2>2
<1> QED
  BY <1>2 DEF OwnerStillThere, Minds

(* Every step keeps the owner there. *)
LEMMA StepOwner ==
  TypeOK /\ PermitsFresh /\ OwnerStillThere /\ [Next]_vars => OwnerStillThere'
<1> SUFFICES ASSUME TypeOK, PermitsFresh, OwnerStillThere, [Next]_vars
             PROVE  OwnerStillThere'
  OBVIOUS
<1> USE DEF At, GoTo, Drop, Comes, WithPermit
<1>0. ASSUME owner' = NoOwner PROVE OwnerStillThere'
  BY <1>0 DEF OwnerStillThere
<1>1. ASSUME NEW j \in Job,
             Begin(j) \/ EnterGate(j) \/ LeaveQueue(j) \/ PassGate(j) \/ LeaveGate(j)
      PROVE  OwnerStillThere'
  <2>1. owner # RequestKey(j)
    BY <1>1, OwnerMinds
    DEF Minds, Begin, EnterGate, LeaveQueue, PassGate, LeaveGate
  <2>2. UNCHANGED rateVars /\ UNCHANGED <<permit, result>>
    BY <1>1 DEF Begin, EnterGate, LeaveQueue, PassGate, LeaveGate
  <2>3. \A i \in Job : i # j => pc'[i] = pc[i] /\ stage'[i] = stage[i]
    BY <1>1
    DEF TypeOK, Begin, StartDownload, EnterGate, LeaveQueue, PassGate, LeaveGate
  <2> QED
    BY <2>1, <2>2, <2>3, OwnerKept
<1>2. ASSUME NEW j \in Job, Admit(j) PROVE OwnerStillThere'
  <2>1. PICK p \in {[epoch |-> epoch, canary |-> c] : c \in BOOLEAN} :
           /\ AdmitOrdinary(p) \/ AdmitCanary(RequestKey(j), p)
           /\ permit' = [permit EXCEPT ![j] = p]
    BY <1>2 DEF Admit
  <2>2. UNCHANGED <<blocked, epoch, owner, stage, result>>
    BY <1>2, <2>1 DEF Admit, AdmitOrdinary, AdmitCanary
  <2>3. /\ pc'[j] = "permitted" /\ permit'[j] = p
        /\ \A i \in Job : i # j => pc'[i] = pc[i] /\ permit'[i] = permit[i]
    BY <1>2, <2>1 DEF Admit, TypeOK
  <2>4. ASSUME owner = RequestKey(j) PROVE Minds(j)'
    BY <2>1, <2>2, <2>3, <2>4, OwnerMinds DEF Minds, AdmitOrdinary, AdmitCanary
  <2> QED
    BY <2>2, <2>3, <2>4, OwnerKept DEF RequestKey
<1>3. ASSUME NEW j \in Job, GiveUpWaiting(j) PROVE OwnerStillThere'
  <2>1. CASE owner = RequestKey(j)
    BY <1>0, <1>3, <2>1 DEF GiveUpWaiting, AbandonOwner
  <2>2. CASE owner # RequestKey(j)
    BY <1>3, <2>2, OwnerKept DEF GiveUpWaiting, AbandonOwner, TypeOK
  <2> QED
    BY <2>1, <2>2
<1>4. ASSUME NEW j \in Job, EnterResolution(j) \/ Start(j) \/ NetworkReturns(j)
      PROVE  OwnerStillThere'
  <2>1. UNCHANGED rateVars /\ UNCHANGED <<permit, stage>>
    BY <1>4 DEF EnterResolution, Start, NetworkReturns
  <2>2. /\ pc[j] \in WithPermit /\ pc'[j] \in WithPermit
        /\ \A i \in Job : i # j => pc'[i] = pc[i] /\ result'[i] = result[i]
    BY <1>4 DEF TypeOK, EnterResolution, Start, NetworkReturns
  <2>3. ASSUME owner = RequestKey(j) PROVE Minds(j)'
    BY <2>1, <2>2, <2>3, OwnerMinds DEF Minds
  <2> QED
    BY <2>1, <2>2, <2>3, OwnerKept DEF RequestKey
<1>5. ASSUME NEW j \in Job, GiveUpPermit(j) \/ GoRound(j) PROVE OwnerStillThere'
  <2>1. /\ AbandonAttempt(permit[j], RequestKey(j))
        /\ pc[j] \in WithPermit
    BY <1>5 DEF GiveUpPermit, GoRound
  <2>2. CASE owner = RequestKey(j)
    <3>1. permit[j].canary
      BY <2>1, <2>2, OwnerMinds DEF Minds
    <3> QED
      BY <1>0, <2>1, <2>2, <3>1 DEF AbandonAttempt
  <2>3. CASE owner # RequestKey(j)
    <3>1. UNCHANGED <<blocked, epoch, owner>>
      BY <2>1, <2>3 DEF AbandonAttempt
    <3>2. \A i \in Job : i # j => /\ pc'[i] = pc[i] /\ stage'[i] = stage[i]
                                /\ permit'[i] = permit[i] /\ result'[i] = result[i]
      BY <1>5 DEF GiveUpPermit, GoRound, TypeOK
    <3> QED
      BY <2>3, <3>1, <3>2, OwnerKept
  <2> QED
    BY <2>2, <2>3
<1>6. ASSUME NEW j \in Job, Report(j) PROVE OwnerStillThere'
  <2> DEFINE p == permit[j]
             k == RequestKey(j)
  <2>1. \A i \in Job : i # j => /\ pc'[i] = pc[i] /\ stage'[i] = stage[i]
                              /\ permit'[i] = permit[i] /\ result'[i] = result[i]
    BY <1>6 DEF Report, TypeOK
  <2>2. owner = k => p.canary /\ p.epoch = epoch
    BY <1>6, OwnerMinds DEF Report, Minds
  <2>3. ASSUME owner # k, UNCHANGED <<blocked, epoch, owner>> PROVE OwnerStillThere'
    BY <2>1, <2>3, OwnerKept
  <2>4. CASE result[j] = "rate" /\ NoteRateLimit(p, k)
    <3>1. CASE blocked = "cooling" /\ ~p.canary
      BY <2>2, <2>3, <2>4, <3>1 DEF NoteRateLimit
    <3>2. CASE ~(blocked = "cooling" /\ ~p.canary)
      <4>1. blocked' = "cooling" /\ owner' = k
        BY <2>4, <3>2 DEF NoteRateLimit
      <4>2. stage' = stage /\ result' = result
        BY <1>6, <2>4 DEF Report
      <4>3. pc'[j] = IF Resolving(j) THEN "waiting" ELSE "returned"
        BY <1>6, <2>4 DEF Report, TypeOK
      <4>4. RequestKey(j)' = k /\ Minds(j)'
        BY <2>4, <4>2, <4>3 DEF Minds, RequestKey, Resolving
      <4> QED
        BY <4>1, <4>4 DEF OwnerStillThere, Minds
    <3> QED
      BY <3>1, <3>2
  <2>5. CASE CompleteAttempt(p)
    BY <1>0, <2>2, <2>3, <2>5 DEF CompleteAttempt
  <2>6. CASE AbandonAttempt(p, k)
    BY <1>0, <2>2, <2>3, <2>6 DEF AbandonAttempt
  <2> QED
    BY <1>6, <2>4, <2>5, <2>6 DEF Report
<1>7. ASSUME NEW j \in Job, Matched(j) \/ Rematched(j) PROVE OwnerStillThere'
  <2>1. owner # RequestKey(j)
    BY <1>7, OwnerMinds DEF Minds, Matched, Rematched
  <2>2. UNCHANGED rateVars /\ UNCHANGED permit
    BY <1>7 DEF Matched, Rematched
  <2>3. \A i \in Job : i # j => /\ pc'[i] = pc[i] /\ stage'[i] = stage[i]
                              /\ result'[i] = result[i]
    BY <1>7 DEF TypeOK, Matched, StartDownload, Rematched
  <2> QED
    BY <2>1, <2>2, <2>3, OwnerKept
<1>8. ASSUME NEW j \in Job, Settle(j) PROVE OwnerStillThere'
  <2>1. /\ At(j, "returned") /\ stage[j] = "download"
        /\ UNCHANGED <<stage, permit, result>>
    BY <1>8 DEF Settle
  <2>2. \A i \in Job : i # j => pc'[i] = pc[i]
    BY <1>8 DEF Settle, Cancel, Succeed, AwaitCanary, Retry, Fail, TypeOK
  <2>3. RequestKey(j) = DownloadKey(j)
    BY <2>1 DEF RequestKey, DownloadKey
  <2>4. CASE Cancel(j) /\ owner = RequestKey(j)
    BY <1>0, <2>3, <2>4 DEF Cancel, AbandonOwner
  <2>5. CASE Cancel(j) /\ owner # RequestKey(j)
    BY <2>1, <2>2, <2>3, <2>5, OwnerKept DEF Cancel, AbandonOwner
  <2>6. CASE AwaitCanary(j)
    <3>1. Minds(j)' /\ RequestKey(j)' = RequestKey(j) /\ UNCHANGED rateVars
      BY <2>1, <2>6 DEF AwaitCanary, Minds, RequestKey, TypeOK
    <3> QED
      BY <2>1, <2>2, <3>1, OwnerKept
  <2>7. CASE Succeed(j) \/ Retry(j) \/ Fail(j)
    <3>1. owner # RequestKey(j) /\ UNCHANGED rateVars
      BY <2>1, <2>7, OwnerMinds DEF Succeed, Retry, Fail, Minds
    <3> QED
      BY <2>1, <2>2, <3>1, OwnerKept
  <2> QED
    BY <1>8, <2>4, <2>5, <2>6, <2>7 DEF Settle
<1>9. ASSUME UNCHANGED <<owner, epoch, threadVars>>,
             blocked' = "open" => blocked = "open"
      PROVE  OwnerStillThere'
  BY <1>9 DEF OwnerStillThere, RequestKey
<1>10. ASSUME NEW j \in Job, CancelJob(j) PROVE OwnerStillThere'
  BY <1>9, <1>10 DEF CancelJob
<1>11. ASSUME NEW s \in Scope, ResolveIncident(s) PROVE OwnerStillThere'
  BY <1>9, <1>11 DEF ResolveIncident
<1>12. CASE RateCooldownOver \/ GateCooldownOver \/ Drained \/ UNCHANGED vars
  BY <1>9, <1>12
  DEF RateCooldownOver, CooldownExpires, GateCooldownOver, Drained, vars
<1> QED
  BY <1>1, <1>2, <1>3, <1>4, <1>5, <1>6, <1>7, <1>8, <1>10, <1>11, <1>12
  DEF Next, ThreadStep

(* An incident's owner always comes back for it: it is waiting for its     *)
(* canary, holds it, or is about to wait again.                            *)
THEOREM OwnerStays == Spec => []OwnerStillThere
<1>1. Init => OwnerStillThere
  BY DEF Init, CoordinatorInit, OwnerStillThere
<1>2. TypeOK /\ PermitsFresh /\ OwnerStillThere /\ [Next]_vars => OwnerStillThere'
  BY StepOwner
<1> QED
  BY <1>1, <1>2, TypeCorrect, PermitsStayFresh, PTL DEF Spec

-----------------------------------------------------------------------------
(* The abstract breaker. *)

(* A request on the wire is never the idle value of the breaker. *)
LEMMA OnTheWireNotIdle ==
  ASSUME NEW j \in Job, pc[j] \in {"inflight", "reporting"}
  PROVE  OnTheWire(j) # Breaker!Idle
  BY DEF OnTheWire, Breaker!Idle

(* A step that leaves the wire and the incident alone stops or resumes work *)
(* or does nothing the breaker can see.                                    *)
LEMMA OffTheWire ==
  ASSUME \A i \in Job : OnTheWire(i)' = OnTheWire(i),
         epoch' = epoch, blocked' = "open" <=> blocked = "open"
  PROVE  [Breaker!Next]_(Breaker!vars)
<1>1. CASE pauses' # {} <=> pauses # {}
  BY <1>1 DEF Breaker!vars
<1>2. CASE ~(pauses' # {} <=> pauses # {})
  BY <1>2 DEF Breaker!Next, Breaker!StopOrResume
<1> QED
  BY <1>1, <1>2

(* Every step of the pool is a step of the breaker, or one it cannot see. *)
LEMMA StepBreaks ==
  TypeOK /\ PermitsFresh /\ [Next]_vars => [Breaker!Next]_(Breaker!vars)
<1> SUFFICES ASSUME TypeOK, PermitsFresh, [Next]_vars
             PROVE  [Breaker!Next]_(Breaker!vars)
  OBVIOUS
<1> USE DEF At, GoTo, Drop, Comes
<1> DEFINE Wire == [i \in Job |-> OnTheWire(i)]
           Gate == IF blocked = "open" THEN "open" ELSE "closed"
(* A step of j that neither starts nor ends a request. *)
<1>0. ASSUME NEW j \in Job, UNCHANGED <<blocked, epoch>>,
             \A i \in Job : i # j => pc'[i] = pc[i] /\ permit'[i] = permit[i],
             \/ /\ pc[j] \notin {"inflight", "reporting"}
                /\ pc'[j] \notin {"inflight", "reporting"}
             \/ /\ permit' = permit
                /\ {pc[j], pc'[j]} \subseteq {"inflight", "reporting"}
      PROVE  [Breaker!Next]_(Breaker!vars)
  <2>1. \A i \in Job : OnTheWire(i)' = OnTheWire(i)
    BY <1>0 DEF OnTheWire
  <2> QED
    BY <1>0, <2>1, OffTheWire
<1>1. ASSUME NEW j \in Job,
             Begin(j) \/ EnterGate(j) \/ LeaveQueue(j) \/ PassGate(j) \/ LeaveGate(j)
      PROVE  [Breaker!Next]_(Breaker!vars)
  BY <1>0, <1>1
  DEF TypeOK, Begin, StartDownload, EnterGate, LeaveQueue, PassGate, LeaveGate,
      AfterDownload
<1>2. ASSUME NEW j \in Job, Admit(j) PROVE [Breaker!Next]_(Breaker!vars)
  BY <1>0, <1>2 DEF TypeOK, Admit, AdmitOrdinary, AdmitCanary
<1>3. ASSUME NEW j \in Job, GiveUpWaiting(j) \/ GiveUpPermit(j) \/ GoRound(j)
      PROVE  [Breaker!Next]_(Breaker!vars)
  BY <1>0, <1>3
  DEF TypeOK, GiveUpWaiting, AbandonOwner, GiveUpPermit, GoRound, AbandonAttempt
<1>4. ASSUME NEW j \in Job, EnterResolution(j) \/ NetworkReturns(j)
      PROVE  [Breaker!Next]_(Breaker!vars)
  BY <1>0, <1>4 DEF TypeOK, EnterResolution, NetworkReturns
<1>5. ASSUME NEW j \in Job, Start(j) PROVE [Breaker!Next]_(Breaker!vars)
  <2>1. /\ pauses = {} /\ permit[j] # NoPermit /\ permit[j].epoch = epoch
        /\ UNCHANGED <<blocked, epoch, pauses, permit>>
        /\ ~permit[j].canary => blocked = "open"
    BY <1>5 DEF Start, StartPermitValid, PermitsFresh, WithPermit
  <2>2. OnTheWire(j)' = IF permit[j].canary THEN <<"probe", epoch>> ELSE <<"traffic">>
    BY <1>5, <2>1 DEF Start, TypeOK, OnTheWire
  <2>3. \A i \in Job : i # j => OnTheWire(i)' = OnTheWire(i)
    BY <1>5, <2>1 DEF Start, TypeOK, OnTheWire
  <2>4. Wire' = [Wire EXCEPT ![j] = OnTheWire(j)']
    BY <2>3
  <2>5. CASE permit[j].canary
    <3>1. Breaker!SendProbe(j)
      BY <2>1, <2>2, <2>4, <2>5 DEF Breaker!SendProbe, Breaker!Send, Breaker!Probe
    <3> QED
      BY <3>1 DEF Breaker!Next
  <2>6. CASE ~permit[j].canary
    <3>1. Breaker!SendTraffic(j)
      BY <2>1, <2>2, <2>4, <2>6
      DEF Breaker!SendTraffic, Breaker!Send, Breaker!Traffic
    <3> QED
      BY <3>1 DEF Breaker!Next
  <2> QED
    BY <2>5, <2>6
<1>6. ASSUME NEW j \in Job, Report(j) PROVE [Breaker!Next]_(Breaker!vars)
  <2> DEFINE p == permit[j]
             k == RequestKey(j)
  <2>1. pc[j] = "reporting" /\ UNCHANGED pauses
    BY <1>6 DEF Report
  <2>2. OnTheWire(j)' = Breaker!Idle
    BY <1>6 DEF Report, TypeOK, OnTheWire, Breaker!Idle
  <2>3. \A i \in Job : i # j => OnTheWire(i)' = OnTheWire(i)
    BY <1>6 DEF Report, TypeOK, OnTheWire
  <2>4. Wire' = [Wire EXCEPT ![j] = Breaker!Idle]
    BY <2>2, <2>3
  <2>5. Breaker!Over(j)
    BY <2>1, <2>4, OnTheWireNotIdle DEF Breaker!Over
  <2>6. ASSUME UNCHANGED <<Gate, epoch>> PROVE Breaker!Next
    <3>1. Breaker!Answered(j)
      BY <2>1, <2>5, <2>6 DEF Breaker!Answered
    <3> QED
      BY <3>1 DEF Breaker!Next
  <2>7. CASE NoteRateLimit(p, k)
    <3>1. CASE blocked = "cooling" /\ ~p.canary
      BY <2>6, <2>7, <3>1 DEF NoteRateLimit
    <3>2. CASE ~(blocked = "cooling" /\ ~p.canary)
      <4>1. Breaker!Throttled(j)
        BY <2>1, <2>5, <2>7, <3>2 DEF NoteRateLimit, Breaker!Throttled
      <4> QED
        BY <4>1 DEF Breaker!Next
    <3> QED
      BY <3>1, <3>2
  <2>8. CASE CompleteAttempt(p)
    <3>1. CASE p.canary /\ p.epoch = epoch
      <4>1. Wire[j] = Breaker!Probe(epoch)
        BY <2>1, <3>1 DEF OnTheWire, Breaker!Probe
      <4>2. Breaker!Proved(j)
        BY <2>1, <2>5, <2>8, <3>1, <4>1 DEF CompleteAttempt, Breaker!Proved
      <4> QED
        BY <4>2 DEF Breaker!Next
    <3>2. CASE ~(p.canary /\ p.epoch = epoch)
      BY <2>6, <2>8, <3>2 DEF CompleteAttempt
    <3> QED
      BY <3>1, <3>2
  <2>9. CASE AbandonAttempt(p, k)
    BY <2>6, <2>9 DEF AbandonAttempt
  <2> QED
    BY <1>6, <2>7, <2>8, <2>9 DEF Report
<1>7. ASSUME NEW j \in Job, Matched(j) \/ Rematched(j)
      PROVE  [Breaker!Next]_(Breaker!vars)
  BY <1>0, <1>7 DEF TypeOK, Matched, StartDownload, Rematched
<1>8. ASSUME NEW j \in Job, Settle(j) PROVE [Breaker!Next]_(Breaker!vars)
  <2>1. UNCHANGED <<blocked, epoch, permit>>
    BY <1>8 DEF Settle, Cancel, Succeed, AwaitCanary, Retry, Fail, AbandonOwner
  <2>2. /\ pc[j] = "returned" /\ pc'[j] \notin {"inflight", "reporting"}
        /\ \A i \in Job : i # j => pc'[i] = pc[i]
    BY <1>8 DEF Settle, Cancel, Succeed, AwaitCanary, Retry, Fail, AfterDownload,
                TypeOK
  <2> QED
    BY <1>0, <2>1, <2>2
<1>9. ASSUME UNCHANGED <<epoch, pc, permit>>,
             blocked' = "open" <=> blocked = "open"
      PROVE  [Breaker!Next]_(Breaker!vars)
  <2>1. \A i \in Job : OnTheWire(i)' = OnTheWire(i)
    BY <1>9 DEF OnTheWire
  <2> QED
    BY <1>9, <2>1, OffTheWire
<1>10. ASSUME NEW j \in Job, CancelJob(j) PROVE [Breaker!Next]_(Breaker!vars)
  BY <1>9, <1>10 DEF CancelJob
<1>11. ASSUME NEW s \in Scope, ResolveIncident(s) PROVE [Breaker!Next]_(Breaker!vars)
  BY <1>9, <1>11 DEF ResolveIncident
<1>12. CASE RateCooldownOver \/ GateCooldownOver \/ Drained \/ UNCHANGED vars
  BY <1>9, <1>12
  DEF RateCooldownOver, CooldownExpires, GateCooldownOver, Drained, vars
<1> QED
  BY <1>1, <1>2, <1>3, <1>4, <1>5, <1>6, <1>7, <1>8, <1>10, <1>11, <1>12
  DEF Next, ThreadStep

(* The orchestrator's pool and the coordinator implement the abstract      *)
(* breaker: after a rate limit only probes go out until a probe of that    *)
(* incident has come back, and a systemic stop lets nothing start.         *)
THEOREM ImplementsBreaker == Spec => KeepsTheGate
<1>1. Init => Breaker!Init
  BY DEF Init, CoordinatorInit, OnTheWire, Breaker!Init, Breaker!Idle
<1>2. TypeOK /\ PermitsFresh /\ [Next]_vars => [Breaker!Next]_(Breaker!vars)
  BY StepBreaks
<1> QED
  BY <1>1, <1>2, TypeCorrect, PermitsStayFresh, PTL DEF Spec, KeepsTheGate, Breaker!Spec

-----------------------------------------------------------------------------
(* The gates. *)

(* The resolution gate is held exactly by the match that is on its way. *)
ResolutionHeld ==
    /\ \A j \in Job : resolutionGate = <<"match", j>>
                      <=> Resolving(j) /\ pc[j] \in {"slot", "inflight"}
    /\ \A j \in Job : resolutionGate # DownloadKey(j)

(* The conservative gate is held by a download that has passed the queue. *)
ConservativeHeld ==
    \A j \in Job :
        /\ conservativeGate = DownloadKey(j) =>
              j \in Conservative /\ stage[j] # "match" /\ pc[j] \notin {"idle", "gateWait", "done"}
        /\ At(j, "gateWait") => j \in Conservative /\ stage[j] = "download"

(* The waiters are the threads in the queue. *)
InQueue == {j \in Job : At(j, "gateWait")}
QueueCounted == IsFiniteSet(InQueue) /\ waiters = Cardinality(InQueue)

(* A step that nobody joins or leaves the queue with. *)
LEMMA QueueKept ==
  ASSUME QueueCounted, UNCHANGED waiters,
         \A i \in Job : pc'[i] = "gateWait" <=> pc[i] = "gateWait"
  PROVE  QueueCounted'
<1>1. InQueue' = InQueue
  BY DEF InQueue, At
<1> QED
  BY <1>1 DEF QueueCounted

(* A step of a thread that is in the queue neither before nor after. *)
LEMMA QueuePassed ==
  ASSUME TypeOK, QueueCounted, UNCHANGED waiters, NEW j \in Job, NEW loc,
         GoTo(j, loc), ~At(j, "gateWait"), loc # "gateWait"
  PROVE  QueueCounted'
<1>1. \A i \in Job : pc'[i] = "gateWait" <=> pc[i] = "gateWait"
  BY DEF TypeOK, GoTo, At
<1> QED
  BY <1>1, QueueKept

(* A thread joins the queue. *)
LEMMA QueueJoined ==
  ASSUME TypeOK, QueueCounted, NEW j \in Job, ~At(j, "gateWait"),
         GoTo(j, "gateWait"), waiters' = waiters + 1
  PROVE  QueueCounted'
<1>1. InQueue' = InQueue \cup {j} /\ j \notin InQueue
  BY DEF TypeOK, GoTo, At, InQueue
<1>2. IsFiniteSet(InQueue \cup {j}) /\ Cardinality(InQueue \cup {j}) = Cardinality(InQueue) + 1
  BY <1>1, FS_AddElement DEF QueueCounted
<1> QED
  BY <1>1, <1>2 DEF QueueCounted

(* A thread leaves the queue, through the gate or cancelled. *)
LEMMA QueueLeft ==
  ASSUME TypeOK, QueueCounted, NEW j \in Job, At(j, "gateWait"),
         NEW loc, GoTo(j, loc), loc # "gateWait",
         waiters' = IF waiters > 0 THEN waiters - 1 ELSE 0
  PROVE  QueueCounted'
<1>1. InQueue' = InQueue \ {j} /\ j \in InQueue
  BY DEF TypeOK, GoTo, At, InQueue
<1>2. IsFiniteSet(InQueue \ {j}) /\ Cardinality(InQueue \ {j}) = Cardinality(InQueue) - 1
  BY <1>1, FS_RemoveElement DEF QueueCounted
<1>3. Cardinality(InQueue) # 0 /\ Cardinality(InQueue) \in Nat
  BY <1>1, FS_EmptySet, FS_CardinalityType DEF QueueCounted
<1> QED
  BY <1>1, <1>2, <1>3 DEF QueueCounted

(* Joining or passing by the queue on the way to a download. *)
LEMMA QueueStarts ==
  ASSUME TypeOK, QueueCounted, NEW j \in Job, ~At(j, "gateWait"), StartDownload(j)
  PROVE  QueueCounted'
<1>1. CASE j \in Conservative
  BY <1>1, QueueJoined DEF StartDownload, JoinConservativeQueue
<1>2. CASE j \notin Conservative
  BY <1>2, QueuePassed DEF StartDownload
<1> QED
  BY <1>1, <1>2

(* Every step keeps the count of the queue. *)
LEMMA StepQueue == TypeOK /\ QueueCounted /\ [Next]_vars => QueueCounted'
<1> SUFFICES ASSUME TypeOK, QueueCounted, [Next]_vars PROVE QueueCounted'
  OBVIOUS
<1>1. ASSUME NEW j \in Job, Begin(j) PROVE QueueCounted'
  <2>1. ~At(j, "gateWait")
    BY <1>1 DEF Begin, At
  <2>2. CASE StartDownload(j)
    BY <2>1, <2>2, QueueStarts
  <2>3. ASSUME NEW loc \in {"done", "waiting"}, GoTo(j, loc), UNCHANGED conservativeVars
        PROVE  QueueCounted'
    BY <2>1, <2>3, QueuePassed
  <2> QED
    BY <1>1, <2>2, <2>3 DEF Begin
<1>2. ASSUME NEW j \in Job, EnterGate(j) \/ LeaveQueue(j) PROVE QueueCounted'
  <2>1. PICK loc \in {"gateCooldown", "done"} : GoTo(j, loc)
    BY <1>2 DEF EnterGate, LeaveQueue
  <2>2. At(j, "gateWait") /\ waiters' = IF waiters > 0 THEN waiters - 1 ELSE 0
    BY <1>2 DEF EnterGate, LeaveQueue, TakeConservativeGate, LeaveConservativeQueue
  <2> QED
    BY <2>1, <2>2, QueueLeft
<1>3. ASSUME NEW j \in Job, PassGate(j) \/ LeaveGate(j) PROVE QueueCounted'
  <2>1. PICK loc \in {"waiting", "done"} : GoTo(j, loc)
    BY <1>3 DEF PassGate, LeaveGate
  <2>2. ~At(j, "gateWait") /\ UNCHANGED waiters
    BY <1>3 DEF PassGate, LeaveGate, DropConservativeGate, ReleaseConservativeGate, At
  <2> QED
    BY <2>1, <2>2, QueuePassed
<1>4. ASSUME NEW j \in Job,
             Admit(j) \/ GiveUpWaiting(j) \/ EnterResolution(j) \/ GiveUpPermit(j)
             \/ Start(j) \/ GoRound(j) \/ NetworkReturns(j) \/ Report(j)
      PROVE  QueueCounted'
  <2>1. PICK loc \in {"permitted", "returned", "slot", "inflight", "waiting", "reporting"} :
            GoTo(j, loc)
    BY <1>4 DEF Admit, GiveUpWaiting, EnterResolution, GiveUpPermit, Start, GoRound,
                NetworkReturns, Report
  <2>2. ~At(j, "gateWait") /\ UNCHANGED waiters
    BY <1>4 DEF Admit, GiveUpWaiting, EnterResolution, GiveUpPermit, Start, GoRound,
                NetworkReturns, Report, At
  <2> QED
    BY <2>1, <2>2, QueuePassed
<1>5. ASSUME NEW j \in Job, Matched(j) PROVE QueueCounted'
  <2>1. ~At(j, "gateWait")
    BY <1>5 DEF Matched, At
  <2>2. CASE StartDownload(j)
    BY <2>1, <2>2, QueueStarts
  <2>3. CASE GoTo(j, "done") /\ UNCHANGED conservativeVars
    BY <2>1, <2>3, QueuePassed
  <2> QED
    BY <1>5, <2>2, <2>3 DEF Matched
<1>6. ASSUME NEW j \in Job, Rematched(j) PROVE QueueCounted'
  <2>1. ~At(j, "gateWait") /\ UNCHANGED waiters
    BY <1>6 DEF Rematched, At
  <2>2. CASE GoTo(j, "waiting")
    BY <2>1, <2>2, QueuePassed
  <2>3. CASE UNCHANGED pc
    BY <2>1, <2>3, QueueKept
  <2> QED
    BY <1>6, <2>2, <2>3 DEF Rematched
<1>7. ASSUME NEW j \in Job, Settle(j) PROVE QueueCounted'
  <2>1. PICK loc \in {"waiting", "leaving", "done"} : GoTo(j, loc)
    BY <1>7 DEF Settle, Cancel, Succeed, AwaitCanary, Retry, Fail, AfterDownload
  <2>2. ~At(j, "gateWait") /\ UNCHANGED waiters
    BY <1>7 DEF Settle, At
  <2> QED
    BY <2>1, <2>2, QueuePassed
<1>8. ASSUME NEW j \in Job, CancelJob(j) PROVE QueueCounted'
  BY <1>8, QueueKept DEF CancelJob
<1>9. ASSUME NEW s \in Scope, ResolveIncident(s) PROVE QueueCounted'
  BY <1>9, QueueKept DEF ResolveIncident
<1>10. CASE RateCooldownOver \/ GateCooldownOver \/ Drained \/ UNCHANGED vars
  BY <1>10, QueueKept
  DEF RateCooldownOver, GateCooldownOver, ConservativeCooldownEnds, Drained, vars
<1> QED
  BY <1>1, <1>2, <1>3, <1>4, <1>5, <1>6, <1>7, <1>8, <1>9, <1>10 DEF Next, ThreadStep

(* Two jobs differ in both keys, and a match key is no download key. *)
LEMMA GateKeys ==
  ASSUME NEW i \in Job, NEW j \in Job
  PROVE  /\ <<"match", i>> # DownloadKey(j)
         /\ <<"match", i>> # NoOwner /\ DownloadKey(i) # NoOwner
         /\ i # j => <<"match", i>> # <<"match", j>> /\ DownloadKey(i) # DownloadKey(j)
  BY JobAssumption, KeyAssumption DEF DownloadKey

(* A step that leaves the resolution gate and its users alone. *)
LEMMA ResolutionKept ==
  ASSUME ResolutionHeld, UNCHANGED resolutionGate,
         \A i \in Job : stage'[i] \in {"match", "rematch"} /\ pc'[i] \in {"slot", "inflight"}
                        <=> stage[i] \in {"match", "rematch"} /\ pc[i] \in {"slot", "inflight"},
         TypeOK, TypeOK'
  PROVE  ResolutionHeld'
<1>1. \A i \in Job : /\ Resolving(i) <=> stage[i] \in {"match", "rematch"}
                     /\ Resolving(i)' <=> stage'[i] \in {"match", "rematch"}
  BY DEF TypeOK, Resolving
<1>2. \A i \in Job : (Resolving(i) /\ pc[i] \in {"slot", "inflight"})' <=>
                     (Resolving(i) /\ pc[i] \in {"slot", "inflight"})
  BY <1>1
<1>3. \A i \in Job : DownloadKey(i)' = DownloadKey(i)
  BY DEF DownloadKey
<1> QED
  BY <1>2, <1>3 DEF ResolutionHeld

(* A step of a thread that neither gets nor has the resolution gate. *)
LEMMA ResolutionPassed ==
  ASSUME ResolutionHeld, UNCHANGED resolutionGate, TypeOK, TypeOK', NEW j \in Job,
         pc[j] \notin {"slot", "inflight"} \/ ~Resolving(j),
         pc'[j] \notin {"slot", "inflight"} \/ stage'[j] = "download",
         \A i \in Job : i # j => pc'[i] = pc[i] /\ stage'[i] = stage[i]
  PROVE  ResolutionHeld'
<1>1. ASSUME NEW i \in Job
      PROVE  stage'[i] \in {"match", "rematch"} /\ pc'[i] \in {"slot", "inflight"}
               <=> stage[i] \in {"match", "rematch"} /\ pc[i] \in {"slot", "inflight"}
  <2>1. CASE i = j
    BY <2>1 DEF Resolving
  <2>2. CASE i # j
    BY <2>2
  <2> QED
    BY <2>1, <2>2
<1> QED
  BY <1>1, ResolutionKept

(* The match that holds the gate gives it back and leaves it. *)
LEMMA ResolutionReleased ==
  ASSUME ResolutionHeld, ReleaseResolutionGate, NEW j \in Job, Resolving(j), UNCHANGED stage,
         TypeOK, TypeOK', pc[j] \in {"slot", "inflight"}, NEW loc, GoTo(j, loc),
         loc \notin {"slot", "inflight"}
  PROVE  ResolutionHeld'
<1>1. resolutionGate' = NoOwner /\ resolutionGate = <<"match", j>>
  BY DEF ResolutionHeld, ReleaseResolutionGate
<1>2. \A i \in Job : i # j => pc'[i] = pc[i]
  BY DEF GoTo, TypeOK
<1>3. pc'[j] = loc
  BY DEF GoTo, TypeOK
<1>4. ASSUME NEW i \in Job PROVE ~(Resolving(i) /\ pc[i] \in {"slot", "inflight"})'
  <2>1. CASE i = j
    BY <2>1, <1>3
  <2>2. CASE i # j
    <3>1. ~(Resolving(i) /\ pc[i] \in {"slot", "inflight"})
      BY <1>1, <2>2, GateKeys DEF ResolutionHeld
    <3> QED
      BY <3>1, <2>2, <1>2 DEF Resolving
  <2> QED
    BY <2>1, <2>2
<1>5. \A i \in Job : <<"match", i>> # resolutionGate' /\ DownloadKey(i)' # resolutionGate'
  BY <1>1, GateKeys DEF DownloadKey
<1> QED
  BY <1>4, <1>5 DEF ResolutionHeld

(* Every step leaves the resolution gate with the match that is on its way. *)
LEMMA StepResolution == TypeOK /\ ResolutionHeld /\ [Next]_vars => ResolutionHeld'
<1> SUFFICES ASSUME TypeOK, ResolutionHeld, [Next]_vars PROVE ResolutionHeld'
  OBVIOUS
<1>t. TypeOK'
  BY StepTyped
<1>o. ASSUME NEW j \in Job, NEW loc, GoTo(j, loc)
      PROVE  pc'[j] = loc /\ \A i \in Job : i # j => pc'[i] = pc[i]
  BY <1>o DEF GoTo, TypeOK
<1>1. ASSUME NEW j \in Job,
             Begin(j) \/ EnterGate(j) \/ LeaveQueue(j) \/ PassGate(j) \/ LeaveGate(j)
      PROVE  ResolutionHeld'
  <2>1. PICK loc \in {"done", "waiting", "gateWait", "gateCooldown"} : GoTo(j, loc)
    BY <1>1 DEF Begin, StartDownload, EnterGate, LeaveQueue, PassGate, LeaveGate
  <2>2. UNCHANGED resolutionGate /\ pc[j] \notin {"slot", "inflight"}
    BY <1>1 DEF Begin, EnterGate, LeaveQueue, PassGate, LeaveGate, At
  <2>3. \A i \in Job : i # j => stage'[i] = stage[i]
    BY <1>1 DEF Begin, StartDownload, EnterGate, LeaveQueue, PassGate, LeaveGate, TypeOK
  <2> QED
    BY <2>1, <2>2, <2>3, <1>t, <1>o, ResolutionPassed
<1>2. ASSUME NEW j \in Job, Admit(j) \/ GiveUpWaiting(j) \/ GiveUpPermit(j) \/ Report(j)
      PROVE  ResolutionHeld'
  <2>1. PICK loc \in {"permitted", "returned", "waiting"} : GoTo(j, loc)
    BY <1>2 DEF Admit, GiveUpWaiting, GiveUpPermit, Report
  <2>2. UNCHANGED resolutionGate /\ pc[j] \notin {"slot", "inflight"}
    BY <1>2 DEF Admit, GiveUpWaiting, GiveUpPermit, Report, At
  <2>3. \A i \in Job : i # j => stage'[i] = stage[i]
    BY <1>2 DEF Admit, GiveUpWaiting, GiveUpPermit, Report, TypeOK
  <2> QED
    BY <2>1, <2>2, <2>3, <1>t, <1>o, ResolutionPassed
<1>3. ASSUME NEW j \in Job, EnterResolution(j) PROVE ResolutionHeld'
  <2>1. resolutionGate = NoOwner /\ resolutionGate' = <<"match", j>> /\ GoTo(j, "slot")
        /\ UNCHANGED stage /\ Resolving(j)
    BY <1>3 DEF EnterResolution, TakeResolutionGate, RequestKey, Resolving
  <2>2. ASSUME NEW i \in Job
        PROVE  /\ (resolutionGate = <<"match", i>>)' <=>
                    (Resolving(i) /\ pc[i] \in {"slot", "inflight"})'
               /\ (resolutionGate # DownloadKey(i))'
    <3>1. CASE i = j
      BY <3>1, <2>1, <1>o, GateKeys DEF Resolving, DownloadKey
    <3>2. CASE i # j
      <4>1. ~(Resolving(i) /\ pc[i] \in {"slot", "inflight"}) /\ pc'[i] = pc[i]
        BY <2>1, <3>2, <1>o, GateKeys DEF ResolutionHeld
      <4> QED
        BY <4>1, <2>1, <3>2, GateKeys DEF Resolving, DownloadKey
    <3> QED
      BY <3>1, <3>2
  <2> QED
    BY <2>2 DEF ResolutionHeld
<1>4. ASSUME NEW j \in Job, Start(j) PROVE ResolutionHeld'
  <2>1. GoTo(j, "inflight") /\ UNCHANGED <<resolutionGate, stage>>
        /\ (Resolving(j) => pc[j] = "slot")
    BY <1>4 DEF Start, At, coordinatorVars
  <2>2. ASSUME NEW i \in Job
        PROVE  stage'[i] \in {"match", "rematch"} /\ pc'[i] \in {"slot", "inflight"}
               <=> stage[i] \in {"match", "rematch"} /\ pc[i] \in {"slot", "inflight"}
    <3>1. CASE i = j
      BY <3>1, <2>1, <1>o DEF Resolving
    <3>2. CASE i # j
      BY <3>2, <2>1, <1>o
    <3> QED
      BY <3>1, <3>2
  <2> QED
    BY <2>1, <2>2, <1>t, ResolutionKept
<1>5. ASSUME NEW j \in Job, GoRound(j) \/ NetworkReturns(j) PROVE ResolutionHeld'
  <2>1. PICK loc \in {"waiting", "reporting"} : GoTo(j, loc)
    BY <1>5 DEF GoRound, NetworkReturns
  <2>2. UNCHANGED stage /\ (Resolving(j) => pc[j] \in {"slot", "inflight"})
    BY <1>5 DEF GoRound, NetworkReturns, At
  <2>3. CASE Resolving(j)
    <3>1. ReleaseResolutionGate
      BY <1>5, <2>3 DEF GoRound, NetworkReturns
    <3> QED
      BY <2>1, <2>2, <2>3, <3>1, <1>t, ResolutionReleased
  <2>4. CASE ~Resolving(j)
    <3>1. UNCHANGED resolutionGate
      BY <1>5, <2>4 DEF GoRound, NetworkReturns
    <3> QED
      BY <2>1, <2>2, <2>4, <3>1, <1>t, <1>o, ResolutionPassed
  <2> QED
    BY <2>3, <2>4
<1>6. ASSUME NEW j \in Job, Matched(j) \/ Rematched(j) \/ Settle(j) PROVE ResolutionHeld'
  <2>1. pc'[j] \in {"returned", "done", "waiting", "gateWait", "leaving"}
        /\ \A i \in Job : i # j => pc'[i] = pc[i] /\ stage'[i] = stage[i]
    BY <1>6 DEF Matched, StartDownload, Rematched, Settle, Cancel, Succeed, AwaitCanary, Retry,
                Fail, AfterDownload, GoTo, At, TypeOK
  <2>2. UNCHANGED resolutionGate /\ pc[j] \notin {"slot", "inflight"}
    BY <1>6 DEF Matched, Rematched, Settle, At, coordinatorVars
  <2> QED
    BY <2>1, <2>2, <1>t, ResolutionPassed
<1>7. ASSUME UNCHANGED <<resolutionGate, stage, pc>> PROVE ResolutionHeld'
  BY <1>7, <1>t, ResolutionKept
<1>8. ASSUME NEW j \in Job, CancelJob(j) PROVE ResolutionHeld'
  BY <1>7, <1>8 DEF CancelJob
<1>9. ASSUME NEW s \in Scope, ResolveIncident(s) PROVE ResolutionHeld'
  BY <1>7, <1>9 DEF ResolveIncident
<1>10. CASE RateCooldownOver \/ GateCooldownOver \/ Drained \/ UNCHANGED vars
  BY <1>7, <1>10 DEF RateCooldownOver, GateCooldownOver, Drained, vars
<1> QED
  BY <1>1, <1>2, <1>3, <1>4, <1>5, <1>6, <1>8, <1>9, <1>10 DEF Next, ThreadStep

(* A step of a thread that does not take the conservative gate; while it   *)
(* has it, it stays in its download.                                       *)
LEMMA ConservativePassed ==
  ASSUME ConservativeHeld, NEW j \in Job,
         conservativeGate' \in {conservativeGate, NoOwner},
         \A i \in Job : i # j => pc'[i] = pc[i] /\ stage'[i] = stage[i],
         conservativeGate' = DownloadKey(j) =>
            stage'[j] # "match" /\ pc'[j] \notin {"idle", "gateWait", "done"},
         pc'[j] = "gateWait" => j \in Conservative /\ stage'[j] = "download"
  PROVE  ConservativeHeld'
<1>1. ASSUME NEW i \in Job, conservativeGate' = DownloadKey(i)
      PROVE  i \in Conservative /\ stage'[i] # "match" /\ pc'[i] \notin {"idle", "gateWait", "done"}
  <2>1. conservativeGate = DownloadKey(i)
    BY <1>1, GateKeys
  <2>2. CASE i = j
    BY <2>1, <2>2, <1>1 DEF ConservativeHeld
  <2>3. CASE i # j
    BY <2>1, <2>3 DEF ConservativeHeld
  <2> QED
    BY <2>2, <2>3
<1>2. \A i \in Job : pc'[i] = "gateWait" => i \in Conservative /\ stage'[i] = "download"
  BY DEF ConservativeHeld, At
<1> QED
  BY <1>1, <1>2 DEF ConservativeHeld, DownloadKey, At

(* Every step leaves the conservative gate with a download. *)
LEMMA StepConservative == TypeOK /\ ConservativeHeld /\ [Next]_vars => ConservativeHeld'
<1> SUFFICES ASSUME TypeOK, ConservativeHeld, [Next]_vars PROVE ConservativeHeld'
  OBVIOUS
<1>o. ASSUME NEW j \in Job, NEW loc, GoTo(j, loc)
      PROVE  pc'[j] = loc /\ \A i \in Job : i # j => pc'[i] = pc[i]
  BY <1>o DEF GoTo, TypeOK
<1>h. ASSUME NEW j \in Job, conservativeGate = DownloadKey(j)
      PROVE  j \in Conservative /\ stage[j] # "match" /\ pc[j] \notin {"idle", "gateWait", "done"}
  BY <1>h DEF ConservativeHeld
<1>1. ASSUME NEW j \in Job, Begin(j) PROVE ConservativeHeld'
  <2>1. conservativeGate' = conservativeGate /\ conservativeGate # DownloadKey(j)
    BY <1>1, <1>h DEF Begin, StartDownload, JoinConservativeQueue, At, conservativeVars
  <2>2. \A i \in Job : i # j => pc'[i] = pc[i] /\ stage'[i] = stage[i]
    BY <1>1 DEF Begin, StartDownload, GoTo, TypeOK
  <2>3. pc'[j] = "gateWait" => j \in Conservative /\ stage'[j] = "download"
    BY <1>1 DEF Begin, StartDownload, GoTo, TypeOK
  <2> QED
    BY <2>1, <2>2, <2>3, ConservativePassed
<1>2. ASSUME NEW j \in Job, EnterGate(j) PROVE ConservativeHeld'
  <2>1. conservativeGate' = DownloadKey(j) /\ GoTo(j, "gateCooldown") /\ UNCHANGED stage
    BY <1>2 DEF EnterGate, TakeConservativeGate
  <2>2. j \in Conservative /\ stage[j] = "download"
    BY <1>2 DEF EnterGate, ConservativeHeld
  <2>3. \A i \in Job : i # j => conservativeGate' # DownloadKey(i)
    BY <2>1, GateKeys
  <2> QED
    BY <2>1, <2>2, <2>3, <1>o DEF ConservativeHeld, DownloadKey, At
<1>3. ASSUME NEW j \in Job, LeaveQueue(j) PROVE ConservativeHeld'
  <2>1. GoTo(j, "done") /\ UNCHANGED <<conservativeGate, stage>> /\ conservativeGate # DownloadKey(j)
    BY <1>3, <1>h DEF LeaveQueue, LeaveConservativeQueue, At
  <2> QED
    BY <2>1, <1>o, ConservativePassed
<1>4. ASSUME NEW j \in Job, PassGate(j) \/ LeaveGate(j) PROVE ConservativeHeld'
  <2>1. PICK loc \in {"waiting", "done"} :
            GoTo(j, loc) /\ (loc = "done" => conservativeGate' = NoOwner)
    BY <1>4 DEF PassGate, LeaveGate, DropConservativeGate, ReleaseConservativeGate
  <2>2. conservativeGate' \in {conservativeGate, NoOwner} /\ UNCHANGED stage
    BY <1>4 DEF PassGate, LeaveGate, DropConservativeGate, ReleaseConservativeGate,
                conservativeVars
  <2>3. conservativeGate' = DownloadKey(j) => stage'[j] # "match" /\ pc'[j] = "waiting"
    BY <2>1, <2>2, <1>o, <1>h, GateKeys
  <2> QED
    BY <2>1, <2>2, <2>3, <1>o, ConservativePassed
<1>5. ASSUME NEW j \in Job,
             Admit(j) \/ GiveUpWaiting(j) \/ EnterResolution(j) \/ GiveUpPermit(j)
             \/ Start(j) \/ GoRound(j) \/ NetworkReturns(j) \/ Report(j)
      PROVE  ConservativeHeld'
  <2>1. PICK loc \in {"permitted", "returned", "slot", "inflight", "waiting", "reporting"} :
            GoTo(j, loc)
    BY <1>5 DEF Admit, GiveUpWaiting, EnterResolution, GiveUpPermit, Start, GoRound,
                NetworkReturns, Report
  <2>2. /\ UNCHANGED conservativeGate
        /\ \A i \in Job : i # j => stage'[i] = stage[i]
        /\ stage[j] # "match" => stage'[j] # "match"
    BY <1>5 DEF Admit, GiveUpWaiting, EnterResolution, GiveUpPermit, Start, GoRound,
                NetworkReturns, Report, TypeOK, coordinatorVars, conservativeVars
  <2>3. conservativeGate = DownloadKey(j) => stage'[j] # "match"
    BY <2>2, <1>h
  <2> QED
    BY <2>1, <2>2, <2>3, <1>o, ConservativePassed
<1>6. ASSUME NEW j \in Job, Matched(j) PROVE ConservativeHeld'
  <2>1. conservativeGate' = conservativeGate /\ conservativeGate # DownloadKey(j)
    BY <1>6, <1>h DEF Matched, StartDownload, JoinConservativeQueue, conservativeVars
  <2>2. \A i \in Job : i # j => pc'[i] = pc[i] /\ stage'[i] = stage[i]
    BY <1>6 DEF Matched, StartDownload, GoTo, TypeOK
  <2>3. pc'[j] = "gateWait" => j \in Conservative /\ stage'[j] = "download"
    BY <1>6 DEF Matched, StartDownload, GoTo, TypeOK
  <2> QED
    BY <2>1, <2>2, <2>3, ConservativePassed
<1>7. ASSUME NEW j \in Job, Rematched(j) PROVE ConservativeHeld'
  <2>1. pc'[j] \in {"waiting", "returned"} /\ UNCHANGED conservativeGate
        /\ stage'[j] = "download"
        /\ \A i \in Job : i # j => pc'[i] = pc[i] /\ stage'[i] = stage[i]
    BY <1>7 DEF Rematched, GoTo, At, TypeOK, coordinatorVars, conservativeVars
  <2> QED
    BY <2>1, ConservativePassed
<1>8. ASSUME NEW j \in Job, Settle(j) PROVE ConservativeHeld'
  <2>1. PICK loc \in {"waiting", AfterDownload(j)} : GoTo(j, loc)
    BY <1>8 DEF Settle, Cancel, Succeed, AwaitCanary, Retry, Fail
  <2>2. loc # "gateWait" /\ (j \in Conservative => loc \in {"waiting", "leaving"})
    BY DEF AfterDownload
  <2>3. UNCHANGED <<conservativeGate, stage>>
    BY <1>8 DEF Settle, conservativeVars
  <2>4. conservativeGate' = DownloadKey(j) =>
            stage'[j] # "match" /\ pc'[j] \in {"waiting", "leaving"}
    BY <2>1, <2>2, <2>3, <1>h, <1>o
  <2>5. pc'[j] # "gateWait" /\ \A i \in Job : i # j => pc'[i] = pc[i]
    BY <2>1, <2>2, <1>o
  <2> QED
    BY <2>3, <2>4, <2>5, ConservativePassed
<1>9. ASSUME UNCHANGED <<conservativeGate, stage, pc>> PROVE ConservativeHeld'
  BY <1>9 DEF ConservativeHeld, DownloadKey, At
<1>10. ASSUME NEW j \in Job, CancelJob(j) PROVE ConservativeHeld'
  BY <1>9, <1>10 DEF CancelJob
<1>11. ASSUME NEW s \in Scope, ResolveIncident(s) PROVE ConservativeHeld'
  BY <1>9, <1>11 DEF ResolveIncident
<1>12. CASE RateCooldownOver \/ GateCooldownOver \/ Drained \/ UNCHANGED vars
  BY <1>9, <1>12 DEF RateCooldownOver, GateCooldownOver, ConservativeCooldownEnds, Drained, vars
<1> QED
  BY <1>1, <1>2, <1>3, <1>4, <1>5, <1>6, <1>7, <1>8, <1>10, <1>11, <1>12 DEF Next, ThreadStep

(* Every way out of a gate gives it back, and of the queue the place in    *)
(* it: the gates are held by threads between acquiring and releasing them, *)
(* and the waiters are counted, for any number of jobs.                    *)
THEOREM GatesGivenBack == Spec => []GatesAccounted
<1> DEFINE Inv == TypeOK /\ ResolutionHeld /\ ConservativeHeld /\ QueueCounted
<1>1. Init => Inv
  <2> SUFFICES ASSUME Init PROVE Inv
    OBVIOUS
  <2>1. /\ resolutionGate = NoOwner /\ conservativeGate = NoOwner /\ waiters = 0
        /\ \A j \in Job : pc[j] = "idle"
    BY DEF Init, CoordinatorInit
  <2>2. InQueue = {}
    BY <2>1 DEF InQueue, At
  <2> QED
    BY <2>1, <2>2, InitTyped, GateKeys, FS_EmptySet
       DEF ResolutionHeld, ConservativeHeld, QueueCounted, At
<1>2. Inv /\ [Next]_vars => Inv'
  BY StepTyped, StepResolution, StepConservative, StepQueue
<1>3. Inv => GatesAccounted
  <2> SUFFICES ASSUME Inv PROVE GatesAccounted
    OBVIOUS
  <2>1. ASSUME NEW j \in Job
        PROVE  resolutionGate = RequestKey(j) <=> Resolving(j) /\ pc[j] \in {"slot", "inflight"}
    BY DEF ResolutionHeld, RequestKey, Resolving, DownloadKey
  <2> QED
    BY <2>1 DEF GatesAccounted, ConservativeHeld, QueueCounted, InQueue
<1> QED
  BY <1>1, <1>2, <1>3, PTL DEF Spec

=============================================================================
