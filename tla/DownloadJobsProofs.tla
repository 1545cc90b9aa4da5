-------------------------- MODULE DownloadJobsProofs --------------------------
(***************************************************************************)
(* What holds of one batch for any jobs and bounds. The proofs follow the  *)
(* claim of a job: whoever is past the publish gate owns "terminal"        *)
(* (Gated), a published file or a report of it comes only from there       *)
(* (Filed), and what the controller has captured, "paused" owns (Holding). *)
(* Inv gathers these; Counted and Accounted rest on it, and say that every *)
(* terminal state was counted once, and that every thread that was told to *)
(* stop belongs to a job that is captured, over, or was refused a pause.   *)
(***************************************************************************)
EXTENDS DownloadJobs, TLAPS, FiniteSetTheorems

(* The file is in the output directory and the card does not say so yet. *)
Finishing == {"published", "finishing", "completing"}

(* Nothing happens to a job before run_batch has registered all of them.   *)
Early ==
    /\ main \in {"starting", "preparing"} =>
          held = NoJob /\ \A j \in Job : outcome[j] = "none" /\ pc[j] \in {"queued", "done"}
    /\ main = "starting" => \A j \in Job : state[j] = "QUEUED"
(* Nobody is past the gate, or reports an outcome, without the claim. *)
Gated == \A j \in Job : pc[j] \in Reporting => outcome[j] = "terminal"
(* A published file is being reported, or its job is over; no job completes
   without one. *)
Filed ==
    \A j \in Job : /\ pc[j] \in Finishing => file[j] = "published"
                   /\ file[j] = "published" => pc[j] \in Finishing \/ ~Live(j)
                   /\ state[j] = "COMPLETED" => file[j] = "published"
(* What is being or has been captured is owned by the pause. *)
Holding ==
    /\ held # NoJob => outcome[held] = "paused"
    /\ click = "cancelAll" => discarded
    /\ \A j \in Job : captured[j] # "none" /\ ~discarded => outcome[j] = "paused"
(* A job is over only after its thread has reported it, or all but counted. *)
Reported ==
    ~discarded => \A j \in Job : ~Live(j) => pc[j] \in {"returned", "leaving", "done"}
(* A job whose cancellation is still to be counted is cancelled. *)
Leaving == ~discarded => \A j \in Job : pc[j] = "leaving" => state[j] = "CANCELLED"
(* A resolver that was taken out of its request is running. *)
Requested == \A j \in Job : request[j] = "consumed" => j \in resolving

(* The state at the start of run_batch is well typed. *)
LEMMA InitTyped == Init => TypeOK
<1> SUFFICES ASSUME Init PROVE TypeOK
  OBVIOUS
<1> USE DEF Init
<1>1. pc \in [Job -> PCs] /\ tries \in [Job -> 0 .. MaxTries] /\ state \in [Job -> States]
  BY BoundAssumption DEF PCs, States
<1>2. request \in [Job -> Requests] /\ captured \in [Job -> Requests \cup {"none"}]
  BY DEF Requests
<1>3. outcome \in [Job -> {"none", "paused", "terminal"}]
      /\ file \in [Job -> {"workspace", "published"}]
  OBVIOUS
<1>4. owed = {} /\ due \in SUBSET Teller /\ saying \in SUBSET [by : Teller, count : Nat]
  OBVIOUS
<1>5. QED
  BY <1>1, <1>2, <1>3, <1>4 DEF TypeOK

(* Every step keeps every variable in its type. *)
LEMMA StepTyped == TypeOK /\ [Next]_vars => TypeOK'
<1> SUFFICES ASSUME TypeOK, [Next]_vars PROVE TypeOK'
  OBVIOUS
<1> USE DEF TypeOK, PCs, States, Terminal, Requests, Teller, GoTo, At, Becomes, Tell, Owes, Live, Busy,
         batchVars, threadVars, requestVars, stopVars, countVars, tellVars, uiVars
<1>1. ASSUME NEW j \in Job, NoticeStop(j) PROVE TypeOK'
  BY <1>1, BoundAssumption DEF NoticeStop, MarkCancelled
<1>2. ASSUME NEW j \in Job, ClaimCancelled(j) PROVE TypeOK'
  BY <1>2, BoundAssumption DEF ClaimCancelled, Claim, CanClaim
<1>3. ASSUME NEW j \in Job, NeverSubmitted(j) PROVE TypeOK'
  BY <1>3, BoundAssumption DEF NeverSubmitted
<1>4. ASSUME NEW j \in Job, Begin(j) PROVE TypeOK'
  BY <1>4, BoundAssumption DEF Begin
<1>5. ASSUME NEW j \in Job, MatchReturns(j) PROVE TypeOK'
  BY <1>5, BoundAssumption DEF MatchReturns
<1>6. ASSUME NEW j \in Job, RepairMatch(j) PROVE TypeOK'
  BY <1>6, BoundAssumption DEF RepairMatch
<1>7. ASSUME NEW j \in Job, SettleUnmatched(j) PROVE TypeOK'
  BY <1>7, BoundAssumption DEF SettleUnmatched, MarkCancelled
<1>8. ASSUME NEW j \in Job, StartEngine(j) PROVE TypeOK'
  BY <1>8, BoundAssumption DEF StartEngine, Ticks
<1>9. ASSUME NEW j \in Job, Progress(j) PROVE TypeOK'
  BY <1>9, BoundAssumption DEF Progress, Ticks
<1>10. ASSUME NEW j \in Job, EngineStops(j) PROVE TypeOK'
  BY <1>10, BoundAssumption DEF EngineStops, Aborts, Ticks
<1>11. ASSUME NEW j \in Job, EngineFails(j) PROVE TypeOK'
  BY <1>11, BoundAssumption DEF EngineFails
<1>12. ASSUME NEW j \in Job, FileReady(j) PROVE TypeOK'
  BY <1>12, BoundAssumption DEF FileReady, Advance
<1>13. ASSUME NEW j \in Job, CheckStop(j) PROVE TypeOK'
  BY <1>13, BoundAssumption DEF CheckStop, Advance
<1>14. ASSUME NEW j \in Job, CopyEnds(j) PROVE TypeOK'
  BY <1>14, BoundAssumption DEF CopyEnds, Advance
<1>15. ASSUME NEW j \in Job, AskGate(j) PROVE TypeOK'
  BY <1>15, BoundAssumption DEF AskGate, PassGate, Aborts, Ticks, Claim, CanClaim
<1>16. ASSUME NEW j \in Job, Rename(j) PROVE TypeOK'
  BY <1>16, BoundAssumption DEF Rename
<1>17. ASSUME NEW j \in Job, RenameFails(j) PROVE TypeOK'
  BY <1>17, BoundAssumption DEF RenameFails, Release
<1>18. ASSUME NEW j \in Job, OnFinished(j) PROVE TypeOK'
  BY <1>18, BoundAssumption DEF OnFinished, Claim, CanClaim, Completes
<1>19. ASSUME NEW j \in Job, Return(j) PROVE TypeOK'
  BY <1>19, BoundAssumption DEF Return
<1>20. ASSUME NEW j \in Job, Retry(j) PROVE TypeOK'
  BY <1>20, BoundAssumption DEF Retry
<1>21. ASSUME NEW j \in Job, OnError(j) PROVE TypeOK'
  BY <1>21, BoundAssumption DEF OnError, Claim, CanClaim
<1>22. CASE LookAtEngine
  BY <1>22 DEF LookAtEngine
<1>23. CASE Register
  BY <1>23 DEF Register
<1>24. CASE Drain
  BY <1>24 DEF Drain, Outstanding
<1>25. CASE ReportSwept
  <2>1. cancelled' \in Nat /\ due' \in SUBSET Teller
    <3> DEFINE gone == {j \in swept : outcome[j] # "paused"}
    <3>1. Cardinality(gone) \in Nat
      BY JobAssumption, FS_Subset, FS_CardinalityType
    <3>2. QED
      BY <1>25, <3>1 DEF ReportSwept
  <2>2. QED
    BY <1>25, <2>1 DEF ReportSwept
<1>26. CASE CleanUp
  BY <1>26 DEF CleanUp
<1>27. ASSUME NEW j \in Job, NoWorkspace(j) PROVE TypeOK'
  BY <1>27 DEF NoWorkspace
<1>28. ASSUME NEW j \in Job, Preexisting(j) PROVE TypeOK'
  BY <1>28 DEF Preexisting, Completes
<1>29. CASE Click
  <2>1. click' \in {"pause", "pauseAll", "cancelAll"} /\ todo' \in SUBSET Job
        /\ discarded' \in BOOLEAN
    BY <1>29 DEF Click
  <2>2. clicks' \in Nat
    BY <1>29 DEF Click
  <2>3. QED
    BY <1>29, <2>1, <2>2 DEF Click
<1>30. CASE SnapshotTake
  BY <1>30, NoJobAssumption DEF SnapshotTake, Snapshot
<1>31. CASE StopTrack
  BY <1>31, NoJobAssumption DEF StopTrack
<1>32. CASE ClickEnds
  BY <1>32, NoJobAssumption DEF ClickEnds, UIFree
<1>33. ASSUME NEW j \in Job, SnapshotClaim(j) PROVE TypeOK'
  BY <1>33 DEF SnapshotClaim, Claim, CanClaim, Registered, Pausing, UIFree
<1>34. ASSUME NEW j \in Job, SnapshotRefused(j) PROVE TypeOK'
  BY <1>34 DEF SnapshotRefused, UIFree
<1>35. ASSUME NEW j \in Job, AbandonPaused(j) PROVE TypeOK'
  BY <1>35 DEF AbandonPaused, Claim, UIFree
<1>36. ASSUME NEW who \in Teller, Compute(who) PROVE TypeOK'
  BY <1>36 DEF Compute
<1>37. ASSUME NEW m \in saying, Deliver(m) PROVE TypeOK'
  BY <1>37 DEF Deliver
<1>40. ASSUME NEW j \in Job, CountFinished(j) PROVE TypeOK'
  BY <1>40, BoundAssumption DEF CountFinished, CountAt, Count
<1>41. ASSUME NEW j \in Job, SettleFinished(j) PROVE TypeOK'
  BY <1>41, BoundAssumption DEF SettleFinished, SettleAt, Completes
<1>42. ASSUME NEW j \in Job, CountFailed(j) PROVE TypeOK'
  BY <1>42, BoundAssumption DEF CountFailed, CountAt, Count
<1>43. ASSUME NEW j \in Job, SettleFailed(j) PROVE TypeOK'
  BY <1>43, BoundAssumption DEF SettleFailed, SettleAt
<1>44. ASSUME NEW j \in Job, SettleCancelled(j) PROVE TypeOK'
  BY <1>44, BoundAssumption DEF SettleCancelled, SettleAt
<1>45. ASSUME NEW j \in Job, CountCancelled(j) PROVE TypeOK'
  BY <1>45, BoundAssumption DEF CountCancelled, CountAt, Count
<1>46. ASSUME NEW o \in owed, CountOwed(o) PROVE TypeOK'
  BY <1>46 DEF CountOwed, Count
<1>38. CASE UNCHANGED vars
  BY <1>38 DEF vars
<1>39. QED
  BY <1>1, <1>2, <1>3, <1>4, <1>5, <1>6, <1>7, <1>8, <1>9, <1>10, <1>11, <1>12, <1>13,
     <1>14, <1>15, <1>16, <1>17, <1>18, <1>19, <1>20, <1>21, <1>22, <1>23, <1>24, <1>25,
     <1>26, <1>27, <1>28, <1>29, <1>30, <1>31, <1>32, <1>33, <1>34, <1>35, <1>36, <1>37,
     <1>38, <1>40, <1>41, <1>42, <1>43, <1>44, <1>45, <1>46
     DEF Next, ThreadStep, BatchStep, UIStep, TellStep, Rest
(* The inductive invariant. *)
Inv == TypeOK /\ Early /\ Gated /\ Filed /\ Holding /\ Requested /\ ClaimNotLeaked /\ CapturedCanRun
       /\ PausedNotPublished /\ Reported /\ Leaving

(* It holds before anything has happened. *)
LEMMA InitInv == Init => Inv
<1> SUFFICES ASSUME Init PROVE Inv
  OBVIOUS
<1>1. TypeOK
  BY InitTyped
<1>2. \A j \in Job : /\ outcome[j] = "none" /\ pc[j] = "queued" /\ state[j] = "QUEUED"
                    /\ file[j] = "workspace" /\ request[j] # "consumed"
                    /\ captured[j] = "none"
  BY DEF Init
<1>3. QED
  BY <1>1, <1>2 DEF Init, Inv, Early, Reporting, Finishing, Gated, Filed, Holding, Requested,
     ClaimNotLeaked,
                    CapturedCanRun, PausedNotPublished, Reported, Leaving, Live, Terminal

(* Every step of thread, batch, UI and counter keeps it. *)
LEMMA StepInv == Inv /\ [Next]_vars => Inv'
<1> SUFFICES ASSUME Inv, [Next]_vars PROVE Inv'
  OBVIOUS
<1>0. TypeOK'
  BY StepTyped DEF Inv
<1> USE <1>0 DEF Inv, TypeOK, Early, Reporting, Finishing, Gated, Filed, Holding, Requested, ClaimNotLeaked, CapturedCanRun,
         PausedNotPublished, Reported, Leaving, Terminal, GoTo, At, Becomes, Live,
         batchVars, threadVars, requestVars, stopVars, countVars, tellVars, uiVars
<1>1. ASSUME NEW j \in Job, NoticeStop(j) PROVE Inv'
  BY <1>1 DEF NoticeStop, MarkCancelled, Polls
<1>2. ASSUME NEW j \in Job, ClaimCancelled(j) PROVE Inv'
  BY <1>2 DEF ClaimCancelled, Claim, CanClaim
<1>3. ASSUME NEW j \in Job, NeverSubmitted(j) PROVE Inv'
  BY <1>3 DEF NeverSubmitted
<1>4. ASSUME NEW j \in Job, Begin(j) PROVE Inv'
  BY <1>4 DEF Begin
<1>5. ASSUME NEW j \in Job, MatchReturns(j) PROVE Inv'
  BY <1>5 DEF MatchReturns
<1>6. ASSUME NEW j \in Job, RepairMatch(j) PROVE Inv'
  BY <1>6 DEF RepairMatch
<1>7. ASSUME NEW j \in Job, SettleUnmatched(j) PROVE Inv'
  BY <1>7 DEF SettleUnmatched, MarkCancelled
<1>8. ASSUME NEW j \in Job, StartEngine(j) PROVE Inv'
  BY <1>8 DEF StartEngine, Ticks
<1>9. ASSUME NEW j \in Job, Progress(j) PROVE Inv'
  BY <1>9 DEF Progress, Ticks
<1>10. ASSUME NEW j \in Job, EngineStops(j) PROVE Inv'
  BY <1>10 DEF EngineStops, Aborts, Ticks
<1>11. ASSUME NEW j \in Job, EngineFails(j) PROVE Inv'
  BY <1>11 DEF EngineFails
<1>12. ASSUME NEW j \in Job, FileReady(j) PROVE Inv'
  BY <1>12 DEF FileReady, Advance
<1>13. ASSUME NEW j \in Job, CheckStop(j) PROVE Inv'
  BY <1>13 DEF CheckStop, Advance
<1>14. ASSUME NEW j \in Job, CopyEnds(j) PROVE Inv'
  BY <1>14 DEF CopyEnds, Advance
<1>15. ASSUME NEW j \in Job, AskGate(j) PROVE Inv'
  BY <1>15 DEF AskGate, PassGate, Aborts, Ticks, Claim, CanClaim
<1>16. ASSUME NEW j \in Job, Rename(j) PROVE Inv'
  BY <1>16 DEF Rename
<1>17. ASSUME NEW j \in Job, RenameFails(j) PROVE Inv'
  BY <1>17 DEF RenameFails, Release
<1>18. ASSUME NEW j \in Job, OnFinished(j) PROVE Inv'
  BY <1>18 DEF OnFinished, Claim, CanClaim, Completes
<1>19. ASSUME NEW j \in Job, Return(j) PROVE Inv'
  BY <1>19 DEF Return
<1>20. ASSUME NEW j \in Job, Retry(j) PROVE Inv'
  BY <1>20 DEF Retry
<1>21. ASSUME NEW j \in Job, OnError(j) PROVE Inv'
  BY <1>21 DEF OnError, Claim, CanClaim
<1>22. CASE LookAtEngine
  BY <1>22 DEF LookAtEngine
<1>23. CASE Register
  BY <1>23 DEF Register
<1>24. CASE Drain
  BY <1>24 DEF Drain, Outstanding
<1>25. CASE ReportSwept
  BY <1>25 DEF ReportSwept
<1>26. CASE CleanUp
  BY <1>26 DEF CleanUp
<1>27. ASSUME NEW j \in Job, NoWorkspace(j) PROVE Inv'
  BY <1>27 DEF NoWorkspace
<1>28. ASSUME NEW j \in Job, Preexisting(j) PROVE Inv'
  BY <1>28 DEF Preexisting, Completes
<1>29. CASE Click
  BY <1>29, NoJobAssumption DEF Click, UIFree
<1>30. CASE SnapshotTake
  BY <1>30, NoJobAssumption DEF SnapshotTake, Snapshot, Requests
<1>31. CASE StopTrack
  BY <1>31, NoJobAssumption DEF StopTrack
<1>32. CASE ClickEnds
  BY <1>32, NoJobAssumption DEF ClickEnds, UIFree
<1>33. ASSUME NEW j \in Job, SnapshotClaim(j) PROVE Inv'
  BY <1>33, NoJobAssumption DEF SnapshotClaim, Claim, CanClaim, Registered, Pausing, UIFree
<1>34. ASSUME NEW j \in Job, SnapshotRefused(j) PROVE Inv'
  BY <1>34, NoJobAssumption DEF SnapshotRefused, UIFree
<1>35. ASSUME NEW j \in Job, AbandonPaused(j) PROVE Inv'
  BY <1>35, NoJobAssumption DEF AbandonPaused, Claim, UIFree
<1>36. ASSUME NEW who \in Teller, Compute(who) PROVE Inv'
  BY <1>36 DEF Compute
<1>37. ASSUME NEW m \in saying, Deliver(m) PROVE Inv'
  BY <1>37 DEF Deliver
<1>40. ASSUME NEW j \in Job, CountFinished(j) PROVE Inv'
  BY <1>40 DEF CountFinished, CountAt, Count
<1>41. ASSUME NEW j \in Job, SettleFinished(j) PROVE Inv'
  BY <1>41 DEF SettleFinished, SettleAt, Completes
<1>42. ASSUME NEW j \in Job, CountFailed(j) PROVE Inv'
  BY <1>42 DEF CountFailed, CountAt, Count
<1>43. ASSUME NEW j \in Job, SettleFailed(j) PROVE Inv'
  BY <1>43 DEF SettleFailed, SettleAt
<1>44. ASSUME NEW j \in Job, SettleCancelled(j) PROVE Inv'
  BY <1>44 DEF SettleCancelled, SettleAt
<1>45. ASSUME NEW j \in Job, CountCancelled(j) PROVE Inv'
  BY <1>45 DEF CountCancelled, CountAt, Count
<1>46. ASSUME NEW o \in owed, CountOwed(o) PROVE Inv'
  BY <1>46 DEF CountOwed, Count
<1>38. CASE UNCHANGED vars
  BY <1>38 DEF vars
<1>39. QED
  BY <1>1, <1>2, <1>3, <1>4, <1>5, <1>6, <1>7, <1>8, <1>9, <1>10, <1>11, <1>12, <1>13,
     <1>14, <1>15, <1>16, <1>17, <1>18, <1>19, <1>20, <1>21, <1>22, <1>23, <1>24, <1>25,
     <1>26, <1>27, <1>28, <1>29, <1>30, <1>31, <1>32, <1>33, <1>34, <1>35, <1>36, <1>37,
     <1>38, <1>40, <1>41, <1>42, <1>43, <1>44, <1>45, <1>46
     DEF Next, ThreadStep, BatchStep, UIStep, TellStep, Rest
(* So it holds for ever. *)
LEMMA Always == Spec => []Inv
BY InitInv, StepInv, PTL DEF Spec

(* Every reachable state of a batch is well typed. *)
THEOREM JobTypes == Spec => []TypeOK
<1>1. Inv => TypeOK
  BY DEF Inv
<1>2. QED
  BY <1>1, Always, PTL

(* A publish claim outlives no commit that did not happen                  *)
(* (_release_job_outcome): whoever has it is between its gate and report.  *)
THEOREM NoClaimLeaks == Spec => []ClaimNotLeaked
<1>1. Inv => ClaimNotLeaked
  BY DEF Inv
<1>2. QED
  BY <1>1, Always, PTL

(* A pause and a publish never both win a job (_claim_job_outcome).        *)
THEOREM PauseExcludesPublish == Spec => []PausedNotPublished
<1>1. Inv => PausedNotPublished
  BY DEF Inv
<1>2. QED
  BY <1>1, Always, PTL

(* No batch both finishes a track and offers to resume it.                 *)
THEOREM ResumeUnfinished == Spec => []ResumeIsUnfinished
<1>1. Inv => ResumeIsUnfinished
  BY DEF Inv, ResumeIsUnfinished, PausedNotPublished, Holding
<1>2. QED
  BY <1>1, Always, PTL

(* A snapshot taken in the middle of a match keeps its resolver            *)
(* (live_request_snapshot and its pre-resolve copy).                       *)
THEOREM CapturedRuns == Spec => []CapturedCanRun
<1>1. Inv => CapturedCanRun
  BY DEF Inv
<1>2. QED
  BY <1>1, Always, PTL

(* What is over stays so: the aggregator's update() leaves terminal states,
   and the two steps that write states without asking meet none. *)
LEMMA StepOver ==
    Inv /\ [Next]_vars =>
        \A j \in Job : /\ state[j] \in Terminal => state'[j] = state[j]
                       /\ state'[j] = "COMPLETED" => file'[j] = "published"
<1> SUFFICES ASSUME Inv, [Next]_vars, NEW j \in Job
             PROVE  /\ state[j] \in Terminal => state'[j] = state[j]
                    /\ state'[j] = "COMPLETED" => file'[j] = "published"
  OBVIOUS
<1>1. state'[j] = "COMPLETED" => file'[j] = "published"
  BY StepInv DEF Inv, Filed
<1>2. ASSUME state[j] \in Terminal PROVE state'[j] = state[j]
  <2> USE <1>2 DEF Becomes, Inv, TypeOK
  <2>1. ASSUME NEW k \in Job, ThreadStep(k) PROVE state'[j] = state[j]
    <3>1. CASE StartEngine(k) \/ Progress(k) \/ EngineStops(k) \/ AskGate(k)
      BY <3>1 DEF StartEngine, Progress, EngineStops, AskGate, PassGate, Aborts, Ticks
    <3>2. CASE SettleCancelled(k) \/ SettleFinished(k) \/ SettleFailed(k)
      BY <3>2 DEF SettleCancelled, SettleFinished, SettleFailed, Completes
    <3>3. CASE NoticeStop(k) \/ SettleUnmatched(k)
      BY <3>3 DEF NoticeStop, SettleUnmatched, MarkCancelled
    <3>4. CASE \/ NeverSubmitted(k) \/ Begin(k) \/ MatchReturns(k) \/ RepairMatch(k)
               \/ EngineFails(k) \/ FileReady(k) \/ CheckStop(k) \/ CopyEnds(k)
               \/ Rename(k) \/ RenameFails(k) \/ Return(k) \/ Retry(k)
      BY <3>4 DEF NeverSubmitted, Begin, MatchReturns, RepairMatch, EngineFails, FileReady,
                  CheckStop, CopyEnds, Advance, Rename, RenameFails, Return, Retry
    <3>5. CASE \/ ClaimCancelled(k) \/ OnFinished(k) \/ OnError(k)
               \/ CountCancelled(k) \/ CountFinished(k) \/ CountFailed(k)
      BY <3>5 DEF ClaimCancelled, OnFinished, OnError, CountCancelled, CountFinished,
                  CountFailed, CountAt
    <3>6. QED
      BY <2>1, <3>1, <3>2, <3>3, <3>4, <3>5 DEF ThreadStep
  <2>2. CASE BatchStep
    <3>1. CASE LookAtEngine
      BY <3>1 DEF LookAtEngine, Early, Terminal
    <3>2. CASE Drain
      BY <3>2 DEF Drain, Outstanding
    <3>3. CASE \E k \in Job : NoWorkspace(k) \/ Preexisting(k)
      BY <3>3 DEF NoWorkspace, Preexisting, Completes
    <3>4. CASE Register \/ ReportSwept \/ CleanUp
      BY <3>4 DEF Register, ReportSwept, CleanUp
    <3>5. QED
      BY <2>2, <3>1, <3>2, <3>3, <3>4 DEF BatchStep
  <2>3. CASE UIStep
    <3>1. CASE SnapshotTake
      BY <3>1 DEF SnapshotTake
    <3>2. CASE \E k \in Job : AbandonPaused(k)
      BY <3>2 DEF AbandonPaused
    <3>3. CASE Click \/ StopTrack \/ ClickEnds
               \/ \E k \in Job : SnapshotClaim(k) \/ SnapshotRefused(k)
      BY <3>3 DEF Click, StopTrack, ClickEnds, SnapshotClaim, SnapshotRefused
    <3>4. QED
      BY <2>3, <3>1, <3>2, <3>3 DEF UIStep
  <2>4. CASE TellStep \/ Rest \/ UNCHANGED vars
    BY <2>4 DEF TellStep, Compute, Deliver, CountOwed, Rest, vars
  <2>5. QED
    BY <2>1, <2>2, <2>3, <2>4 DEF Next
<1>3. QED
  BY <1>1, <1>2

(* A terminal state is final, and a completed job is published.            *)
THEOREM OverStays == Spec => OverIsOver
<1>1. Inv /\ [Next]_vars => [\A j \in Job :
          /\ state[j] \in Terminal => state'[j] = state[j]
          /\ state'[j] = "COMPLETED" => file'[j] = "published"]_vars
  BY StepOver
<1>2. QED
  BY <1>1, Always, PTL DEF Spec, OverIsOver
(* The jobs the counter of s stands for: a finished or failed job is counted
   before the aggregator is told, a cancelled one after. *)
Of(s) ==
    {j \in Job : CASE s = "COMPLETED" -> state[j] = s \/ pc[j] = "completing"
                   [] s = "FAILED"    -> state[j] = s \/ pc[j] = "lost"
                   [] OTHER           -> state[j] = s /\ pc[j] # "leaving"}
(* What run_batch has settled and is about to count. *)
Pending(s) == IF [by |-> "main", what |-> s] \in owed THEN 1 ELSE 0
(* Counters and states, whoever is between the two. *)
Counted ==
    ~discarded /\ main \in {"starting", "preparing", "running", "cleaning"} =>
        /\ owed \subseteq [by : {"main"}, what : {"COMPLETED", "FAILED"}]
        /\ completed + Pending("COMPLETED") = Cardinality(Of("COMPLETED"))
        /\ failed + Pending("FAILED") = Cardinality(Of("FAILED"))
        /\ cancelled = Cardinality(Of("CANCELLED"))

(* A job that joins those of s is one more of them. *)
LEMMA OneMore ==
    ASSUME NEW j \in Job, NEW s, j \notin Of(s), Of(s)' = Of(s) \cup {j}
    PROVE  Cardinality(Of(s)') = Cardinality(Of(s)) + 1
<1>1. IsFiniteSet(Of(s))
  BY JobAssumption, FS_Subset DEF Of
<1>2. QED
  BY <1>1, FS_AddElement

(* Counted is about counters, debts and the three sets, and nothing else. *)
LEMMA CountedKept ==
    ASSUME Counted, UNCHANGED <<countVars, owed>>, ~discarded,
           main \in {"starting", "preparing", "running", "cleaning"},
           \A s \in Terminal : Of(s)' = Of(s)
    PROVE  Counted'
BY DEF Counted, Pending, Terminal, countVars

(* Nothing is over at the start, and nothing counted. *)
LEMMA InitCounted == Init => Counted
<1> SUFFICES ASSUME Init PROVE Counted
  OBVIOUS
<1>1. \A t \in Terminal : Of(t) = {}
  BY DEF Init, Terminal, Of
<1>2. \A t \in Terminal : Pending(t) = 0
  BY DEF Init, Pending
<1>3. QED
  BY <1>1, <1>2, FS_EmptySet DEF Init, Counted, Terminal

(* A tick or a pause, or a step between two locations at which nothing is
   counted, changes none of the three sets. *)
LEMMA NoneMore ==
    ASSUME TypeOK, NEW j \in Job, NEW loc \in PCs \ {"completing", "lost", "leaving"},
           pc[j] \notin {"completing", "lost", "leaving"},
           UNCHANGED pc \/ GoTo(j, loc),
           UNCHANGED state \/ \E s \in {"ACTIVE", "PAUSED"} : Becomes(j, s)
    PROVE  \A t \in Terminal : Of(t)' = Of(t)
<1>1. \A k \in Job, l \in {"completing", "lost", "leaving"} : pc'[k] = l <=> pc[k] = l
  BY DEF TypeOK, GoTo
<1>2. \A k \in Job, t \in Terminal : state'[k] = t <=> state[k] = t
  BY DEF TypeOK, Becomes, Terminal
<1>3. QED
  BY <1>1, <1>2 DEF Of, Terminal

(* Every step counts what it ends, and nothing twice. *)
LEMMA StepCounted == Inv /\ Counted /\ [Next]_vars => Counted'
<1> SUFFICES ASSUME Inv, Counted, [Next]_vars, ~discarded',
                    main' \in {"starting", "preparing", "running", "cleaning"}
             PROVE  Counted'
  BY DEF Counted
<1>a. TypeOK
  BY DEF Inv
<1>b. ASSUME UNCHANGED <<countVars, owed, state, pc>>, ~discarded,
             main \in {"starting", "preparing", "running", "cleaning"}
      PROVE  Counted'
  <2>1. \A t \in Terminal : Of(t)' = Of(t)
    BY <1>b DEF Of
  <2>2. QED
    BY <1>b, <2>1, CountedKept
<1>1. ASSUME NEW j \in Job, ThreadStep(j) PROVE Counted'
  <2>0. UNCHANGED <<main, discarded, owed>>
    BY <1>1 DEF ThreadStep, NoticeStop, MarkCancelled, ClaimCancelled, NeverSubmitted, Begin,
                MatchReturns, RepairMatch, SettleUnmatched, StartEngine, Progress, EngineStops,
                EngineFails, FileReady, CheckStop, CopyEnds, Advance, AskGate, Rename,
                RenameFails, OnFinished, Return, Retry, OnError, CountFinished, SettleFinished,
                CountFailed, SettleFailed, SettleCancelled, CountCancelled, CountAt, SettleAt,
                batchVars, tellVars, uiVars
  <2>a. /\ ~discarded /\ main \in {"starting", "preparing", "running", "cleaning"}
        /\ \A s : Pending(s)' = Pending(s)
    BY <2>0 DEF Pending
  <2>b. ASSUME UNCHANGED countVars, pc[j] \notin {"completing", "lost", "leaving"},
               NEW loc \in PCs \ {"completing", "lost", "leaving"},
               UNCHANGED pc \/ GoTo(j, loc),
               UNCHANGED state \/ \E s \in {"ACTIVE", "PAUSED"} : Becomes(j, s)
        PROVE  Counted'
    <3>1. \A t \in Terminal : Of(t)' = Of(t)
      BY <1>a, <2>b, NoneMore
    <3>2. QED
      BY <2>0, <2>a, <2>b, <3>1, CountedKept
  <2>1. CASE StartEngine(j) \/ Progress(j) \/ EngineStops(j) \/ AskGate(j)
    BY <2>1, <2>b DEF StartEngine, Progress, EngineStops, AskGate, PassGate, Aborts, Ticks,
                      At, PCs, threadVars, countVars
  <2>2. CASE ClaimCancelled(j) \/ OnFinished(j) \/ OnError(j)
    BY <2>2, <2>b DEF ClaimCancelled, OnFinished, OnError, At, PCs
  <2>3. CASE NoticeStop(j) \/ SettleUnmatched(j)
    BY <2>3, <2>b DEF NoticeStop, SettleUnmatched, MarkCancelled, At, PCs, Polls
  <2>4. CASE \/ NeverSubmitted(j) \/ Begin(j) \/ MatchReturns(j) \/ RepairMatch(j)
             \/ EngineFails(j) \/ FileReady(j) \/ CheckStop(j) \/ CopyEnds(j)
    BY <2>4, <2>b DEF NeverSubmitted, Begin, MatchReturns, RepairMatch, EngineFails, FileReady,
                      CheckStop, CopyEnds, Advance, At, PCs
  <2>5. CASE Rename(j) \/ RenameFails(j) \/ Return(j) \/ Retry(j)
    BY <2>5, <2>b DEF Rename, RenameFails, Return, Retry, At, PCs
  <2>6. CASE CountFinished(j)
    <3>1. pc[j] = "finishing" /\ pc' = [pc EXCEPT ![j] = "completing"] /\ UNCHANGED state
      BY <2>6 DEF CountFinished, CountAt, At, GoTo
    <3>2. Live(j)
      BY <2>a, <3>1 DEF Inv, Reported
    <3>3. j \notin Of("COMPLETED") /\ Of("COMPLETED")' = Of("COMPLETED") \cup {j}
      BY <1>a, <3>1, <3>2 DEF Of, TypeOK, Live, Terminal
    <3>4. Of("FAILED")' = Of("FAILED") /\ Of("CANCELLED")' = Of("CANCELLED")
      BY <1>a, <3>1, <3>2 DEF Of, TypeOK, Live, Terminal
    <3>5. completed' = completed + 1 /\ UNCHANGED <<failed, cancelled>>
      BY <2>6 DEF CountFinished, CountAt, Count
    <3>6. completed \in Nat /\ Pending("COMPLETED") \in Nat
      BY <1>a DEF TypeOK, Pending
    <3>7. QED
      BY <2>0, <2>a, <3>3, <3>4, <3>5, <3>6, OneMore DEF Counted
  <2>7. CASE SettleFinished(j)
    <3>1. pc[j] = "completing" /\ pc' = [pc EXCEPT ![j] = "returned"]
      BY <2>7 DEF SettleFinished, SettleAt, At, GoTo
    <3>2. Live(j)
      BY <2>a, <3>1 DEF Inv, Reported
    <3>3. state' = [state EXCEPT ![j] = "COMPLETED"]
      BY <2>7, <3>2 DEF SettleFinished, Completes, Becomes, Live
    <3>4. \A t \in Terminal : Of(t)' = Of(t)
      BY <1>a, <3>1, <3>2, <3>3 DEF Of, TypeOK, Live, Terminal
    <3>5. UNCHANGED countVars
      BY <2>7 DEF SettleFinished, SettleAt
    <3>6. QED
      BY <2>0, <2>a, <3>4, <3>5, CountedKept
  <2>8. CASE CountFailed(j)
    <3>1. pc[j] = "losing" /\ pc' = [pc EXCEPT ![j] = "lost"] /\ UNCHANGED state
      BY <2>8 DEF CountFailed, CountAt, At, GoTo
    <3>2. Live(j)
      BY <2>a, <3>1 DEF Inv, Reported
    <3>3. j \notin Of("FAILED") /\ Of("FAILED")' = Of("FAILED") \cup {j}
      BY <1>a, <3>1, <3>2 DEF Of, TypeOK, Live, Terminal
    <3>4. Of("COMPLETED")' = Of("COMPLETED") /\ Of("CANCELLED")' = Of("CANCELLED")
      BY <1>a, <3>1, <3>2 DEF Of, TypeOK, Live, Terminal
    <3>5. failed' = failed + 1 /\ UNCHANGED <<completed, cancelled>>
      BY <2>8 DEF CountFailed, CountAt, Count
    <3>6. failed \in Nat /\ Pending("FAILED") \in Nat
      BY <1>a DEF TypeOK, Pending
    <3>7. QED
      BY <2>0, <2>a, <3>3, <3>4, <3>5, <3>6, OneMore DEF Counted
  <2>9. CASE SettleFailed(j)
    <3>1. pc[j] = "lost" /\ pc' = [pc EXCEPT ![j] = "done"]
      BY <2>9 DEF SettleFailed, SettleAt, At, GoTo
    <3>2. Live(j)
      BY <2>a, <3>1 DEF Inv, Reported
    <3>3. state' = [state EXCEPT ![j] = "FAILED"]
      BY <2>9, <3>2 DEF SettleFailed, Becomes, Live
    <3>4. \A t \in Terminal : Of(t)' = Of(t)
      BY <1>a, <3>1, <3>2, <3>3 DEF Of, TypeOK, Live, Terminal
    <3>5. UNCHANGED countVars
      BY <2>9 DEF SettleFailed, SettleAt
    <3>6. QED
      BY <2>0, <2>a, <3>4, <3>5, CountedKept
  <2>10. CASE SettleCancelled(j)
    <3>1. pc[j] = "cancelling" /\ pc' = [pc EXCEPT ![j] = "leaving"]
      BY <2>10 DEF SettleCancelled, SettleAt, At, GoTo
    <3>2. Live(j)
      BY <2>a, <3>1 DEF Inv, Reported
    <3>3. state' = [state EXCEPT ![j] = "CANCELLED"]
      BY <2>10, <3>2 DEF SettleCancelled, Becomes, Live
    <3>4. \A t \in Terminal : Of(t)' = Of(t)
      BY <1>a, <3>1, <3>2, <3>3 DEF Of, TypeOK, Live, Terminal
    <3>5. UNCHANGED countVars
      BY <2>10 DEF SettleCancelled, SettleAt
    <3>6. QED
      BY <2>0, <2>a, <3>4, <3>5, CountedKept
  <2>11. CASE CountCancelled(j)
    <3>1. pc[j] = "leaving" /\ pc' = [pc EXCEPT ![j] = "done"] /\ UNCHANGED state
      BY <2>11 DEF CountCancelled, CountAt, At, GoTo
    <3>2. state[j] = "CANCELLED"
      BY <2>a, <3>1 DEF Inv, Leaving
    <3>3. j \notin Of("CANCELLED") /\ Of("CANCELLED")' = Of("CANCELLED") \cup {j}
      BY <1>a, <3>1, <3>2 DEF Of, TypeOK
    <3>4. Of("COMPLETED")' = Of("COMPLETED") /\ Of("FAILED")' = Of("FAILED")
      BY <1>a, <3>1, <3>2 DEF Of, TypeOK
    <3>5. cancelled' = cancelled + 1 /\ UNCHANGED <<completed, failed>>
      BY <2>11 DEF CountCancelled, CountAt, Count
    <3>6. cancelled \in Nat
      BY <1>a DEF TypeOK
    <3>7. QED
      BY <2>0, <2>a, <3>3, <3>4, <3>5, <3>6, OneMore DEF Counted
  <2>12. QED
    BY <1>1, <2>1, <2>2, <2>3, <2>4, <2>5, <2>6, <2>7, <2>8, <2>9, <2>10, <2>11 DEF ThreadStep
<1>2. CASE BatchStep
  <2>1. CASE LookAtEngine
    BY <1>b, <2>1 DEF LookAtEngine, uiVars, tellVars
  <2>2. CASE Register
    BY <1>b, <2>2 DEF Register, threadVars, uiVars, tellVars
  <2>3. CASE Drain
    BY <1>b, <2>3 DEF Drain, threadVars, uiVars, tellVars
  <2>4. CASE ReportSwept \/ CleanUp
    BY <2>4 DEF ReportSwept, CleanUp
  <2>5. ASSUME NEW j \in Job, NoWorkspace(j) PROVE Counted'
    <3>1. /\ Live(j) /\ ~discarded /\ main = "preparing" /\ UNCHANGED <<main, countVars>>
          /\ pc[j] = "queued" /\ pc' = [pc EXCEPT ![j] = "done"]
          /\ owed' = owed \cup {[by |-> "main", what |-> "FAILED"]}
          /\ \A o \in owed : o.by # "main"
      BY <2>5 DEF Inv, Reported, NoWorkspace, GoTo, Owes, Busy, batchVars, uiVars
    <3>2. state' = [state EXCEPT ![j] = "FAILED"]
      BY <2>5, <3>1 DEF NoWorkspace, Becomes, Live
    <3>3. j \notin Of("FAILED") /\ Of("FAILED")' = Of("FAILED") \cup {j}
      BY <1>a, <3>1, <3>2 DEF Of, TypeOK, Live, Terminal
    <3>4. Of("COMPLETED")' = Of("COMPLETED") /\ Of("CANCELLED")' = Of("CANCELLED")
      BY <1>a, <3>1, <3>2 DEF Of, TypeOK, Live, Terminal
    <3>5. /\ Pending("FAILED") = 0 /\ Pending("FAILED")' = 1
          /\ Pending("COMPLETED") = 0 /\ Pending("COMPLETED")' = 0
      BY <3>1 DEF Pending
    <3>6. completed \in Nat /\ failed \in Nat
      BY <1>a DEF TypeOK
    <3>7. owed' \subseteq [by : {"main"}, what : {"COMPLETED", "FAILED"}]
      BY <3>1 DEF Counted
    <3>8. failed + 1 = Cardinality(Of("FAILED")')
      BY <3>1, <3>3, <3>5, <3>6, OneMore DEF Counted
    <3>9. QED
      BY <3>1, <3>4, <3>5, <3>6, <3>7, <3>8 DEF Counted, countVars
  <2>6. ASSUME NEW j \in Job, Preexisting(j) PROVE Counted'
    <3>1. /\ Live(j) /\ ~discarded /\ main = "preparing" /\ UNCHANGED <<main, countVars>>
          /\ pc[j] = "queued" /\ pc' = [pc EXCEPT ![j] = "done"]
          /\ owed' = owed \cup {[by |-> "main", what |-> "COMPLETED"]}
          /\ \A o \in owed : o.by # "main"
      BY <2>6 DEF Inv, Reported, Preexisting, GoTo, Owes, Busy, batchVars, uiVars
    <3>2. state' = [state EXCEPT ![j] = "COMPLETED"]
      BY <2>6, <3>1 DEF Preexisting, Completes, Becomes, Live
    <3>3. j \notin Of("COMPLETED") /\ Of("COMPLETED")' = Of("COMPLETED") \cup {j}
      BY <1>a, <3>1, <3>2 DEF Of, TypeOK, Live, Terminal
    <3>4. Of("FAILED")' = Of("FAILED") /\ Of("CANCELLED")' = Of("CANCELLED")
      BY <1>a, <3>1, <3>2 DEF Of, TypeOK, Live, Terminal
    <3>5. /\ Pending("COMPLETED") = 0 /\ Pending("COMPLETED")' = 1
          /\ Pending("FAILED") = 0 /\ Pending("FAILED")' = 0
      BY <3>1 DEF Pending
    <3>6. completed \in Nat /\ failed \in Nat
      BY <1>a DEF TypeOK
    <3>7. owed' \subseteq [by : {"main"}, what : {"COMPLETED", "FAILED"}]
      BY <3>1 DEF Counted
    <3>8. completed + 1 = Cardinality(Of("COMPLETED")')
      BY <3>1, <3>3, <3>5, <3>6, OneMore DEF Counted
    <3>9. QED
      BY <3>1, <3>4, <3>5, <3>6, <3>7, <3>8 DEF Counted, countVars
  <2>7. QED
    BY <1>2, <2>1, <2>2, <2>3, <2>4, <2>5, <2>6 DEF BatchStep
<1>3. CASE UIStep
  <2>1. CASE SnapshotTake
    <3>1. /\ \A t \in Terminal, k \in Job : state'[k] = t <=> state[k] = t
          /\ UNCHANGED <<main, discarded, countVars, owed, pc>>
      BY <1>a, <2>1 DEF TypeOK, SnapshotTake, Becomes, Terminal, batchVars, threadVars, tellVars
    <3>2. \A t \in Terminal : Of(t)' = Of(t)
      BY <3>1 DEF Of, Terminal
    <3>3. QED
      BY <3>1, <3>2, CountedKept
  <2>2. CASE \E j \in Job : AbandonPaused(j)
    BY <2>2 DEF Inv, Holding, AbandonPaused
  <2>3. CASE Click \/ StopTrack \/ ClickEnds
             \/ \E j \in Job : SnapshotClaim(j) \/ SnapshotRefused(j)
    <3>1. UNCHANGED <<main, countVars, owed, state, pc>> /\ (~discarded' => ~discarded)
      BY <1>a, <2>3 DEF TypeOK, Click, StopTrack, ClickEnds, SnapshotClaim, SnapshotRefused,
                        batchVars, threadVars, tellVars
    <3>2. QED
      BY <1>b, <3>1
  <2>4. QED
    BY <1>3, <2>1, <2>2, <2>3 DEF UIStep
<1>4. ASSUME NEW o \in owed, CountOwed(o) PROVE Counted'
  <2>1. /\ ~discarded /\ main \in {"starting", "preparing", "running", "cleaning"}
        /\ UNCHANGED <<main, state, pc>> /\ owed' = owed \ {o} /\ Count(o.what)
    BY <1>4 DEF CountOwed, batchVars, threadVars, uiVars
  <2>2. \A t \in Terminal : Of(t)' = Of(t)
    BY <2>1 DEF Of
  <2>3. o = [by |-> "main", what |-> "COMPLETED"] \/ o = [by |-> "main", what |-> "FAILED"]
    BY <1>4, <2>1 DEF Counted
  <2>4. completed \in Nat /\ failed \in Nat /\ cancelled \in Nat
    BY <1>a DEF TypeOK
  <2>5. owed' \subseteq [by : {"main"}, what : {"COMPLETED", "FAILED"}]
    BY <2>1 DEF Counted
  <2>6. CASE o = [by |-> "main", what |-> "COMPLETED"]
    <3>1. /\ Pending("COMPLETED") = 1 /\ Pending("COMPLETED")' = 0
          /\ Pending("FAILED")' = Pending("FAILED")
          /\ completed' = completed + 1 /\ UNCHANGED <<failed, cancelled>>
      BY <1>4, <2>1, <2>6 DEF Pending, Count
    <3>2. QED
      BY <2>1, <2>2, <2>4, <2>5, <3>1 DEF Counted, Terminal
  <2>7. CASE o = [by |-> "main", what |-> "FAILED"]
    <3>1. /\ Pending("FAILED") = 1 /\ Pending("FAILED")' = 0
          /\ Pending("COMPLETED")' = Pending("COMPLETED")
          /\ failed' = failed + 1 /\ UNCHANGED <<completed, cancelled>>
      BY <1>4, <2>1, <2>7 DEF Pending, Count
    <3>2. QED
      BY <2>1, <2>2, <2>4, <2>5, <3>1 DEF Counted, Terminal
  <2>8. QED
    BY <2>3, <2>6, <2>7
<1>5. CASE (\E who \in Teller : Compute(who)) \/ (\E m \in saying : Deliver(m))
  BY <1>b, <1>5 DEF Compute, Deliver, batchVars, threadVars, uiVars
<1>6. CASE Rest \/ UNCHANGED vars
  BY <1>b, <1>6 DEF Rest, vars, batchVars, threadVars, tellVars, uiVars
<1>7. QED
  BY <1>1, <1>2, <1>3, <1>4, <1>5, <1>6 DEF Next, TellStep

(* Whenever no thread is between the counter of a job and its state, the   *)
(* counters of the BatchResult are the states of the jobs, however claims, *)
(* reports, pauses, refusals and retries interleave.                       *)
THEOREM CountersAgree == Spec => []CountsAgree
<1>1. Inv /\ Counted => CountsAgree
  <2> SUFFICES ASSUME Inv, Counted, ~discarded, main \in {"preparing", "running", "cleaning"},
                      Unsettled = {}, owed = {}
               PROVE  /\ completed = Cardinality({j \in Job : state[j] = "COMPLETED"})
                      /\ failed = Cardinality({j \in Job : state[j] = "FAILED"})
                      /\ cancelled = Cardinality({j \in Job : state[j] = "CANCELLED"})
    BY DEF CountsAgree
  <2>1. \A j \in Job : pc[j] \notin {"completing", "lost", "leaving"}
    BY DEF Unsettled
  <2>2. \A s \in Terminal : Of(s) = {j \in Job : state[j] = s} /\ Pending(s) = 0
    BY <2>1 DEF Of, Pending, Terminal
  <2>3. completed \in Nat /\ failed \in Nat
    BY DEF Inv, TypeOK
  <2>4. QED
    BY <2>2, <2>3 DEF Counted, Terminal
<1>2. QED
  BY <1>1, InitInv, InitCounted, StepInv, StepCounted, PTL DEF Spec

(* Stopping the job costs the user nothing he was not told of. *)
Settled(j) ==
    \/ captured[j] # "none" /\ outcome[j] = "paused"
    \/ state[j] \in {"COMPLETED", "FAILED"}
    \/ j \in refused
(* Whatever is stopped, cancelled or done is settled, or just being captured.
   A pause of everything settles one job after the other before it stops them. *)
Accounted ==
    ~discarded =>
        /\ \A j \in Job : state[j] = "CANCELLED" \/ Stopped(j) => Settled(j)
        /\ \A j \in Job : pc[j] \in {"stopping", "cancelling", "leaving"} => Stopped(j)
        /\ \A j \in Job : pc[j] = "returned" => Stopped(j) \/ ~Live(j) \/ outcome[j] = "paused"
        /\ \A j \in Job : pc[j] = "done" => Settled(j) \/ outcome[j] = "paused"
        /\ click = "pauseAll" => \A j \in Job \ todo : Settled(j)
        /\ taken # NoJob => Settled(taken)
        /\ main \in {"sweeping", "cleaning", "finished"} => \A j \in Job : pc[j] = "done"

(* Nothing is stopped at the start. *)
LEMMA InitAccounted == Init => Accounted
BY DEF Init, Accounted, Stopped

(* Nothing is stopped before it is settled, and nothing is unsettled again. *)
LEMMA StepAccounted == Inv /\ Accounted /\ [Next]_vars => Accounted'
<1> SUFFICES ASSUME Inv, Accounted, [Next]_vars, ~discarded' PROVE Accounted'
  BY DEF Accounted
<1> USE DEF Inv, TypeOK, Early, Reporting, Finishing, Gated, Holding, PausedNotPublished, Reported, Settled, Accounted, Stopped,
         Terminal, GoTo, At, Becomes, Live,
         batchVars, threadVars, requestVars, stopVars, countVars, tellVars, uiVars
<1>1. ASSUME NEW j \in Job, NoticeStop(j) PROVE Accounted'
  BY <1>1 DEF NoticeStop, MarkCancelled, Polls
<1>2. ASSUME NEW j \in Job, ClaimCancelled(j) PROVE Accounted'
  BY <1>2 DEF ClaimCancelled, Claim, CanClaim
<1>3. ASSUME NEW j \in Job, NeverSubmitted(j) PROVE Accounted'
  BY <1>3 DEF NeverSubmitted
<1>4. ASSUME NEW j \in Job, Begin(j) PROVE Accounted'
  BY <1>4 DEF Begin
<1>5. ASSUME NEW j \in Job, MatchReturns(j) PROVE Accounted'
  BY <1>5 DEF MatchReturns
<1>6. ASSUME NEW j \in Job, RepairMatch(j) PROVE Accounted'
  BY <1>6 DEF RepairMatch
<1>7. ASSUME NEW j \in Job, SettleUnmatched(j) PROVE Accounted'
  BY <1>7 DEF SettleUnmatched, MarkCancelled
<1>8. ASSUME NEW j \in Job, StartEngine(j) PROVE Accounted'
  BY <1>8 DEF StartEngine, Ticks
<1>9. ASSUME NEW j \in Job, Progress(j) PROVE Accounted'
  BY <1>9 DEF Progress, Ticks
<1>10. ASSUME NEW j \in Job, EngineStops(j) PROVE Accounted'
  BY <1>10 DEF EngineStops, Aborts, Ticks
<1>11. ASSUME NEW j \in Job, EngineFails(j) PROVE Accounted'
  BY <1>11 DEF EngineFails
<1>12. ASSUME NEW j \in Job, FileReady(j) PROVE Accounted'
  BY <1>12 DEF FileReady, Advance
<1>13. ASSUME NEW j \in Job, CheckStop(j) PROVE Accounted'
  BY <1>13 DEF CheckStop, Advance
<1>14. ASSUME NEW j \in Job, CopyEnds(j) PROVE Accounted'
  BY <1>14 DEF CopyEnds, Advance
<1>15. ASSUME NEW j \in Job, AskGate(j) PROVE Accounted'
  BY <1>15 DEF AskGate, PassGate, Aborts, Ticks, Claim, CanClaim
<1>16. ASSUME NEW j \in Job, Rename(j) PROVE Accounted'
  BY <1>16 DEF Rename
<1>17. ASSUME NEW j \in Job, RenameFails(j) PROVE Accounted'
  BY <1>17 DEF RenameFails, Release
<1>18. ASSUME NEW j \in Job, OnFinished(j) PROVE Accounted'
  BY <1>18 DEF OnFinished, Claim, CanClaim, Completes
<1>19. ASSUME NEW j \in Job, Return(j) PROVE Accounted'
  BY <1>19 DEF Return
<1>20. ASSUME NEW j \in Job, Retry(j) PROVE Accounted'
  BY <1>20 DEF Retry
<1>21. ASSUME NEW j \in Job, OnError(j) PROVE Accounted'
  BY <1>21 DEF OnError, Claim, CanClaim
<1>22. CASE LookAtEngine
  BY <1>22 DEF LookAtEngine
<1>23. CASE Register
  BY <1>23 DEF Register
<1>24. CASE Drain
  BY <1>24 DEF Drain, Outstanding
<1>25. CASE ReportSwept
  BY <1>25 DEF ReportSwept
<1>26. CASE CleanUp
  BY <1>26 DEF CleanUp
<1>27. ASSUME NEW j \in Job, NoWorkspace(j) PROVE Accounted'
  BY <1>27 DEF NoWorkspace
<1>28. ASSUME NEW j \in Job, Preexisting(j) PROVE Accounted'
  BY <1>28 DEF Preexisting, Completes
<1>29. CASE Click
  BY <1>29, NoJobAssumption DEF Click, UIFree
<1>30. CASE SnapshotTake
  BY <1>30, NoJobAssumption DEF SnapshotTake, Snapshot, Requests
<1>31. CASE StopTrack
  BY <1>31, NoJobAssumption DEF StopTrack
<1>32. CASE ClickEnds
  BY <1>32, NoJobAssumption DEF ClickEnds, UIFree
<1>33. ASSUME NEW j \in Job, SnapshotClaim(j) PROVE Accounted'
  BY <1>33, NoJobAssumption DEF SnapshotClaim, Claim, CanClaim, Registered, Pausing, UIFree
<1>34. ASSUME NEW j \in Job, SnapshotRefused(j) PROVE Accounted'
  BY <1>34, NoJobAssumption DEF SnapshotRefused, UIFree
<1>35. ASSUME NEW j \in Job, AbandonPaused(j) PROVE Accounted'
  BY <1>35, NoJobAssumption DEF AbandonPaused, Claim, UIFree
<1>36. ASSUME NEW who \in Teller, Compute(who) PROVE Accounted'
  BY <1>36 DEF Compute
<1>37. ASSUME NEW m \in saying, Deliver(m) PROVE Accounted'
  BY <1>37 DEF Deliver
<1>40. ASSUME NEW j \in Job, CountFinished(j) PROVE Accounted'
  BY <1>40 DEF CountFinished, CountAt, Count
<1>41. ASSUME NEW j \in Job, SettleFinished(j) PROVE Accounted'
  BY <1>41 DEF SettleFinished, SettleAt, Completes
<1>42. ASSUME NEW j \in Job, CountFailed(j) PROVE Accounted'
  BY <1>42 DEF CountFailed, CountAt, Count
<1>43. ASSUME NEW j \in Job, SettleFailed(j) PROVE Accounted'
  BY <1>43 DEF SettleFailed, SettleAt
<1>44. ASSUME NEW j \in Job, SettleCancelled(j) PROVE Accounted'
  BY <1>44 DEF SettleCancelled, SettleAt
<1>45. ASSUME NEW j \in Job, CountCancelled(j) PROVE Accounted'
  BY <1>45 DEF CountCancelled, CountAt, Count
<1>46. ASSUME NEW o \in owed, CountOwed(o) PROVE Accounted'
  BY <1>46 DEF CountOwed, Count
<1>38. CASE UNCHANGED vars
  BY <1>38 DEF vars
<1>39. QED
  BY <1>1, <1>2, <1>3, <1>4, <1>5, <1>6, <1>7, <1>8, <1>9, <1>10, <1>11, <1>12, <1>13,
     <1>14, <1>15, <1>16, <1>17, <1>18, <1>19, <1>20, <1>21, <1>22, <1>23, <1>24, <1>25,
     <1>26, <1>27, <1>28, <1>29, <1>30, <1>31, <1>32, <1>33, <1>34, <1>35, <1>36, <1>37,
     <1>38, <1>40, <1>41, <1>42, <1>43, <1>44, <1>45, <1>46
     DEF Next, ThreadStep, BatchStep, UIStep, TellStep, Rest

(* Unless the user cancels everything, a job ends cancelled only if a pause *)
(* found it alive and could not capture it.                                *)
THEOREM OnlyRefusedCancelled == Spec => []CancelledOnlyIfRefused
<1>1. Inv /\ Accounted => CancelledOnlyIfRefused
  BY NoJobAssumption DEF Inv, Accounted, Settled, PausedNotPublished,
     CancelledOnlyIfRefused,
                         Quiet, UIFree
<1>2. QED
  BY <1>1, InitInv, InitAccounted, StepInv, StepAccounted, PTL DEF Spec
=============================================================================
