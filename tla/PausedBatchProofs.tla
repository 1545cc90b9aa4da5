--------------------------- MODULE PausedBatchProofs ---------------------------
(***************************************************************************)
(* Proofs about PausedBatch, for every set of cards and every number of    *)
(* workers.                                                                *)
(*                                                                         *)
(*  - PausedTypes: every variable keeps its type (TypeOK).                 *)
(*  - AllReached: pause, cancel and shutdown reach every worker that runs, *)
(*    but for one that ran when Download was clicked again                 *)
(*    (WorkersReachable).                                                  *)
(*  - SweepSpares: no start removes a workspace a record names.            *)
(*  - StoreAgrees: memory and store agree at rest (StoreMatches), unless a *)
(*    record is corrupted or a worker is slow to start.                    *)
(*  - PausedAreStopped: a paused job has been told to stop                 *)
(*    (PausedIsStopped), but for the astray ones: downloaded anew while    *)
(*    paused or running, or paused at a worker that is not their newest.   *)
(*                                                                         *)
(* Only StoreAgrees leaves out some of Ways, the switch by which the runs  *)
(* turn on the circumstances under which a property is known to fail.      *)
(***************************************************************************)
EXTENDS PausedBatch, Integers, TLAPS, WellFoundedInduction, SequenceTheorems

(* A set of naturals that is not empty has a least member: what the CHOOSE *)
(* of WorkerForKey picks.                                                  *)
LEMMA Least ==
  ASSUME NEW S, S \subseteq Nat, S # {}
  PROVE \E n \in S : \A m \in S : n <= m
<1> DEFINE R == {ss \in Nat \X Nat : ss[1] < ss[2]}
<1>0. IsWellFoundedOn(R, Nat)
  BY NatLessThanWellFounded DEF OpToRel
<1> HIDE DEF R
<1>1. \E n \in S : \A m \in S : ~(<<m, n>> \in R)
  BY <1>0, WFMin
<1>2. PICK n \in S : \A m \in S : <<m, n>> \notin R
  BY <1>1
<1>3. ASSUME NEW m \in S PROVE n <= m
  <2>1. <<m, n>> \in Nat \X Nat /\ <<m, n>>[1] = m /\ <<m, n>>[2] = n
    OBVIOUS
  <2>2. ~(m < n)
    BY <1>2, <2>1 DEF R
  <2>3. QED
    BY <2>1, <2>2
<1>4. QED
  BY <1>3

(* A set of numbers up to a bound has a greatest member: what the CHOOSE   *)
(* of Newest picks.                                                        *)
LEMMA Greatest ==
  ASSUME NEW N \in Nat, NEW S, S \subseteq 1 .. N, S # {}
  PROVE \E n \in S : \A m \in S : m <= n
<1> DEFINE T == {N - n : n \in S}
<1>1. T \subseteq Nat
  OBVIOUS
<1>9. T # {}
  OBVIOUS
<1>2. PICK t \in T : \A u \in T : t <= u
  BY <1>1, <1>9, Least
<1>3. PICK n \in S : t = N - n
  OBVIOUS
<1>4. QED
  BY <1>2, <1>3

(* Whatever a thread works on has a container: a worker gives one to each  *)
(* job that came without.                                                  *)
Housed == \A w \in Worker, j \in Job : Live(w, j) => dir[w][j] # None

(* all_finished comes from a worker whose run is over.                     *)
Queued == \A i \in 1 .. Len(posted) : phase[posted[i]] \in {"ended", "over"}

(* The values of a fate, and of a record of the store.                     *)
Fates == {"none", "open", "paused", "completed", "failed", "cancelled"}
Records == [dir : Container, card : {"none", "full", "bare"}, readable : BOOLEAN]

(* The inductive form of the type invariant.                               *)
Sound == TypeOK /\ Housed /\ Queued

(* Workers are numbered from 1, so None is none of them.                   *)
LEMMA Numbers == Worker \subseteq Container /\ None \in Container /\ None \notin Worker
                 /\ Container = Worker \cup {None}
BY MaxWorkersAssumption DEF Worker, Container, None

(* The worker _worker_for_key answers with is a current one that has the   *)
(* job.                                                                    *)
LEMMA AnswersFor ==
    ASSUME TypeOK, NEW j \in Job, WorkerForKey(j) # None
    PROVE  WorkerForKey(j) \in Current /\ j \in jobsOf[WorkerForKey(j)]
<1> DEFINE have == {w \in Current : j \in jobsOf[w]}
<1>1. have # {}
  BY DEF WorkerForKey
<1>2. have \subseteq Nat
  <2>1. Current \subseteq Worker
    BY Numbers DEF TypeOK, Current
  <2>2. Worker \subseteq Nat
    BY MaxWorkersAssumption DEF Worker
  <2>3. QED
    BY <2>1, <2>2
<1>3. \E w \in have : \A v \in have : w <= v
  BY <1>1, <1>2, Least
<1>4. WorkerForKey(j) = IF dl \in have THEN dl ELSE CHOOSE w \in have : \A v \in have : w <= v
  BY <1>1 DEF WorkerForKey
<1>5. WorkerForKey(j) \in have
  BY <1>3, <1>4
<1>6. QED
  BY <1>5

(* _worker_for_key answers with a worker or with nothing.                  *)
LEMMA WorkerTyped ==
    ASSUME TypeOK, NEW j \in Job
    PROVE  /\ WorkerForKey(j) \in Container
           /\ WorkerForKey(j) # None => WorkerForKey(j) \in Worker
<1>1. Current \subseteq Worker
  BY Numbers DEF TypeOK, Current
<1>2. QED
  BY <1>1, AnswersFor, Numbers

(* What _persist_paused_state writes is a table of records.                *)
LEMMA Saved ==
    ASSUME NEW requests \in [Job -> Container], NEW cards
    PROVE  Persisted(requests, cards) \in [Job -> Records]
BY Numbers DEF Persisted, NoRecord, Records

(* The application starts in a well-typed state.                           *)
LEMMA InitSound == Init => Sound
<1> SUFFICES ASSUME Init PROVE Sound
  OBVIOUS
<1>1. TypeOK
  <2>1. dir \in [Worker -> [Job -> Container]] /\ paused \in [Job -> Container]
    BY Numbers DEF Init, NoJobs
  <2>2. store \in [Job -> Records]
    BY Numbers DEF Init, NoRecord, Records
  <2>3. posted \in Seq(Worker)
    BY DEF Init
  <2>4. QED
    BY <2>1, <2>2, <2>3, Numbers DEF Init, TypeOK, Records
<1>2. QED
  BY <1>1 DEF Init, Sound, Housed, Queued, Live

(* The end of the process leaves a well-typed state.                       *)
LEMMA DeadTyped == ASSUME TypeOK, Dies PROVE Sound'
<1>1. phase' \in [Worker -> {"unborn", "scheduled", "running", "ended", "over"}]
  BY DEF TypeOK, Dies
<1>2. dir' \in [Worker -> [Job -> Container]] /\ paused' \in [Job -> Container]
  BY Numbers DEF Dies, NoJobs
<1>3. posted' \in Seq(Worker) /\ Len(posted') = 0
  BY DEF Dies
<1>4. /\ thread' \in [Worker -> [Job -> {"off", "waiting", "busy"}]]
      /\ fate' \in [Worker -> [Job -> Fates]]
      /\ \A w \in Worker, j \in Job : thread'[w][j] = "off"
  BY DEF Dies, Fates
<1>5. /\ jobsOf' \in [Worker -> SUBSET Job] /\ stop' \in [Worker -> SUBSET Job]
      /\ report' \in [Worker -> {"none", "completed", "cancelled"}]
      /\ UNCHANGED <<store, disk, published, owed>> /\ replaced' = {} /\ astray' = {}
      /\ engineStop' = FALSE /\ dl' = None /\ side' = {} /\ intent' = "none" /\ known' = {}
      /\ waitingFor' = None /\ closing' = FALSE /\ up' = FALSE
  BY DEF Dies
<1>6. TypeOK'
  BY <1>1, <1>2, <1>3, <1>4, <1>5, Numbers DEF TypeOK, Fates, historyVars
<1>7. QED
  BY <1>3, <1>4, <1>6 DEF Sound, Housed, Queued, Live

(* What _discard_paused_requests and the cancel that follows may change.   *)
LEMMA Discarded ==
    ASSUME TypeOK, DiscardAndStop
    PROVE  /\ paused' \in [Job -> Container] /\ intent' = "cancel" /\ engineStop' = TRUE
           /\ fate' \in [Worker -> [Job -> Fates]]
           /\ stop' \in [Worker -> SUBSET Job]
           /\ store' \in [Job -> Records]
           /\ disk' \subseteq disk
<1> USE DEF TypeOK
<1>1. paused' \in [Job -> Container] /\ intent' = "cancel"
  BY Numbers DEF DiscardAndStop, NoJobs
<1>2. fate' \in [Worker -> [Job -> Fates]]
  <2> DEFINE revoked == {j \in {i \in Job : paused[i] # None} :
                           CanSnapshot(WorkerForKey(j), j) /\ fate[WorkerForKey(j)][j] = "paused"}
  <2>1. fate' = [w \in Worker |-> [j \in Job |->
                     IF j \in revoked /\ WorkerForKey(j) = w THEN "cancelled" ELSE fate[w][j]]]
    BY DEF DiscardAndStop
  <2> HIDE DEF revoked
  <2>2. QED
    BY <2>1 DEF Fates
<1>3. stop' \in [Worker -> SUBSET Job] /\ engineStop' = TRUE
  BY DEF DiscardAndStop, StopAll
<1>4. store' \in [Job -> Records]
  <2>1. store' = store \/ store' = Persisted(paused', known)
    BY DEF DiscardAndStop
  <2>2. CASE store' = store
    BY <2>2 DEF Records
  <2>3. CASE store' = Persisted(paused', known)
    BY <1>1, <2>3, Saved
  <2>4. QED
    BY <2>1, <2>2, <2>3
<1>5. disk' \subseteq disk
  BY DEF DiscardAndStop
<1>6. QED
  BY <1>1, <1>2, <1>3, <1>4, <1>5

(* Every step keeps the types.                                             *)
LEMMA StepSound == Sound /\ [Next]_vars => Sound'
<1> SUFFICES ASSUME Sound, [Next]_vars PROVE Sound'
  OBVIOUS
<1> USE Numbers DEF Sound, TypeOK, Housed, Queued, Live, NoJobs, Fates, Records, workerVars,
                    batchVars, memoryVars, historyVars
<1>1. ASSUME NEW w \in Worker, RunStarts(w) PROVE Sound'
  <2>1. CASE engineStop
    <3>1. phase[w] = "scheduled" /\ phase' = [phase EXCEPT ![w] = "ended"]
          /\ posted' = Append(posted, w)
      BY <1>1, <2>1 DEF RunStarts
    <3>2. fate' \in [Worker -> [Job -> Fates]]
      <4> DEFINE g == [j \in Job |-> IF j \in jobsOf[w] THEN "cancelled" ELSE "none"]
      <4>1. g \in [Job -> Fates]
        OBVIOUS
      <4>2. fate' = [fate EXCEPT ![w] = g]
        BY <1>1, <2>1 DEF RunStarts
      <4>3. QED
        BY <4>1, <4>2
    <3>3. TypeOK'
      <4>1. /\ posted' \in Seq(Worker)
            /\ phase' \in [Worker -> {"unborn", "scheduled", "running", "ended", "over"}]
        BY <3>1, AppendProperties
      <4>2. UNCHANGED <<jobsOf, dir, thread, stop, engineStop, dl, side, intent, memoryVars,
                        store, disk, historyVars>>
            /\ report' \in [Worker -> {"none", "completed", "cancelled"}]
        BY <1>1, <2>1 DEF RunStarts
      <4>3. QED
        BY <3>1, <3>2, <4>1, <4>2
    <3>4. Housed'
      BY <1>1, <2>1 DEF RunStarts
    <3>5. Queued'
      BY <3>1, AppendProperties
    <3>6. QED
      BY <3>3, <3>4, <3>5
  <2>2. CASE ~engineStop
    <3>1. phase[w] = "scheduled" /\ phase' = [phase EXCEPT ![w] = "running"] /\ UNCHANGED posted
      BY <1>1, <2>2 DEF RunStarts
    <3>2. thread' = [thread EXCEPT ![w] = [j \in Job |-> IF j \in jobsOf[w] THEN "waiting" ELSE "off"]]
      BY <1>1, <2>2 DEF RunStarts
    <3>3. /\ dir' \in [Worker -> [Job -> Container]]
          /\ \A v \in Worker, j \in Job : dir'[v][j] # None \/ dir'[v][j] = dir[v][j]
          /\ \A j \in jobsOf[w] : dir'[w][j] # None
      <4> DEFINE g == [j \in Job |-> IF j \in jobsOf[w] /\ dir[w][j] = None THEN w ELSE dir[w][j]]
      <4>1. /\ g \in [Job -> Container]
            /\ \A j \in jobsOf[w] : g[j] # None
            /\ \A j \in Job : g[j] # None \/ g[j] = dir[w][j]
        OBVIOUS
      <4>2. dir' = [dir EXCEPT ![w] = g]
        BY <1>1, <2>2 DEF RunStarts
      <4>3. QED
        BY <4>1, <4>2
    <3>4. TypeOK'
      BY <1>1, <2>2, <3>1, <3>2, <3>3 DEF RunStarts
    <3>5. Housed'
      BY <3>2, <3>3
    <3>6. Queued'
      BY <3>1
    <3>7. QED
      BY <3>4, <3>5, <3>6
  <2>3. QED
    BY <2>1, <2>2
<1>2. ASSUME NEW w \in Worker, Drain(w) PROVE Sound'
  BY <1>2, AppendProperties DEF Drain, RunEnds, PoolDrained, Within
<1>3. ASSUME NEW w \in Worker, NEW j \in Job, Begin(w, j) PROVE Sound'
  BY <1>3 DEF Begin, Becomes
<1>4. ASSUME NEW w \in Worker, NEW j \in Job, Publish(w, j) PROVE Sound'
  BY <1>4 DEF Publish, Becomes
<1>5. ASSUME NEW w \in Worker, NEW j \in Job, Error(w, j) PROVE Sound'
  BY <1>5 DEF Error, Becomes
<1>6. ASSUME NEW w \in Worker, NEW j \in Job, Quit(w, j) PROVE Sound'
  BY <1>6 DEF Quit, Becomes
<1>7. ASSUME NEW S \in Selections, StartBatch(S) PROVE Sound'
  <2>1. TypeOK'
    <3>1. PICK w \in Worker : Launch(w, S, NoJobs) /\ dl' = w
      BY <1>7 DEF StartBatch
    <3>2. S \subseteq Job
      BY SelectionsAssumption
    <3>3. dir' \in [Worker -> [Job -> Container]] /\ jobsOf' \in [Worker -> SUBSET Job]
          /\ phase' = [phase EXCEPT ![w] = "scheduled"] /\ phase[w] = "unborn"
      BY <3>1, <3>2 DEF Launch
    <3>4. fate' \in [Worker -> [Job -> Fates]]
      BY <3>1 DEF Launch
    <3>5. \A v \in Worker, j \in Job :
            thread'[v][j] # "off" => phase'[v] = "running" /\ j \in jobsOf'[v]
      BY <3>1, <3>3 DEF Launch
    <3>6. UNCHANGED <<thread, stop, report, side, posted, closing, up, store, disk, owed>>
          /\ intent' = "none" /\ engineStop' = FALSE
          /\ known' \in SUBSET Job /\ published' \in SUBSET Job
          /\ replaced' \in SUBSET Worker /\ astray' \in SUBSET Job
          /\ paused' \in [Job -> Container]
          /\ dl' \in Container /\ waitingFor' \in Container
      BY <1>7, <3>1, <3>2, <3>3 DEF StartBatch, Launch, Running
    <3>7. QED
      BY <3>3, <3>4, <3>5, <3>6
  <2>2. Housed'
    BY <1>7, SelectionsAssumption DEF StartBatch, Launch
  <2>3. Queued'
    BY <1>7, SelectionsAssumption DEF StartBatch, Launch
  <2>4. QED
    BY <2>1, <2>2, <2>3
<1>8. ASSUME NEW j \in Job, PauseTrack(j) PROVE Sound'
  <2>1. TypeOK'
    <3>1. WorkerForKey(j) \in Worker
      BY <1>8, WorkerTyped DEF PauseTrack, CanSnapshot
    <3>2. paused' \in [Job -> Container]
      BY <1>8, <3>1 DEF PauseTrack
    <3>3. store' \in [Job -> Records]
      BY <1>8, <3>2, Saved DEF PauseTrack
    <3>4. stop' \in [Worker -> SUBSET Job]
      BY <1>8 DEF PauseTrack, CancelTracks, Only
    <3>5. fate' \in [Worker -> [Job -> Fates]]
      BY <1>8, <3>1 DEF PauseTrack
    <3>6. owed' \in SUBSET Job /\ astray' \in SUBSET Job /\ replaced' = replaced
      BY <1>8 DEF PauseTrack, Owe
    <3>7. QED
      BY <1>8, <3>2, <3>3, <3>4, <3>5, <3>6 DEF PauseTrack
  <2>2. Housed'
    BY <1>8, WorkerTyped, Saved DEF PauseTrack, CanSnapshot, CancelTracks, Only, Owe
  <2>3. Queued'
    BY <1>8, WorkerTyped, Saved DEF PauseTrack, CanSnapshot, CancelTracks, Only, Owe
  <2>4. QED
    BY <2>1, <2>2, <2>3
<1>9. ASSUME NEW j \in Job, ResumeTrack(j) PROVE Sound'
  BY <1>9 DEF ResumeTrack, Launch
<1>10. ASSUME NEW j \in Job, Corrupt(j) PROVE Sound'
  <2>1. TypeOK'
    <3>1. store' \in [Job -> Records]
      <4>1. [store[j] EXCEPT !.readable = FALSE] \in
              Records
        <5>1. store[j] \in Records
          OBVIOUS
        <5>2. QED
          BY <5>1
      <4>2. store' = [store EXCEPT ![j] = [store[j] EXCEPT !.readable = FALSE]]
        BY <1>10 DEF Corrupt
      <4>3. QED
        BY <4>1, <4>2
    <3>2. QED
      BY <1>10, <3>1 DEF Corrupt
  <2>2. Housed'
    BY <1>10 DEF Corrupt
  <2>3. Queued'
    BY <1>10 DEF Corrupt
  <2>4. QED
    BY <2>1, <2>2, <2>3
<1>11. ASSUME NEW late \in SUBSET Job, GlobalPause(late) PROVE Sound'
  <2>1. TypeOK'
    <3> DEFINE seen == {j \in UNION {jobsOf[w] : w \in Current \cap Running} :
                          j \in late \/ ~(j \in known /\ CardOver(j))}
               taken == {j \in seen : CanSnapshot(WorkerForKey(j), j)}
               takenIn == [w \in Worker |-> {j \in taken : WorkerForKey(j) = w}]
    <3>1. taken \subseteq Job /\ \A j \in taken : WorkerForKey(j) \in Worker
      <4>1. seen \subseteq Job
        BY DEF Running
      <4>2. QED
        BY <4>1, WorkerTyped DEF CanSnapshot
    <3>2. paused' \in [Job -> Container]
      BY <1>11, <3>1 DEF GlobalPause
    <3>3. store' \in [Job -> Records]
      BY <1>11, <3>2, Saved DEF GlobalPause
    <3>4. stop' \in [Worker -> SUBSET Job] /\ engineStop' = TRUE
      <4>1. StopAll(takenIn)
        BY <1>11 DEF GlobalPause
      <4>2. takenIn \in [Worker -> SUBSET Job]
        BY <3>1
      <4>3. QED
        BY <4>1, <4>2 DEF StopAll
    <3>5. fate' \in [Worker -> [Job -> Fates]]
      <4> HIDE DEF taken
      <4>1. fate' = [w \in Worker |-> [j \in Job |-> IF j \in takenIn[w] THEN "paused" ELSE fate[w][j]]]
        BY <1>11 DEF GlobalPause, taken
      <4> HIDE DEF takenIn
      <4>2. QED
        BY <4>1
    <3>6. owed' \in SUBSET Job /\ astray' \in SUBSET Job /\ replaced' = replaced
      <4>1. Owe(taken)
        BY <1>11 DEF GlobalPause
      <4>2. QED
        BY <3>1, <4>1 DEF Owe
    <3>7. UNCHANGED <<phase, jobsOf, dir, thread, report, dl, side, posted,
                      known, waitingFor, closing, up, disk, published>>
          /\ intent' \in {"none", "pause", "cancel"}
      BY <1>11 DEF GlobalPause
    <3>8. QED
      BY <3>2, <3>3, <3>4, <3>5, <3>6, <3>7
  <2>2. Housed'
    BY <1>11, WorkerTyped, Saved DEF GlobalPause, CanSnapshot, StopAll, Owe
  <2>3. Queued'
    BY <1>11, WorkerTyped, Saved DEF GlobalPause, CanSnapshot, StopAll, Owe
  <2>4. QED
    BY <2>1, <2>2, <2>3
<1>12. CASE ResumeAll
  <2>1. TypeOK'
    <3>1. PICK w \in Worker : Launch(w, {j \in Job : paused[j] # None}, paused) /\ dl' = w
                              /\ waitingFor' = w
      BY <1>12 DEF ResumeAll
    <3>3. dir' \in [Worker -> [Job -> Container]] /\ jobsOf' \in [Worker -> SUBSET Job]
          /\ phase' = [phase EXCEPT ![w] = "scheduled"] /\ phase[w] = "unborn"
      BY <3>1 DEF Launch
    <3>4. fate' \in [Worker -> [Job -> Fates]]
      BY <3>1 DEF Launch
    <3>5. \A v \in Worker, j \in Job :
            thread'[v][j] # "off" => phase'[v] = "running" /\ j \in jobsOf'[v]
      BY <3>1, <3>3 DEF Launch
    <3>6. UNCHANGED <<thread, stop, report, side, posted, closing, up, store, disk, owed,
                      replaced, astray>>
          /\ intent' = "none" /\ engineStop' = FALSE
          /\ known' \in SUBSET Job /\ published' \in SUBSET Job
          /\ paused' \in [Job -> Container]
          /\ dl' \in Container /\ waitingFor' \in Container
      BY <1>12, <3>1, <3>3 DEF ResumeAll, Launch
    <3>7. QED
      BY <3>3, <3>4, <3>5, <3>6
  <2>2. Housed'
    BY <1>12 DEF ResumeAll, Launch
  <2>3. Queued'
    BY <1>12 DEF ResumeAll, Launch
  <2>4. QED
    BY <2>1, <2>2, <2>3
<1>13. CASE Release
  BY <1>13, Saved DEF Release
<1>14. CASE ReleaseTimesOut
  BY <1>14 DEF ReleaseTimesOut
<1>15. CASE CancelAll
  <2>1. TypeOK'
    BY <1>15, Discarded DEF CancelAll, Fates
  <2>2. Housed'
    BY <1>15, WorkerTyped, Saved DEF CancelAll, DiscardAndStop, CanSnapshot, StopAll, Within
  <2>3. Queued'
    BY <1>15, WorkerTyped, Saved DEF CancelAll, DiscardAndStop, CanSnapshot, StopAll, Within
  <2>4. QED
    BY <2>1, <2>2, <2>3
<1>16. CASE BatchDone
  <2>1. /\ Head(posted) \in Worker /\ posted' \in Seq(Worker)
        /\ Head(posted) = posted[1] /\ 1 \in 1 .. Len(posted)
        /\ \A i \in 1 .. Len(posted') : i + 1 \in 1 .. Len(posted) /\ posted'[i] = posted[i + 1]
    BY <1>16, HeadTailProperties DEF BatchDone
  <2>2. phase' = [phase EXCEPT ![Head(posted)] = "over"]
    BY <1>16 DEF BatchDone
  <2>3. paused' \in [Job -> Container]
    BY <1>16 DEF BatchDone
  <2>4. store' \in [Job -> Records]
    <3>1. store' = store \/ store' = Persisted(paused', known)
      BY <1>16 DEF BatchDone
    <3>2. CASE store' = store
      BY <3>2
    <3>3. CASE store' = Persisted(paused', known)
      BY <2>3, <3>3, Saved
    <3>4. QED
      BY <3>1, <3>2, <3>3
  <2>5. UNCHANGED <<jobsOf, dir, thread, fate, stop, report, engineStop, known,
                    waitingFor, closing, up, historyVars>>
    BY <1>16 DEF BatchDone
  <2>a. dl' \in Container /\ side' \in SUBSET Worker /\ intent' \in {"none", "pause", "cancel"}
    BY <1>16 DEF BatchDone
  <2>b. disk' \in SUBSET (Worker \X Job)
    BY <1>16 DEF BatchDone, Within
  <2>c. ASSUME NEW i \in 1 .. Len(posted)
        PROVE  phase[posted[i]] \in {"ended", "over"} /\ posted[i] \in Worker
    OBVIOUS
  <2>d. phase[posted[1]] \in {"ended", "over"}
    BY <2>1, <2>c
  <2>6. phase[Head(posted)] \in {"ended", "over"}
    BY <2>1, <2>d
  <2>7. TypeOK'
    BY <2>1, <2>2, <2>3, <2>4, <2>5, <2>6, <2>a, <2>b
  <2>8. Housed'
    BY <2>5
  <2>9. Queued'
    <3>1. ASSUME NEW i \in 1 .. Len(posted')
          PROVE  phase'[posted'[i]] \in {"ended", "over"}
      <4>1. i + 1 \in 1 .. Len(posted) /\ posted'[i] = posted[i + 1]
        BY <2>1, <3>1
      <4>2. phase[posted[i + 1]] \in {"ended", "over"} /\ posted[i + 1] \in Worker
        BY <2>c, <4>1
      <4>3. QED
        BY <2>1, <2>2, <4>1, <4>2
    <3>2. QED
      BY <3>1
  <2>10. QED
    BY <2>7, <2>8, <2>9
<1>17. CASE Crash
  BY <1>17, DeadTyped DEF Crash
<1>18. CASE Close
  <2>1. TypeOK'
    BY <1>18, Discarded DEF Close, Fates
  <2>2. Housed'
    BY <1>18, WorkerTyped, Saved DEF Close, DiscardAndStop, CanSnapshot, StopAll, Within
  <2>3. Queued'
    BY <1>18, WorkerTyped, Saved DEF Close, DiscardAndStop, CanSnapshot, StopAll, Within
  <2>4. QED
    BY <2>1, <2>2, <2>3
<1>19. CASE Exit
  BY <1>19, DeadTyped DEF Exit
<1>20. CASE Startup
  BY <1>20, Saved DEF Startup, Recorded, Readable, Swept, Within
<1>21. CASE UNCHANGED vars
  BY <1>21 DEF vars
<1>22. QED
  BY <1>1, <1>2, <1>3, <1>4, <1>5, <1>6, <1>7, <1>8, <1>9, <1>10, <1>11, <1>12, <1>13,
     <1>14, <1>15, <1>16, <1>17, <1>18, <1>19, <1>20, <1>21 DEF Next, WorkerStep

(* Every variable of the controller, its workers, the store and the disk   *)
(* keeps its type.                                                         *)
THEOREM PausedTypes == Spec => []TypeOK
<1>1. Sound => TypeOK
  BY DEF Sound
<1>2. QED
  BY <1>1, InitSound, StepSound, PTL DEF Spec

----------------------------------------------------------------------------

(* Every step keeps the running workers among the ones the controller      *)
(* holds, or those it has replaced: a resume joins the others.             *)
LEMMA StepReachable ==
    ASSUME Sound, WorkersReachable, [Next]_vars
    PROVE  WorkersReachable'
<1> USE Numbers DEF Sound, TypeOK, WorkersReachable, Running, Current
<1> DEFINE Same == UNCHANGED <<dl, side, replaced>> /\ Running' \subseteq Running
<1>0. ASSUME Same PROVE WorkersReachable'
  BY <1>0
<1>1. ASSUME NEW w \in Worker, WorkerStep(w) PROVE Same
  BY <1>1 DEF WorkerStep, RunStarts, Drain, RunEnds, Begin, Publish, Error, Quit, Becomes,
     batchVars, historyVars
<1>2. ASSUME NEW S \in Selections, StartBatch(S) PROVE WorkersReachable'
  BY <1>2 DEF StartBatch, Launch
<1>3. ASSUME NEW j \in Job, ResumeTrack(j) PROVE WorkersReachable'
  BY <1>3 DEF ResumeTrack, Launch, historyVars
<1>4. CASE ResumeAll
  BY <1>4 DEF ResumeAll, BatchRunning, Launch, historyVars
<1>5. CASE BatchDone
  <2>1. Head(posted) \in Worker
    BY <1>5, HeadTailProperties DEF BatchDone
  <2>2. phase' = [phase EXCEPT ![Head(posted)] = "over"]
        /\ dl' = (IF Head(posted) = dl THEN None ELSE dl) /\ side' = side \ {Head(posted)}
        /\ replaced' = replaced
    BY <1>5 DEF BatchDone, historyVars
  <2>3. QED
    BY <2>1, <2>2
<1>6. CASE Crash \/ Exit
  <2>1. phase' = [w \in Worker |-> IF phase[w] = "unborn" THEN "unborn" ELSE "over"]
    BY <1>6 DEF Crash, Exit, Dies
  <2>2. Running' = {}
    BY <2>1
  <2>3. QED
    BY <2>2
<1>7. CASE \/ \E j \in Job : PauseTrack(j) \/ Corrupt(j)
           \/ \E late \in SUBSET {j \in Job : CardOver(j)} : GlobalPause(late)
           \/ Release \/ ReleaseTimesOut \/ CancelAll \/ Close \/ Startup \/ UNCHANGED vars
  <2>1. Same
    BY <1>7 DEF PauseTrack, Corrupt, GlobalPause, Release, ReleaseTimesOut, CancelAll,
       Close, Startup, Owe, vars, workerVars, batchVars, historyVars
  <2>2. QED
    BY <1>0, <2>1
<1>8. QED
  BY <1>0, <1>1, <1>2, <1>3, <1>4, <1>5, <1>6, <1>7 DEF Next

(* "Covers every running worker" (global_pause): a pause, a cancel and a   *)
(* shutdown reach every worker that runs, but for one that ran when        *)
(* Download was clicked again.                                             *)
THEOREM AllReached == Spec => []WorkersReachable
<1>1. Init => WorkersReachable
  BY DEF Init, WorkersReachable, Running
<1>2. QED
  BY <1>1, InitSound, StepSound, StepReachable, PTL DEF Spec

----------------------------------------------------------------------------

(* The sweep of a start keeps what the readable records name, and is       *)
(* skipped when a record is not readable; no other step is a start.        *)
LEMMA StepSpares ==
    ASSUME Sound, [Next]_vars, up', ~up, NEW j \in Recorded, <<store[j].dir, j>> \in disk
    PROVE  <<store[j].dir, j>> \in disk'
<1>1. CASE Startup
  <2>1. <<store[j].dir, j>> \in Swept
    BY DEF Swept, Within, Recorded
  <2>2. QED
    BY <1>1, <2>1 DEF Startup
<1>2. up' = up \/ Startup \/ up' = FALSE
  BY DEF Next, WorkerStep, RunStarts, Drain, RunEnds, Begin, Publish, Error, Quit, Becomes,
     StartBatch,
         PauseTrack, ResumeTrack, Corrupt, GlobalPause, ResumeAll, Release, ReleaseTimesOut, CancelAll,
         BatchDone, Crash, Close, Exit, Dies, memoryVars, vars
<1>3. QED
  BY <1>1, <1>2

(* "A PARTIAL keep-set is just as dangerous as an empty one"               *)
(* (restore_paused_on_startup): no start removes a workspace a record      *)
(* names.                                                                  *)
THEOREM SweepSpares == Spec => SweepSparesRecords
<1>1. Sound /\ [Next]_vars =>
        [up' /\ ~up => \A j \in Recorded :
            <<store[j].dir, j>> \in disk => <<store[j].dir, j>> \in disk']_vars
  BY StepSpares
<1>2. QED
  BY <1>1, InitSound, StepSound, PTL DEF Spec, SweepSparesRecords

----------------------------------------------------------------------------

(* No record of the store is unreadable.                                   *)
Legible == \A j \in Job : store[j].readable

(* A save makes the store agree with what it saved.                        *)
LEMMA SavedAgrees ==
    ASSUME NEW requests \in [Job -> Container], NEW cards
    PROVE  \A j \in Job : /\ Persisted(requests, cards)[j].dir = requests[j]
                          /\ Persisted(requests, cards)[j].readable
BY DEF Persisted, NoRecord

(* Every step keeps memory and store in agreement, but for the time a      *)
(* resume waits for its worker.                                            *)
LEMMA StepMatches ==
    ASSUME "corrupt" \notin Ways, "slow" \notin Ways, Sound, Legible, StoreMatches, [Next]_vars
    PROVE  Legible' /\ StoreMatches'
<1> USE Numbers DEF Legible, StoreMatches
<1>0. Sound'
  BY StepSound
<1>13. paused' \in [Job -> Container] /\ paused \in [Job -> Container]
  BY <1>0 DEF Sound, TypeOK
<1>1. ASSUME store' = Persisted(paused', known) \/ store' = Persisted(paused', known')
      PROVE  Legible' /\ StoreMatches'
  BY <1>13, <1>1, SavedAgrees
<1>2. ASSUME UNCHANGED <<store, paused, up, waitingFor>> PROVE Legible' /\ StoreMatches'
  BY <1>2
<1>3. ASSUME UNCHANGED store, up' = FALSE \/ waitingFor' # None PROVE Legible' /\ StoreMatches'
  BY <1>3
<1>4. CASE Startup
  <2>1. CASE Readable = {}
    <3>1. store' = store /\ \A j \in Job : store[j].dir = None
      BY <1>4, <2>1 DEF Startup, Readable, Recorded
    <3>2. \A j \in Job : paused'[j] = None
      BY <1>4, <2>1 DEF Startup
    <3>3. QED
      BY <3>1, <3>2
  <2>2. CASE Readable # {}
    BY <1>1, <1>4, <2>2 DEF Startup
  <2>3. QED
    BY <2>1, <2>2
<1>5. CASE BatchDone
  <2>1. waitingFor = None /\ UNCHANGED <<up, waitingFor>> /\ up
    BY <1>5 DEF BatchDone, memoryVars
  <2>2. store' = Persisted(paused', known) \/ (store' = store /\ \A j \in Job : paused'[j] = paused[j])
    BY <1>5, <1>13 DEF BatchDone
  <2>3. QED
    BY <1>1, <2>1, <2>2
<1>6. CASE CancelAll \/ Close
  <2>1. waitingFor = None /\ UNCHANGED <<up, waitingFor>> /\ up /\ DiscardAndStop
    BY <1>6 DEF CancelAll, Close, UIFree
  <2>2. store' = Persisted(paused', known) \/ (store' = store /\ \A j \in Job : paused[j] = None)
    BY <2>1 DEF DiscardAndStop
  <2>3. \A j \in Job : paused'[j] = None
    BY <2>1 DEF DiscardAndStop, NoJobs
  <2>4. QED
    BY <1>1, <2>1, <2>2, <2>3
<1>7. CASE \/ Release \/ \E j \in Job : PauseTrack(j)
           \/ \E late \in SUBSET {j \in Job : CardOver(j)} : GlobalPause(late)
  BY <1>1, <1>7 DEF Release, PauseTrack, GlobalPause
<1>8. CASE Crash \/ Exit \/ ResumeAll \/ \E j \in Job : ResumeTrack(j)
  BY <1>3, <1>8 DEF Crash, Exit, Dies, ResumeAll, ResumeTrack
<1>9. ASSUME NEW w \in Worker, WorkerStep(w) PROVE Legible' /\ StoreMatches'
  <2>1. UNCHANGED <<store, paused, up, waitingFor>>
    BY <1>9 DEF WorkerStep, RunStarts, Drain, RunEnds, Begin, Publish, Error, Quit,
       Becomes, memoryVars
  <2>2. QED
    BY <1>2, <2>1
<1>10. CASE (\E S \in Selections : StartBatch(S)) \/ UNCHANGED vars
  BY <1>2, <1>10 DEF StartBatch, vars, memoryVars
<1>11. QED
  BY <1>4, <1>5, <1>6, <1>7, <1>8, <1>9, <1>10 DEF Next, Corrupt, ReleaseTimesOut

(* The store and the memory agree whenever the UI thread is at rest, as    *)
(* long as no record is corrupted and no worker misses its three seconds.  *)
THEOREM StoreAgrees ==
    ASSUME "corrupt" \notin Ways, "slow" \notin Ways PROVE Spec => []StoreMatches
<1>1. Init => Legible /\ StoreMatches
  BY DEF Init, Legible, StoreMatches, NoJobs, NoRecord
<1>2. QED
  BY <1>1, InitSound, StepSound, StepMatches, PTL DEF Spec

----------------------------------------------------------------------------

(* Workers are used in order, and one that is still to be created has no   *)
(* jobs.                                                                   *)
Fresh == \A w, v \in Worker :
            phase[w] = "unborn" => jobsOf[w] = {} /\ (v > w => phase[v] = "unborn")

(* While the application is down no worker lives.                          *)
Down == ~up => \A w \in Worker : phase[w] \in {"unborn", "over"} /\ jobsOf[w] = {}

(* But for the astray, the jobs of a worker that is about to run are not   *)
(* paused, and no newer worker has them.                                   *)
Awaited == \A w, v \in Worker, j \in Job \ astray :
              phase[w] = "scheduled" /\ j \in jobsOf[w] =>
                  paused[j] = None /\ (v > w => j \notin jobsOf[v])

(* A thread whose job has gone to a newer worker has been told to stop.    *)
(* This is what lets a pause ask the newest worker alone.                  *)
Superseded == \A w, v \in Worker, j \in Job \ astray :
              Live(w, j) /\ v > w /\ j \in jobsOf[v] => j \in stop[w]

(* A thread whose job is paused has been told to stop by its own cancel    *)
(* event: the stop of the engine is taken back by the next batch.          *)
Halted == \A w \in Worker, j \in Job \ astray :
              Live(w, j) /\ paused[j] # None => j \in stop[w]

(* The inductive invariant behind PausedIsStopped.                         *)
Obeyed == Fresh /\ Down /\ Awaited /\ Superseded /\ Halted

(* The worker of a job that answers for it and is its newest comes last.   *)
LEMMA NewestLast ==
    ASSUME TypeOK, NEW j \in Job, WorkerForKey(j) # None, WorkerForKey(j) = Newest(j)
    PROVE  /\ WorkerForKey(j) \in Worker /\ j \in jobsOf[WorkerForKey(j)]
           /\ \A v \in Worker : j \in jobsOf[v] => v <= WorkerForKey(j)
<1> DEFINE have == {w \in Worker : j \in jobsOf[w]}
<1>1. WorkerForKey(j) \in have
  BY WorkerTyped, AnswersFor
<1>2. have \subseteq 1 .. MaxWorkers
  BY DEF Worker
<1>3. \E w \in have : \A v \in have : v <= w
  BY <1>1, <1>2, MaxWorkersAssumption, Greatest
<1>4. Newest(j) = CHOOSE w \in have : \A v \in have : v <= w
  BY <1>1 DEF Newest
<1>5. \A v \in have : v <= Newest(j)
  BY <1>3, <1>4
<1>6. QED
  BY <1>1, <1>5

(* Nothing is scheduled for these jobs, what still runs them has been told *)
(* to stop, and after the step they are not paused: but for the astray.    *)
Vacant(S) ==
    /\ up /\ up' = up /\ astray \subseteq astray'
    /\ \A j \in Job : paused'[j] \in {paused[j], None}
    /\ \A j \in S \ astray' : paused'[j] = None
    /\ \A v \in Worker : \A j \in S \ astray' : /\ Live(v, j) => j \in stop[v]
                                                /\ phase[v] = "scheduled" => j \notin jobsOf[v]

(* A new worker for such jobs keeps the invariant.                         *)
LEMMA Launched ==
    ASSUME Sound, Obeyed, NEW w \in Worker, NEW S \in SUBSET Job, NEW where,
           Launch(w, S, where), Vacant(S)
    PROVE  Obeyed'
<1>10. \A u \in Worker, j \in S \ astray' :
            (Live(u, j) => j \in stop[u]) /\ (phase[u] = "scheduled" => j \notin jobsOf[u])
  BY DEF Vacant
<1> USE DEF Sound, TypeOK, Obeyed, Vacant
<1>1. /\ phase[w] = "unborn" /\ \A v \in Worker : v < w => phase[v] # "unborn"
      /\ phase' = [phase EXCEPT ![w] = "scheduled"] /\ jobsOf' = [jobsOf EXCEPT ![w] = S]
      /\ UNCHANGED <<thread, stop>>
  BY DEF Launch
<1>2. Worker \subseteq Nat
  BY MaxWorkersAssumption DEF Worker
<1>3. Fresh'
  BY <1>1, <1>2 DEF Fresh
<1>8. \A v \in Worker : /\ (v > w => jobsOf'[v] = {})
                         /\ (v # w => jobsOf'[v] = jobsOf[v] /\ phase'[v] = phase[v])
  BY <1>1, <1>2 DEF Fresh
<1>9. jobsOf'[w] = S /\ \A j \in Job \ astray' : j \notin astray
  BY <1>1
<1>4. Awaited'
  <2> SUFFICES ASSUME NEW u \in Worker, NEW v \in Worker, NEW j \in Job \ astray',
                      phase'[u] = "scheduled", j \in jobsOf'[u]
               PROVE  paused'[j] = None /\ (v > u => j \notin jobsOf'[v])
    BY DEF Awaited
  <2>1. CASE u = w
    BY <2>1, <1>8, <1>9
  <2>2. CASE u # w
    <3>1. phase[u] = "scheduled" /\ j \in jobsOf[u] /\ j \notin astray
      BY <2>2, <1>8, <1>9
    <3>2. paused[j] = None /\ (v > u => j \notin jobsOf[v])
      BY <3>1 DEF Awaited
    <3>3. j \notin S
      BY <3>1, <1>10
    <3> QED
      BY <3>2, <3>3, <1>8, <1>9
  <2> QED
    BY <2>1, <2>2
<1>5. Superseded'
  <2> SUFFICES ASSUME NEW u \in Worker, NEW v \in Worker, NEW j \in Job \ astray',
                      Live(u, j), v > u, j \in jobsOf'[v]
               PROVE  j \in stop[u]
    BY <1>1 DEF Superseded, Live
  <2>1. CASE v = w
    <3>1. j \in S \ astray'
      BY <2>1, <1>9
    <3> QED
      BY <3>1, <1>10
  <2>2. CASE v # w
    <3>1. j \in jobsOf[v] /\ j \notin astray
      BY <2>2, <1>8, <1>9
    <3> QED
      BY <3>1 DEF Superseded
  <2> QED
    BY <2>1, <2>2
<1>6. Halted'
  BY <1>1 DEF Halted, Live
<1>7. QED
  BY <1>3, <1>4, <1>5, <1>6 DEF Down

(* A pause keeps the invariant when it stops the newest worker of every    *)
(* job it takes: the older ones were stopped when they were replaced.      *)
LEMMA Captured ==
    ASSUME Sound, Obeyed, NEW taken \in SUBSET Job,
           \A j \in taken : CanSnapshot(WorkerForKey(j), j),
           astray' = astray \cup {j \in taken : WorkerForKey(j) # Newest(j)},
           \A j \in Job \ taken : paused'[j] = paused[j],
           \A w \in Worker : stop[w] \subseteq stop'[w],
           \A j \in taken : j \in stop'[WorkerForKey(j)],
           UNCHANGED <<phase, jobsOf, thread, up>>
    PROVE  Obeyed'
<1> USE DEF Sound, Obeyed
<1>0. \A j \in Job \ astray' : j \notin astray
  OBVIOUS
<1>1. \A j \in taken \ astray' :
                       /\ WorkerForKey(j) \in Worker /\ j \in jobsOf[WorkerForKey(j)]
                       /\ \A v \in Worker : j \in jobsOf[v] => v <= WorkerForKey(j)
                       /\ phase[WorkerForKey(j)] # "scheduled"
  BY NewestLast DEF CanSnapshot
<1>2. Worker \subseteq Nat
  BY MaxWorkersAssumption DEF Worker
<1>3. Fresh' /\ Down'
  BY DEF Fresh, Down
<1>4. Awaited'
  <2> SUFFICES ASSUME NEW w \in Worker, NEW v \in Worker, NEW j \in Job \ astray',
                      phase[w] = "scheduled", j \in jobsOf[w]
               PROVE  paused'[j] = None /\ (v > w => j \notin jobsOf[v])
    BY DEF Awaited
  <2>1. paused[j] = None /\ \A u \in Worker : u > w => j \notin jobsOf[u]
    BY <1>0 DEF Awaited
  <2>2. ASSUME j \in taken PROVE FALSE
    <3>1. w <= WorkerForKey(j) /\ w # WorkerForKey(j) /\ WorkerForKey(j) \in Worker
      BY <1>1, <2>2
    <3>0. w \in Nat /\ WorkerForKey(j) \in Nat
      BY <1>2, <3>1
    <3> DEFINE newest == WorkerForKey(j)
    <3>2. newest > w
      <4>1. w <= newest /\ w # newest /\ w \in Nat /\ newest \in Nat
        BY <3>1, <3>0
      <4> HIDE DEF newest
      <4>2. QED
        BY <4>1
    <3>3. QED
      BY <1>1, <2>1, <2>2, <3>1, <3>2
  <2>3. QED
    BY <2>1, <2>2
<1>5. Superseded'
  BY <1>0 DEF Superseded, Live
<1>6. Halted'
  <2> SUFFICES ASSUME NEW w \in Worker, NEW j \in Job \ astray', Live(w, j), paused'[j] # None
               PROVE  j \in stop'[w]
    BY DEF Halted, Live
  <2>1. CASE j \notin taken
    BY <1>0, <2>1 DEF Halted
  <2>2. CASE j \in taken
    <3>1. j \in jobsOf[w]
      BY DEF Live, TypeOK
    <3>2. w = WorkerForKey(j) \/ WorkerForKey(j) > w
      BY <1>1, <1>2, <2>2, <3>1
    <3>3. CASE WorkerForKey(j) > w
      BY <1>0, <1>1, <2>2, <3>3 DEF Superseded
    <3>4. QED
      BY <2>2, <3>2, <3>3
  <2>3. QED
    BY <2>1, <2>2
<1>7. QED
  BY <1>3, <1>4, <1>5, <1>6

(* Every step keeps the invariant.                                         *)
LEMMA StepObeyed ==
    ASSUME Sound, Obeyed, [Next]_vars
    PROVE  Obeyed'
<1> USE Numbers DEF Sound, TypeOK
<1>0. ASSUME UNCHANGED <<jobsOf, stop, up, astray>>,
             \A j \in Job : paused'[j] \in {paused[j], None},
             \A w \in Worker : \/ phase'[w] = phase[w]
                               \/ phase'[w] = "over" /\ phase[w] # "unborn"
                               \/ phase'[w] = "ended" /\ phase[w] \notin {"unborn", "over"},
             \A w \in Worker, j \in Job : Live(w, j)' => Live(w, j)
      PROVE  Obeyed'
  <2>1. Fresh'
    BY <1>0 DEF Obeyed, Fresh
  <2>2. Down'
    BY <1>0 DEF Obeyed, Down
  <2>3. Awaited'
    BY <1>0 DEF Obeyed, Awaited
  <2>4. Superseded'
    BY <1>0 DEF Obeyed, Superseded
  <2>5. Halted'
    BY <1>0 DEF Obeyed, Halted
  <2>6. QED
    BY <2>1, <2>2, <2>3, <2>4, <2>5 DEF Obeyed
<1>1. ASSUME NEW w \in Worker, RunStarts(w) PROVE Obeyed'
  <2>1. CASE engineStop
    BY <1>0, <1>1, <2>1 DEF RunStarts, memoryVars, Live
  <2>2. CASE ~engineStop
    <3>1. /\ phase[w] = "scheduled" /\ phase' = [phase EXCEPT ![w] = "running"]
          /\ UNCHANGED <<jobsOf, stop, paused, up, astray>>
          /\ thread' = [thread EXCEPT ![w] = [j \in Job |->
                             IF j \in jobsOf[w] THEN "waiting" ELSE "off"]]
      BY <1>1, <2>2 DEF RunStarts, memoryVars
    <3>2. \A v \in Worker, j \in Job : Live(v, j)' => Live(v, j) \/ (v = w /\ j \in jobsOf[w])
      BY <3>1 DEF Live
    <3>3. Fresh' /\ Down' /\ Awaited'
      BY <3>1 DEF Obeyed, Fresh, Down, Awaited
    <3>4. Superseded' /\ Halted'
      BY <3>1, <3>2 DEF Obeyed, Awaited, Superseded, Halted
    <3>5. QED
      BY <3>3, <3>4 DEF Obeyed
  <2>3. QED
    BY <2>1, <2>2
<1>2. ASSUME NEW w \in Worker, Drain(w) PROVE Obeyed'
  BY <1>0, <1>2 DEF Drain, RunEnds, memoryVars, historyVars, Live
<1>3. ASSUME NEW w \in Worker, NEW j \in Job, Begin(w, j) \/ Publish(w, j) \/ Error(w, j) \/ Quit(w, j)
      PROVE  Obeyed'
  <2>1. /\ UNCHANGED <<jobsOf, stop, up, paused, phase, astray>>
        /\ Live(w, j)
        /\ \E t \in {"off", "busy"} : thread' = [thread EXCEPT ![w][j] = t]
    BY <1>3 DEF Begin, Publish, Error, Quit, Becomes, memoryVars, historyVars, Live
  <2>2. \A v \in Worker, k \in Job : Live(v, k)' => Live(v, k)
    BY <2>1 DEF Live
  <2>3. QED
    BY <1>0, <2>1, <2>2
<1>4. ASSUME NEW S \in Selections, StartBatch(S) PROVE Obeyed'
  <2>1. PICK w \in Worker : Launch(w, S, NoJobs)
    BY <1>4 DEF StartBatch
  <2>2. \A j \in S \ astray' : paused[j] = None /\ LiveIn(j) = {}
    BY <1>4 DEF StartBatch
  <2>3. S \in SUBSET Job
    BY SelectionsAssumption
  <2>4. up /\ up' = up /\ (\A j \in Job : paused'[j] \in {paused[j], None})
        /\ (\A j \in S \ astray' : paused'[j] = None) /\ astray \subseteq astray'
    BY <1>4, <2>2 DEF StartBatch, UIFree
  <2>5. \A v \in Worker : \A j \in S \ astray' : /\ Live(v, j) => j \in stop[v]
                                                 /\ phase[v] = "scheduled" => j \notin jobsOf[v]
    BY <2>2, <2>3 DEF LiveIn
  <2>6. Vacant(S)
    BY <2>4, <2>5 DEF Vacant
  <2> HIDE DEF Sound, TypeOK
  <2>7. QED
    BY <2>1, <2>3, <2>6, Launched
<1>5. ASSUME NEW j \in Job, ResumeTrack(j) PROVE Obeyed'
  <2>1. PICK w \in Worker : Launch(w, {j}, [NoJobs EXCEPT ![j] = paused[j]])
    BY <1>5 DEF ResumeTrack
  <2>2. paused[j] # None /\ paused' = [paused EXCEPT ![j] = None] /\ up /\ up' = up
        /\ astray' = astray
    BY <1>5 DEF ResumeTrack, UIFree, historyVars
  <2> DEFINE S == {j}
             where == [NoJobs EXCEPT ![j] = paused[j]]
  <2>3. \A v \in Worker : \A k \in S \ astray' : /\ Live(v, k) => k \in stop[v]
                                                 /\ phase[v] = "scheduled" => k \notin jobsOf[v]
    BY <2>2 DEF Obeyed, Awaited, Halted
  <2>4. (\A k \in Job : paused'[k] \in {paused[k], None}) /\ \A k \in S : paused'[k] = None
    BY <2>2
  <2>5. S \in SUBSET Job /\ Launch(w, S, where)
    BY <2>1
  <2>6. Vacant(S)
    BY <2>2, <2>3, <2>4 DEF Vacant
  <2> HIDE DEF S, where, Sound, TypeOK
  <2>7. QED
    BY <2>5, <2>6, Launched
<1>6. CASE ResumeAll
  <2> DEFINE S == {j \in Job : paused[j] # None}
  <2>1. PICK w \in Worker : Launch(w, S, paused)
    BY <1>6 DEF ResumeAll
  <2>2. paused' = NoJobs /\ up /\ up' = up /\ astray' = astray
    BY <1>6 DEF ResumeAll, UIFree, historyVars
  <2>3. \A v \in Worker : \A j \in S \ astray' : /\ Live(v, j) => j \in stop[v]
                                                 /\ phase[v] = "scheduled" => j \notin jobsOf[v]
    BY <2>2 DEF Obeyed, Awaited, Halted
  <2>4. (\A j \in Job : paused'[j] \in {paused[j], None}) /\ \A j \in S : paused'[j] = None
    BY <2>2 DEF NoJobs
  <2>5. S \in SUBSET Job
    OBVIOUS
  <2>6. Vacant(S)
    BY <2>2, <2>3, <2>4 DEF Vacant
  <2> HIDE DEF S, Sound, TypeOK
  <2>7. QED
    BY <2>1, <2>5, <2>6, Launched
<1>7. ASSUME NEW j \in Job, PauseTrack(j) PROVE Obeyed'
  <2>1. CanSnapshot(WorkerForKey(j), j)
    BY <1>7 DEF PauseTrack
  <2>2. WorkerForKey(j) \in Worker
    BY <2>1, WorkerTyped DEF CanSnapshot
  <2>3. /\ paused' = [paused EXCEPT ![j] = dir[WorkerForKey(j)][j]]
        /\ stop' = [v \in Worker |-> stop[v] \cup (IF v = WorkerForKey(j) THEN {j} ELSE {})]
        /\ UNCHANGED <<phase, jobsOf, thread, up>>
    BY <1>7 DEF PauseTrack, CancelTracks, Only
  <2>7. astray' = astray \cup {k \in {j} : WorkerForKey(k) # Newest(k)}
    BY <1>7 DEF PauseTrack, Owe
  <2> DEFINE taken == {j}
  <2>4. /\ taken \in SUBSET Job
        /\ \A k \in taken : CanSnapshot(WorkerForKey(k), k)
        /\ astray' = astray \cup {k \in taken : WorkerForKey(k) # Newest(k)}
    BY <2>1, <2>7
  <2>5. /\ \A k \in Job \ taken : paused'[k] = paused[k]
        /\ \A w \in Worker : stop[w] \subseteq stop'[w]
        /\ \A k \in taken : k \in stop'[WorkerForKey(k)]
    BY <2>2, <2>3
  <2> HIDE DEF taken, Sound
  <2>6. QED
    BY <2>3, <2>4, <2>5, Captured
<1>8. ASSUME NEW late \in SUBSET Job, GlobalPause(late) PROVE Obeyed'
  <2> DEFINE seen == {j \in UNION {jobsOf[w] : w \in Current \cap Running} :
                          j \in late \/ ~(j \in known /\ CardOver(j))}
             taken == {j \in seen : CanSnapshot(WorkerForKey(j), j)}
             takenIn == [w \in Worker |-> {j \in taken : WorkerForKey(j) = w}]
  <2>1. taken \in SUBSET Job
    BY DEF Running
  <2>2. /\ \A j \in taken : CanSnapshot(WorkerForKey(j), j)
        /\ UNCHANGED <<phase, jobsOf, thread, up>>
    BY <1>8 DEF GlobalPause
  <2>8. astray' = astray \cup {j \in taken : WorkerForKey(j) # Newest(j)}
    BY <1>8 DEF GlobalPause, Owe
  <2>3. \A j \in Job \ taken : paused'[j] = paused[j]
    BY <1>8 DEF GlobalPause
  <2>4. StopAll(takenIn)
    BY <1>8 DEF GlobalPause
  <2> HIDE DEF taken
  <2>5. \A j \in taken : WorkerForKey(j) \in Worker
    BY <2>1, <2>2, WorkerTyped DEF CanSnapshot
  <2>6. /\ \A w \in Worker : stop[w] \subseteq stop'[w]
        /\ \A j \in taken : j \in stop'[WorkerForKey(j)]
    BY <2>4, <2>5 DEF StopAll
  <2>7. QED
    BY <2>1, <2>2, <2>3, <2>6, <2>8, Captured
<1>9. CASE BatchDone
  <2>0. Head(posted) \in Worker /\ Head(posted) = posted[1] /\ 1 \in 1 .. Len(posted)
    BY <1>9, HeadTailProperties DEF BatchDone
  <2>1. Head(posted) \in Worker /\ phase[Head(posted)] # "unborn"
    BY <2>0 DEF Queued
  <2>2. /\ phase' = [phase EXCEPT ![Head(posted)] = "over"]
        /\ UNCHANGED <<jobsOf, thread, stop, up, astray>>
        /\ \A j \in Job : paused'[j] \in {paused[j], None}
    BY <1>9 DEF BatchDone, historyVars
  <2>3. QED
    BY <1>0, <2>1, <2>2 DEF Live
<1>10. CASE CancelAll \/ Close
  <2>1. /\ UNCHANGED <<phase, jobsOf, thread, up, astray>> /\ paused' = NoJobs
        /\ \A w \in Worker : stop[w] \subseteq stop'[w]
    BY <1>10 DEF CancelAll, Close, DiscardAndStop, StopAll, historyVars
  <2>2. \A j \in Job : paused'[j] = None
    BY <2>1 DEF NoJobs
  <2>3. QED
    BY <2>1, <2>2 DEF Obeyed, Fresh, Down, Awaited, Superseded, Halted, Live
<1>11. CASE Crash \/ Exit
  <2>1. /\ phase' = [w \in Worker |-> IF phase[w] = "unborn" THEN "unborn" ELSE "over"]
        /\ jobsOf' = [w \in Worker |-> {}]
        /\ thread' = [w \in Worker |-> [j \in Job |-> "off"]]
    BY <1>11 DEF Crash, Exit, Dies
  <2>2. QED
    BY <2>1 DEF Obeyed, Fresh, Down, Awaited, Superseded, Halted, Live
<1>12. CASE Startup
  <2>1. ~up /\ UNCHANGED <<phase, jobsOf, thread, stop>>
    BY <1>12 DEF Startup, workerVars
  <2>2. \A w \in Worker, j \in Job : phase[w] \in {"unborn", "over"} /\ jobsOf[w] = {} /\ ~Live(w, j)
    BY <2>1 DEF Obeyed, Down, Live
  <2>3. QED
    BY <2>1, <2>2 DEF Obeyed, Fresh, Down, Awaited, Superseded, Halted, Live
<1>13. CASE Release \/ ReleaseTimesOut \/ UNCHANGED vars
  <2>1. UNCHANGED <<jobsOf, stop, up, paused, phase, thread, astray>>
    BY <1>13 DEF Release, ReleaseTimesOut, vars, workerVars, memoryVars, historyVars
  <2>2. QED
    BY <1>0, <2>1 DEF Live
<1>14. ASSUME NEW j \in Job, Corrupt(j) PROVE Obeyed'
  <2>1. UNCHANGED <<jobsOf, stop, up, paused, phase, thread, astray>>
    BY <1>14 DEF Corrupt, workerVars, memoryVars, historyVars
  <2>2. QED
    BY <1>0, <2>1 DEF Live
<1>15. ASSUME NEW w \in Worker, WorkerStep(w) PROVE Obeyed'
  <2>1. CASE RunStarts(w) \/ Drain(w)
    BY <1>1, <1>2, <2>1
  <2>2. CASE \E j \in jobsOf[w] : Begin(w, j) \/ Publish(w, j) \/ Error(w, j) \/ Quit(w, j)
    <3>1. jobsOf[w] \subseteq Job
      OBVIOUS
    <3>2. QED
      BY <1>3, <2>2, <3>1
  <2>3. QED
    BY <1>15, <2>1, <2>2 DEF WorkerStep
<1>16. CASE \E late \in SUBSET {j \in Job : CardOver(j)} : GlobalPause(late)
  BY <1>8, <1>16
<1> HIDE DEF Sound, TypeOK
<1>17. QED
  BY <1>4, <1>5, <1>6, <1>7, <1>9, <1>10, <1>11, <1>12, <1>13, <1>14, <1>15, <1>16 DEF Next

(* "A card reading 'paused' over a download that is still running"         *)
(* (pause_track) never happens, but to a job that was downloaded anew      *)
(* while it was paused or running, or that was paused while an older       *)
(* worker still answered for it: whatever other thread still works on a    *)
(* paused job has been told to stop.                                       *)
THEOREM PausedAreStopped == Spec => []PausedIsStopped
<1>1. Init => Obeyed
  BY DEF Init, Obeyed, Fresh, Down, Awaited, Superseded, Halted, Live
<1>2. Obeyed => PausedIsStopped
  BY DEF Obeyed, Halted, Live, PausedIsStopped, Stopped
<1>3. QED
  BY <1>1, <1>2, InitSound, StepSound, StepObeyed, PTL DEF Spec
=============================================================================
