-------------------------- MODULE DownloadAdmission -------------------------
(***************************************************************************)
(* The pool threads of core/download_orchestrator.py as clients of the     *)
(* shared coordinator (DownloadRecovery).                                  *)
(*                                                                         *)
(* A job optionally matches a Spotify identity to a YouTube address        *)
(* (_resolve_lazy_url, resolve_track_to_youtube), optionally takes the     *)
(* conservative gate, then attempts the download (_download_one_locked),   *)
(* retries it, waits out rate limits and may rematch once a dead target.   *)
(* Matching and downloading use different request keys.                    *)
(***************************************************************************)
EXTENDS DownloadRecovery, FiniteSets

CONSTANTS
    Job,           \* the jobs of the batch (one pool thread each)
    Lazy,          \* jobs that carry a url_resolver and a Spotify identity
    Conservative,  \* jobs that pass through the conservative gate
    NoPermit,      \* "None" for a permit
    MaxEpoch,      \* bound: how many rate-limit incidents may happen
    MaxRetries     \* retry_policy.DEFAULT_POLICY.max_retries

ASSUME JobAssumption ==
    /\ Lazy \subseteq Job
    /\ Conservative \subseteq Job
    /\ Key = {"match", "download"} \X Job
ASSUME PermitAssumption == NoPermit \notin Permit
ASSUME BoundAssumption == MaxEpoch \in Nat /\ MaxRetries \in Nat

VARIABLES
    pc,         \* where the job's thread is
    stage,      \* which chain it runs: "match", "download" or "rematch"
    permit,     \* permit_box[0] / the resolver's permit
    result,     \* what the last attempt came to
    attempts,   \* retries used by the current retry_download call
    rematched,  \* stale_match_refreshed[0]
    cancelled   \* the job's cancel event, or the engine's

threadVars == <<pc, stage, permit, result, attempts, rematched>>
vars == <<coordinatorVars, threadVars, cancelled>>

PCs == {"idle", "waiting", "permitted", "slot", "inflight", "reporting",
        "returned", "gateWait", "gateCooldown", "leaving", "done"}
Results == {"none", "ok", "rate", "error", "stale", "aborted", "cancelled"}

TypeOK ==
    /\ CoordinatorTypeOK
    /\ pc \in [Job -> PCs]
    /\ stage \in [Job -> {"match", "download", "rematch"}]
    /\ permit \in [Job -> Permit \cup {NoPermit}]
    /\ result \in [Job -> Results]
    /\ attempts \in [Job -> Nat]
    /\ rematched \in [Job -> BOOLEAN]
    /\ cancelled \in [Job -> BOOLEAN]

Init ==
    /\ CoordinatorInit
    /\ pc = [j \in Job |-> "idle"]
    /\ stage = [j \in Job |-> IF j \in Lazy THEN "match" ELSE "download"]
    /\ permit = [j \in Job |-> NoPermit]
    /\ result = [j \in Job |-> "none"]
    /\ attempts = [j \in Job |-> 0]
    /\ rematched = [j \in Job |-> FALSE]
    /\ cancelled = [j \in Job |-> FALSE]

-----------------------------------------------------------------------------
DownloadKey(j) == <<"download", j>>
RequestKey(j) == <<IF stage[j] = "download" THEN "download" ELSE "match", j>>
Resolving(j) == stage[j] # "download"

At(j, loc) == pc[j] = loc
GoTo(j, loc) == pc' = [pc EXCEPT ![j] = loc]
Drop(j) == permit' = [permit EXCEPT ![j] = NoPermit]
Comes(j, r) == result' = [result EXCEPT ![j] = r]

(* Where a finished download goes: the finally block gives the gate back. *)
AfterDownload(j) == IF j \in Conservative THEN "leaving" ELSE "done"

(* Entering _download_resolved_one past its cancel check. *)
StartDownload(j) ==
    /\ stage' = [stage EXCEPT ![j] = "download"]
    /\ IF j \in Conservative
       THEN JoinConservativeQueue /\ GoTo(j, "gateWait")
       ELSE GoTo(j, "waiting") /\ UNCHANGED conservativeVars

Begin(j) ==
    /\ At(j, "idle")
    /\ \/ /\ cancelled[j]
          /\ GoTo(j, "done")
          /\ UNCHANGED <<stage, conservativeVars>>
       \/ /\ ~cancelled[j] /\ j \in Lazy
          /\ GoTo(j, "waiting")
          /\ UNCHANGED <<stage, conservativeVars>>
       \/ /\ ~cancelled[j] /\ j \notin Lazy
          /\ StartDownload(j)
    /\ UNCHANGED <<rateVars, systemicVars, resolutionGate, permit, result,
                   attempts, rematched, cancelled>>

-----------------------------------------------------------------------------
(* The conservative gate. *)

EnterGate(j) ==
    /\ At(j, "gateWait")
    /\ TakeConservativeGate(DownloadKey(j))
    /\ GoTo(j, "gateCooldown")
    /\ UNCHANGED <<rateVars, systemicVars, resolutionGate, stage, permit,
                   result, attempts, rematched, cancelled>>

LeaveQueue(j) ==
    /\ At(j, "gateWait")
    /\ cancelled[j]
    /\ LeaveConservativeQueue
    /\ GoTo(j, "done")
    /\ UNCHANGED <<rateVars, systemicVars, resolutionGate, stage, permit,
                   result, attempts, rematched, cancelled>>

PassGate(j) ==
    /\ At(j, "gateCooldown")
    /\ \/ /\ ~nextStart
          /\ GoTo(j, "waiting")
          /\ UNCHANGED conservativeVars
       \/ /\ cancelled[j]
          /\ DropConservativeGate
          /\ GoTo(j, "done")
    /\ UNCHANGED <<rateVars, systemicVars, resolutionGate, stage, permit,
                   result, attempts, rematched, cancelled>>

LeaveGate(j) ==
    /\ At(j, "leaving")
    /\ ReleaseConservativeGate(~cancelled[j])
    /\ GoTo(j, "done")
    /\ UNCHANGED <<rateVars, systemicVars, resolutionGate, stage, permit,
                   result, attempts, rematched, cancelled>>

-----------------------------------------------------------------------------
(* wait_to_start: admitted with a permit, or given up on cancellation.     *)

Admit(j) ==
    /\ At(j, "waiting")
    /\ \E p \in {[epoch |-> epoch, canary |-> c] : c \in BOOLEAN} :
          /\ AdmitOrdinary(p) \/ AdmitCanary(RequestKey(j), p)
          /\ permit' = [permit EXCEPT ![j] = p]
    /\ GoTo(j, "permitted")
    /\ UNCHANGED <<systemicVars, resolutionGate, conservativeVars, stage,
                   result, attempts, rematched, cancelled>>

GiveUpWaiting(j) ==
    /\ At(j, "waiting")
    /\ cancelled[j]
    /\ AbandonOwner(RequestKey(j))
    /\ Comes(j, "cancelled")
    /\ GoTo(j, "returned")
    /\ UNCHANGED <<systemicVars, resolutionGate, conservativeVars, stage,
                   permit, attempts, rematched, cancelled>>

(* A resolver queues for the resolution gate with its permit in hand. *)
EnterResolution(j) ==
    /\ At(j, "permitted") /\ Resolving(j)
    /\ TakeResolutionGate(RequestKey(j))
    /\ GoTo(j, "slot")
    /\ UNCHANGED <<rateVars, systemicVars, conservativeVars, stage, permit,
                   result, attempts, rematched, cancelled>>

(* Cancelled with a permit in hand: in the queue for the resolution gate,  *)
(* or in the stagger wait an ordinary download attempt makes.              *)
GiveUpPermit(j) ==
    /\ At(j, "permitted")
    /\ cancelled[j]
    /\ Resolving(j) \/ ~permit[j].canary
    /\ AbandonAttempt(permit[j], RequestKey(j))
    /\ Drop(j)
    /\ Comes(j, "cancelled")
    /\ GoTo(j, "returned")
    /\ UNCHANGED <<systemicVars, resolutionGate, conservativeVars, stage,
                   attempts, rematched, cancelled>>

(* The permit is checked again immediately before the network start; a     *)
(* stale one goes back to the gate.                                        *)
Start(j) ==
    /\ At(j, IF Resolving(j) THEN "slot" ELSE "permitted")
    /\ StartPermitValid(permit[j])
    /\ GoTo(j, "inflight")
    /\ UNCHANGED <<coordinatorVars, stage, permit, result, attempts, rematched,
                   cancelled>>

GoRound(j) ==
    /\ At(j, IF Resolving(j) THEN "slot" ELSE "permitted")
    /\ ~StartPermitValid(permit[j])
    /\ IF Resolving(j) THEN ReleaseResolutionGate ELSE UNCHANGED resolutionGate
    /\ AbandonAttempt(permit[j], RequestKey(j))
    /\ Drop(j)
    /\ GoTo(j, "waiting")
    /\ UNCHANGED <<systemicVars, conservativeVars, stage, result, attempts,
                   rematched, cancelled>>

-----------------------------------------------------------------------------
(* The network call comes back.  "ok" is a published file or a match,      *)
(* "stale" a dead target that may be rematched once, "aborted" an engine   *)
(* that saw the cancel event.                                              *)

Answers(j) ==
    {"ok", "error"}
    \cup (IF epoch < MaxEpoch THEN {"rate"} ELSE {})
    \cup (IF ~Resolving(j) /\ cancelled[j] THEN {"aborted"} ELSE {})
    \cup (IF ~Resolving(j) /\ j \in Lazy /\ ~rematched[j] THEN {"stale"} ELSE {})

NetworkReturns(j) ==
    /\ At(j, "inflight")
    /\ \E r \in Answers(j) :
          /\ Comes(j, r)
          /\ IF ~Resolving(j) /\ r = "ok"
             THEN NoteSuccessfulTrack
             ELSE UNCHANGED systemicVars
    /\ IF Resolving(j) THEN ReleaseResolutionGate ELSE UNCHANGED resolutionGate
    /\ GoTo(j, "reporting")
    /\ UNCHANGED <<rateVars, conservativeVars, stage, permit, attempts,
                   rematched, cancelled>>

(* The attempt tells the coordinator what came of its permit. *)
Report(j) ==
    /\ At(j, "reporting")
    /\ LET p == permit[j]
           k == RequestKey(j)
           completes == result[j] \notin {"rate", "aborted"}
                        /\ (result[j] = "stale" \/ Resolving(j) \/ ~cancelled[j])
       IN \/ result[j] = "rate" /\ NoteRateLimit(p, k)
          \/ completes /\ CompleteAttempt(p)
          \/ result[j] # "rate" /\ ~completes /\ AbandonAttempt(p, k)
    /\ Drop(j)
    /\ \/ /\ result[j] = "stale"
          /\ stage' = [stage EXCEPT ![j] = "rematch"]
          /\ rematched' = [rematched EXCEPT ![j] = TRUE]
          /\ GoTo(j, "waiting")
       \/ /\ result[j] # "stale"
          /\ GoTo(j, IF Resolving(j) /\ result[j] = "rate" THEN "waiting" ELSE "returned")
          /\ UNCHANGED <<stage, rematched>>
    /\ UNCHANGED <<systemicVars, resolutionGate, conservativeVars, result,
                   attempts, cancelled>>

-----------------------------------------------------------------------------
(* A failure either belongs to a systemic scope or to this track alone. *)
NoteFailurePolicy ==
    \/ \E s \in Scope : NoteSystemicFailure(s)
    \/ UNCHANGED systemicVars

(* _resolve_lazy_url and resolve_track_to_youtube have come back. *)
Matched(j) ==
    /\ At(j, "returned") /\ stage[j] = "match"
    /\ IF result[j] = "error" THEN NoteFailurePolicy ELSE UNCHANGED systemicVars
    /\ IF cancelled[j] \/ result[j] = "error"
       THEN GoTo(j, "done") /\ UNCHANGED <<stage, conservativeVars>>
       ELSE StartDownload(j)
    /\ UNCHANGED <<rateVars, resolutionGate, permit, result, attempts,
                   rematched, cancelled>>

(* The rematch inside a running attempt: a replacement is tried at once,   *)
(* anything else fails the attempt.                                        *)
Rematched(j) ==
    /\ At(j, "returned") /\ stage[j] = "rematch"
    /\ stage' = [stage EXCEPT ![j] = "download"]
    /\ \/ result[j] = "ok" /\ GoTo(j, "waiting") /\ UNCHANGED result
       \/ Comes(j, "error") /\ UNCHANGED pc
    /\ UNCHANGED <<coordinatorVars, permit, attempts, rematched, cancelled>>

(* retry_download and the loop around it. *)
Cancel(j) ==
    /\ cancelled[j]
    /\ AbandonOwner(DownloadKey(j))
    /\ GoTo(j, AfterDownload(j))
    /\ UNCHANGED <<systemicVars, attempts>>

Succeed(j) ==
    /\ ~cancelled[j] /\ result[j] = "ok"
    /\ GoTo(j, AfterDownload(j))
    /\ UNCHANGED <<rateVars, systemicVars, attempts>>

AwaitCanary(j) ==
    /\ ~cancelled[j] /\ result[j] = "rate"
    /\ GoTo(j, "waiting")
    /\ attempts' = [attempts EXCEPT ![j] = 0]
    /\ UNCHANGED <<rateVars, systemicVars>>

Retry(j) ==
    /\ ~cancelled[j] /\ result[j] = "error"
    /\ attempts[j] < MaxRetries
    /\ GoTo(j, "waiting")
    /\ attempts' = [attempts EXCEPT ![j] = @ + 1]
    /\ UNCHANGED <<rateVars, systemicVars>>

Fail(j) ==
    /\ ~cancelled[j] /\ result[j] = "error"
    /\ NoteFailurePolicy
    /\ GoTo(j, AfterDownload(j))
    /\ UNCHANGED <<rateVars, attempts>>

Settle(j) ==
    /\ At(j, "returned") /\ stage[j] = "download"
    /\ Cancel(j) \/ Succeed(j) \/ AwaitCanary(j) \/ Retry(j) \/ Fail(j)
    /\ UNCHANGED <<resolutionGate, conservativeVars, stage, permit, result,
                   rematched, cancelled>>

-----------------------------------------------------------------------------
ThreadStep(j) ==
    \/ Begin(j) \/ EnterGate(j) \/ LeaveQueue(j) \/ PassGate(j) \/ LeaveGate(j)
    \/ Admit(j) \/ GiveUpWaiting(j) \/ EnterResolution(j) \/ GiveUpPermit(j)
    \/ Start(j) \/ GoRound(j) \/ NetworkReturns(j) \/ Report(j)
    \/ Matched(j) \/ Rematched(j) \/ Settle(j)

(* The user, or the batch, cancels a job that has not finished. *)
CancelJob(j) ==
    /\ ~At(j, "done") /\ ~cancelled[j]
    /\ cancelled' = [cancelled EXCEPT ![j] = TRUE]
    /\ UNCHANGED <<coordinatorVars, threadVars>>

(* The user retries or skips the incident the UI collected. *)
ResolveIncident(s) ==
    /\ s \in pauses
    /\ ResetSystemic(s)
    /\ UNCHANGED <<rateVars, resolutionGate, conservativeVars, threadVars,
                   cancelled>>

RateCooldownOver ==
    /\ CooldownExpires
    /\ UNCHANGED <<systemicVars, resolutionGate, conservativeVars, threadVars,
                   cancelled>>

GateCooldownOver ==
    /\ ConservativeCooldownEnds
    /\ UNCHANGED <<rateVars, systemicVars, resolutionGate, threadVars,
                   cancelled>>

AllDone == \A j \in Job : At(j, "done")

(* The batch has drained: nothing is left to happen. *)
Drained ==
    /\ AllDone
    /\ UNCHANGED vars

Next ==
    \/ \E j \in Job : ThreadStep(j) \/ CancelJob(j)
    \/ \E s \in Scope : ResolveIncident(s)
    \/ RateCooldownOver
    \/ GateCooldownOver
    \/ Drained

Spec == Init /\ [][Next]_vars

(* Every pool thread keeps running, network calls end (the engine sets     *)
(* socket timeouts), the clock advances, and the user eventually answers a *)
(* systemic incident.  Nobody is obliged to cancel anything.               *)
Fairness ==
    /\ \A j \in Job : WF_vars(ThreadStep(j))
    /\ \A s \in Scope : WF_vars(ResolveIncident(s))
    /\ WF_vars(RateCooldownOver)
    /\ WF_vars(GateCooldownOver)

FairSpec == Spec /\ Fairness

-----------------------------------------------------------------------------
(* Properties.                                                             *)

WithPermit == {"permitted", "slot", "inflight", "reporting"}
HasCanary(j) == permit[j] # NoPermit /\ permit[j].canary

(* A canary flag is always somebody's: no exit of a pool thread leaves     *)
(* _canary_in_flight set behind it, which would park every other request   *)
(* of the process behind a canary that no longer exists.                   *)
CanaryFlagHasHolder == canaryInFlight => \E j \in Job : HasCanary(j)

(* While an incident has an owner, admission is closed and the owner's      *)
(* thread is still inside the chain that made the request: it will come    *)
(* back to wait_to_start, and whatever permit it then holds is the canary  *)
(* of this very incident.  A dead owner would close admission for good,    *)
(* since nobody else may send the canary.                                  *)
OwnerStillThere ==
    owner # NoOwner =>
        /\ blocked # "open"
        /\ \E j \in Job :
              /\ owner = RequestKey(j)
              /\ \/ At(j, "waiting")
                 \/ At(j, "returned") /\ stage[j] = "download" /\ result[j] = "rate"
                 \/ pc[j] \in WithPermit /\ permit[j] = [epoch |-> epoch, canary |-> TRUE]

(* A permit is in a thread's hand exactly between wait_to_start and its     *)
(* report, it never comes from a future incident, and one of the current   *)
(* epoch that is not a canary's was issued with admission open - so what   *)
(* is_start_permit_valid lets through while an incident is unresolved can  *)
(* only be a canary.                                                       *)
PermitsFresh ==
    \A j \in Job :
        /\ pc[j] \in WithPermit <=> permit[j] # NoPermit
        /\ permit[j] # NoPermit =>
              /\ permit[j].epoch <= epoch
              /\ permit[j].epoch = epoch /\ ~permit[j].canary => blocked = "open"

(* A scope is stopped exactly while its streak has reached the threshold:  *)
(* neither a late success of a track that was already in flight nor a      *)
(* further failure moves one without the other.                            *)
StoppedByStreak ==
    \A s \in Scope : s \in pauses <=> streak[s] >= Threshold[s]

(* The gates belong to threads that are really between acquire and         *)
(* release, and the waiter count is the number of threads in the queue:    *)
(* every cancellation path gives back what it took.                        *)
GatesAccounted ==
    /\ \A j \in Job :
          /\ resolutionGate = RequestKey(j)
             <=> Resolving(j) /\ pc[j] \in {"slot", "inflight"}
          /\ conservativeGate = DownloadKey(j)
             => j \in Conservative /\ pc[j] \notin {"idle", "gateWait", "done"}
    /\ waiters = Cardinality({j \in Job : At(j, "gateWait")})

(* After a rate limit nothing but canaries goes out until a canary of that *)
(* very incident has come back, and nothing goes out while a systemic      *)
(* failure has stopped all work: the requests on the wire obey the         *)
(* abstract breaker, whatever permits were handed out before.              *)
OnTheWire(j) ==
    IF pc[j] \notin {"inflight", "reporting"} THEN <<>>
    ELSE IF permit[j].canary THEN <<"probe", permit[j].epoch>>
    ELSE <<"traffic">>

Breaker == INSTANCE CircuitBreaker WITH
    Request <- Job,
    gate <- IF blocked = "open" THEN "open" ELSE "closed",
    incident <- epoch,
    stopped <- pauses # {},
    wire <- [j \in Job |-> OnTheWire(j)]

KeepsTheGate == Breaker!Spec

(* "Exactly one canary" (core/download_recovery.py:13, and                 *)
(* docs/architecture/overview.md:88 "the sole post-deadline canary").      *)
SoleCanary ==
    \A i, j \in Job :
        /\ HasCanary(i) /\ At(i, "inflight")
        /\ HasCanary(j) /\ At(j, "inflight")
        => i = j

(* Every job of the batch ends, whatever is cancelled, throttled, failed   *)
(* or stopped on the way.                                                  *)
EveryJobEnds == \A j \in Job : <>At(j, "done")
=============================================================================
