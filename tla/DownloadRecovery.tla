-------------------------- MODULE DownloadRecovery --------------------------
(***************************************************************************)
(* The process-wide download coordinator of core/download_recovery.py.     *)
(*                                                                         *)
(* One DownloadRecoveryCoordinator is shared by every producer of YouTube  *)
(* requests.  It holds an explicit rate limit (an "incident": a cooldown,  *)
(* then one canary), the systemic pauses, the gate that serialises match   *)
(* resolution and the gate that serialises conservative downloads.  Every  *)
(* operator below is one method, and one method runs under the             *)
(* coordinator's condition lock, so it is one step.                        *)
(*                                                                         *)
(* The deadline `_blocked_until` is kept as the three cases the code tells *)
(* apart (0, in the future, in the past); the next conservative start as   *)
(* whether it still lies in the future.                                    *)
(***************************************************************************)
EXTENDS Naturals

CONSTANTS
    Key,         \* request keys: what the callers pass as request_key
    NoOwner,     \* "None" for _rate_owner and for a gate nobody holds
    Scope,       \* the systemic failure scopes
    Threshold    \* consecutive failures of a scope that stop all work

ASSUME KeyAssumption == NoOwner \notin Key
ASSUME ThresholdAssumption == Threshold \in [Scope -> Nat \ {0}]

VARIABLES
    blocked,           \* _blocked_until: "open" (0), "cooling", "expired"
    epoch,             \* _rate_epoch
    owner,             \* _rate_owner
    canaryInFlight,    \* _canary_in_flight
    streak,            \* _systemic_streaks
    pauses,            \* _systemic_pauses
    resolutionGate,    \* _resolution_gate: its holder
    conservativeGate,  \* _conservative_gate: its holder
    waiters,           \* _conservative_waiters
    nextStart          \* _conservative_next_start lies in the future

rateVars == <<blocked, epoch, owner, canaryInFlight>>
systemicVars == <<streak, pauses>>
conservativeVars == <<conservativeGate, waiters, nextStart>>
coordinatorVars == <<rateVars, systemicVars, resolutionGate, conservativeVars>>

Permit == [epoch : Nat, canary : BOOLEAN]

CoordinatorTypeOK ==
    /\ blocked \in {"open", "cooling", "expired"}
    /\ epoch \in Nat
    /\ owner \in Key \cup {NoOwner}
    /\ canaryInFlight \in BOOLEAN
    /\ streak \in [Scope -> Nat]
    /\ pauses \in SUBSET Scope
    /\ resolutionGate \in Key \cup {NoOwner}
    /\ conservativeGate \in Key \cup {NoOwner}
    /\ waiters \in Nat
    /\ nextStart \in BOOLEAN

CoordinatorInit ==
    /\ blocked = "open"
    /\ epoch = 0
    /\ owner = NoOwner
    /\ canaryInFlight = FALSE
    /\ streak = [s \in Scope |-> 0]
    /\ pauses = {}
    /\ resolutionGate = NoOwner
    /\ conservativeGate = NoOwner
    /\ waiters = 0
    /\ nextStart = FALSE

-----------------------------------------------------------------------------
(* wait_to_start: the two ways out of its loop with a permit p.            *)

(* Admission that opens with the deadline, before any canary came back. *)
AdmitAfterDeadline(p) ==
    /\ pauses = {}
    /\ blocked # "cooling"
    /\ p = [epoch |-> epoch, canary |-> FALSE]
    /\ UNCHANGED rateVars

AdmitOrdinary(p) ==
    /\ pauses = {}
    /\ blocked = "open"
    /\ p = [epoch |-> epoch, canary |-> FALSE]
    /\ UNCHANGED rateVars

AdmitCanary(k, p) ==
    /\ pauses = {}
    /\ blocked = "expired"
    /\ owner \in {NoOwner, k}
    /\ ~canaryInFlight
    /\ p = [epoch |-> epoch, canary |-> TRUE]
    /\ canaryInFlight' = TRUE
    /\ UNCHANGED <<blocked, epoch, owner>>

StartPermitValid(p) ==
    /\ pauses = {}
    /\ p.epoch = epoch
    /\ blocked # "cooling"
    /\ p.canary => canaryInFlight

-----------------------------------------------------------------------------
(* A 429.  A deadline that still lies in the future is only extended, by   *)
(* an ordinary request; anything else opens the next incident.             *)

NoteRateLimit(p, k) ==
    /\ IF blocked = "cooling" /\ ~p.canary
       THEN UNCHANGED <<blocked, epoch, owner>>
       ELSE /\ blocked' = "cooling"
            /\ epoch' = epoch + 1
            /\ owner' = k
    /\ canaryInFlight' = (canaryInFlight /\ ~p.canary)

(* CompleteAttempt forgetting to compare the permit's epoch. *)
CompleteAnyEpoch(p) ==
    IF p.canary
    THEN /\ blocked' = "open"
         /\ owner' = NoOwner
         /\ canaryInFlight' = FALSE
         /\ UNCHANGED epoch
    ELSE UNCHANGED rateVars

CompleteAttempt(p) ==
    IF p.canary
    THEN /\ IF p.epoch = epoch
            THEN blocked' = "open" /\ owner' = NoOwner
            ELSE UNCHANGED <<blocked, owner>>
         /\ canaryInFlight' = FALSE
         /\ UNCHANGED epoch
    ELSE UNCHANGED rateVars

(* AbandonAttempt keeping the canary flag it was given. *)
AbandonKeepingFlag(p, k) ==
    /\ owner' = IF p.canary /\ owner = k THEN NoOwner ELSE owner
    /\ UNCHANGED <<blocked, epoch, canaryInFlight>>

AbandonAttempt(p, k) ==
    IF p.canary
    THEN /\ canaryInFlight' = FALSE
         /\ owner' = IF owner = k THEN NoOwner ELSE owner
         /\ UNCHANGED <<blocked, epoch>>
    ELSE UNCHANGED rateVars

(* AbandonOwner that never hands the incident over. *)
KeepOwner(k) == UNCHANGED rateVars

AbandonOwner(k) ==
    IF owner = k
    THEN /\ owner' = NoOwner
         /\ canaryInFlight' = FALSE
         /\ UNCHANGED <<blocked, epoch>>
    ELSE UNCHANGED rateVars

(* The clock passes _blocked_until. *)
CooldownExpires ==
    /\ blocked = "cooling"
    /\ blocked' = "expired"
    /\ UNCHANGED <<epoch, owner, canaryInFlight>>

-----------------------------------------------------------------------------
NoteSystemicFailure(s) ==
    /\ streak' = [streak EXCEPT ![s] = @ + 1]
    /\ pauses' = IF streak'[s] >= Threshold[s] THEN pauses \cup {s} ELSE pauses

(* A success that also forgets the streak of a stopped scope. *)
ForgetEveryStreak ==
    /\ streak' = [s \in Scope |-> 0]
    /\ UNCHANGED pauses

NoteSuccessfulTrack ==
    /\ streak' = [s \in Scope |-> IF s \in pauses THEN streak[s] ELSE 0]
    /\ UNCHANGED pauses

ResetSystemic(s) ==
    /\ streak' = [streak EXCEPT ![s] = 0]
    /\ pauses' = pauses \ {s}

-----------------------------------------------------------------------------
(* The two gates.  A gate is a plain lock: acquiring waits until it is     *)
(* free, and the caller polls its own cancel event while it waits.         *)

TakeResolutionGate(k) ==
    /\ resolutionGate = NoOwner
    /\ resolutionGate' = k

(* A return path that forgets the gate. *)
KeepResolutionGate == UNCHANGED resolutionGate

ReleaseResolutionGate == resolutionGate' = NoOwner

JoinConservativeQueue ==
    /\ waiters' = waiters + 1
    /\ UNCHANGED <<conservativeGate, nextStart>>

LeaveConservativeQueue ==
    /\ waiters' = IF waiters > 0 THEN waiters - 1 ELSE 0
    /\ UNCHANGED <<conservativeGate, nextStart>>

TakeConservativeGate(k) ==
    /\ conservativeGate = NoOwner
    /\ conservativeGate' = k
    /\ waiters' = IF waiters > 0 THEN waiters - 1 ELSE 0
    /\ UNCHANGED nextStart

(* Cancelled while the cooldown runs: the gate goes, the cooldown stays. *)
DropConservativeGate ==
    /\ conservativeGate' = NoOwner
    /\ UNCHANGED <<waiters, nextStart>>

(* Only a peer that already waits is made to observe the cooldown. *)
ReleaseConservativeGate(cooldown) ==
    /\ conservativeGate' = NoOwner
    /\ nextStart' = (waiters > 0 /\ (nextStart \/ cooldown))
    /\ UNCHANGED waiters

ConservativeCooldownEnds ==
    /\ nextStart
    /\ nextStart' = FALSE
    /\ UNCHANGED <<conservativeGate, waiters>>
=============================================================================
