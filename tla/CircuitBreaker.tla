--------------------------- MODULE CircuitBreaker ---------------------------
(***************************************************************************)
(* What the coordinator of core/download_recovery.py promises about the    *)
(* requests on the wire, without saying how it keeps the promise.          *)
(*                                                                         *)
(* A rate limit opens an incident and closes the gate.  While the gate is  *)
(* closed only probes go out, each on behalf of the incident it was sent   *)
(* for, and the gate opens again only when a probe of the current incident *)
(* has come back.  Nothing at all starts while work is stopped.            *)
(***************************************************************************)
EXTENDS Naturals

CONSTANT Request

VARIABLES
    gate,      \* "open" or "closed"
    incident,  \* how many rate-limit incidents there have been
    stopped,   \* a systemic failure has stopped all work
    wire       \* what each request has on the wire

Idle == <<>>
Traffic == <<"traffic">>
Probe(n) == <<"probe", n>>

vars == <<gate, incident, stopped, wire>>

Init ==
    /\ gate = "open"
    /\ incident = 0
    /\ stopped = FALSE
    /\ wire = [r \in Request |-> Idle]

Send(r, what) ==
    /\ ~stopped
    /\ wire' = [wire EXCEPT ![r] = what]
    /\ UNCHANGED <<gate, incident, stopped>>

SendTraffic(r) == gate = "open" /\ Send(r, Traffic)
SendProbe(r) == Send(r, Probe(incident))

Over(r) == wire[r] # Idle /\ wire' = [wire EXCEPT ![r] = Idle]

Throttled(r) ==
    /\ Over(r)
    /\ gate' = "closed"
    /\ incident' = incident + 1
    /\ UNCHANGED stopped

Answered(r) ==
    /\ Over(r)
    /\ UNCHANGED <<gate, incident, stopped>>

Proved(r) ==
    /\ wire[r] = Probe(incident)
    /\ Over(r)
    /\ gate' = "open"
    /\ UNCHANGED <<incident, stopped>>

StopOrResume ==
    /\ stopped' = ~stopped
    /\ UNCHANGED <<gate, incident, wire>>

Next ==
    \/ \E r \in Request : \/ SendTraffic(r) \/ SendProbe(r)
                          \/ Throttled(r) \/ Answered(r) \/ Proved(r)
    \/ StopOrResume

Spec == Init /\ [][Next]_vars
=============================================================================
