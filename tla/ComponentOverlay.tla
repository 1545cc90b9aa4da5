--------------------------- MODULE ComponentOverlay ---------------------------
(***************************************************************************)
(* Updates of the downloader's components beside an installed application *)
(* (core/component_overlay.py): an approved install prepares a bundle in a *)
(* directory of its own, moves it into place and selects it for the next   *)
(* start; a start discards what was left in preparation, reads which       *)
(* bundle is selected, makes sure of a control record not older than a     *)
(* day, and loads the selected bundle, the one before it, or what the      *)
(* application was shipped with.                                           *)
(*                                                                         *)
(* Nothing keeps two instances of the application apart, so an install     *)
(* reads, writes or moves each file in a step of its own, and an instance  *)
(* may crash between any two. Taken as one step: replacing a JSON file     *)
(* (both instances would write one .tmp file first), making sure of the    *)
(* control record, and choosing and loading a bundle. A tree counts as     *)
(* whole, gutted by a cleaning that took what its health check needs, or   *)
(* damaged where it lies.                                                  *)
(***************************************************************************)
EXTENDS Naturals, FiniteSets

CONSTANTS
    Instance,       \* instances of the application
    Bundle,         \* bundles of components
    Shipped,        \* what the application was shipped with, or no bundle
    Healthy,        \* the bundles that pass their health check
    Version,        \* versions of the application
    Fits,           \* pairs of a version and a bundle compatible with it
    FirstVersion,   \* the version installed first
    MaxChanges,     \* bound: changes of the channel and of the version
    MaxDamage,      \* bound: trees damaged on disk
    MaxCrashes      \* bound: crashes

ASSUME BundlesAssumption ==
    /\ Shipped \notin Bundle /\ Healthy \subseteq Bundle
    /\ Fits \subseteq Version \X Bundle /\ FirstVersion \in Version
ASSUME BoundsAssumption == {MaxChanges, MaxDamage, MaxCrashes} \subseteq Nat

VARIABLES
    channel,    \* the manifest of the official channel
    version,    \* FULL_VERSION
    final,      \* bundles/<id>: the tree of each bundle
    staging,    \* staging/<id>-...: the tree each instance prepares
    pointer,    \* active.json
    control,    \* control.json, and whether it is less than a day old
    pc,         \* where each instance is
    using,      \* the bundle each instance has loaded
    seen,       \* active.json as the instance read it
    manifest,   \* the manifest, or the control record, it works from
    budget      \* what is left of each bound

diskVars == <<final, staging, pointer, control>>
vars == <<channel, version, diskVars, pc, using, seen, manifest, budget>>

Choice == Bundle \cup {Shipped}
Manifests == [bundle : Choice, disabled : BOOLEAN, revoked : SUBSET Bundle]
NoManifest == [bundle |-> Shipped, disabled |-> FALSE, revoked |-> {}]
Pointers == [active : Choice, previous : Choice]
NoPointer == [active |-> Shipped, previous |-> Shipped]
Starting == {"cleaning", "reading", "control", "loading"}
Places == {"off", "running", "eligible", "extract", "mark", "check", "move", "recheck",
           "select", "write", "record"} \cup Starting

(* Every variable keeps its type, and no bound is overdrawn. *)
TypeOK ==
    /\ channel \in Manifests
    /\ version \in Version
    /\ final \in [Bundle -> {"none", "whole", "damaged"}]
    /\ staging \in [Instance -> {"none", "begun", "whole", "gutted"}]
    /\ pointer \in Pointers
    /\ control \in [fresh : BOOLEAN, disabled : BOOLEAN, revoked : SUBSET Bundle]
    /\ pc \in [Instance -> Places]
    /\ using \in [Instance -> Choice]
    /\ seen \in [Instance -> Pointers]
    /\ manifest \in [Instance -> Manifests]
    /\ budget \in [changes : 0 .. MaxChanges, damage : 0 .. MaxDamage, crashes : 0 .. MaxCrashes]

Init ==
    /\ channel \in {[NoManifest EXCEPT !.bundle = b] : b \in Bundle}
    /\ version = FirstVersion
    /\ final = [b \in Bundle |-> "none"]
    /\ staging = [i \in Instance |-> "none"]
    /\ pointer = NoPointer
    /\ control = [fresh |-> FALSE, disabled |-> FALSE, revoked |-> {}]
    /\ pc = [i \in Instance |-> "off"]
    /\ using = [i \in Instance |-> Shipped]
    /\ seen = [i \in Instance |-> NoPointer]
    /\ manifest = [i \in Instance |-> NoManifest]
    /\ budget = [changes |-> MaxChanges, damage |-> MaxDamage, crashes |-> MaxCrashes]

At(i, p) == pc[i] = p
Goto(i, p) == pc' = [pc EXCEPT ![i] = p]

(* An instance that has done, or given up, what it was doing forgets what  *)
(* it had read for it.                                                     *)
Settle(i, p) ==
    /\ Goto(i, p)
    /\ seen' = [seen EXCEPT ![i] = NoPointer]
    /\ manifest' = [manifest EXCEPT ![i] = NoManifest]

Spend(what) ==
    /\ budget[what] > 0
    /\ budget' = [budget EXCEPT ![what] = @ - 1]

----------------------------------------------------------------------------
(* activate_component_overlay                                              *)

(* rmtree(staging) is not one step: a tree it has begun to remove may      *)
(* still be seen, and moved, by the instance that prepares it.             *)
Start(i) ==
    /\ At(i, "off")
    /\ staging' = [j \in Instance |-> IF staging[j] = "none" THEN "none" ELSE "gutted"]
    /\ Goto(i, "cleaning")
    /\ UNCHANGED <<channel, version, final, pointer, control, using, seen, manifest, budget>>

Cleaned(i) ==
    /\ At(i, "cleaning")
    /\ staging' = [j \in Instance |-> IF staging[j] = "gutted" THEN "none" ELSE staging[j]]
    /\ Goto(i, "reading")
    /\ UNCHANGED <<channel, version, final, pointer, control, using, seen, manifest, budget>>

ReadState(i) ==
    /\ At(i, "reading")
    /\ seen' = [seen EXCEPT ![i] = pointer]
    /\ Goto(i, "control")
    /\ UNCHANGED <<channel, version, diskVars, using, manifest, budget>>

Keep(i, c) ==
    /\ manifest' = [manifest EXCEPT ![i].disabled = c.disabled, ![i].revoked = c.revoked]
    /\ Goto(i, "loading")
    /\ UNCHANGED seen

WriteControl(m) ==
    control' = [fresh |-> TRUE, disabled |-> m.disabled, revoked |-> m.revoked]

(* _control_for_activation: a record less than a day old, or a new one, or *)
(* no overlay.                                                             *)
CheckControl(i) ==
    /\ At(i, "control")
    /\ \/ control.fresh /\ Keep(i, control) /\ UNCHANGED control
       \/ ~control.fresh /\ WriteControl(channel) /\ Keep(i, channel)
       \/ ~control.fresh /\ Settle(i, "running") /\ UNCHANGED control
    /\ UNCHANGED <<channel, version, final, staging, pointer, using, budget>>

(* (mutant) the compatibility range is not looked at again *)
ValidAnyVersion(b, c) ==
    /\ b \in Bundle /\ final[b] = "whole"
    /\ ~c.disabled /\ b \notin c.revoked

(* _valid_bundle: a damaged tree does not have the digest of its marker.   *)
Valid(b, c) ==
    /\ b \in Bundle /\ final[b] = "whole" /\ <<version, b>> \in Fits
    /\ ~c.disabled /\ b \notin c.revoked

(* What pointer p comes to under record c. *)
Chosen(p, c) ==
    IF Valid(p.active, c) THEN p.active
    ELSE IF Valid(p.previous, c) THEN p.previous ELSE Shipped

Load(i) ==
    /\ At(i, "loading")
    /\ LET p == seen[i]
           b == Chosen(p, manifest[i])
       IN  /\ using' = [using EXCEPT ![i] = b]
           /\ pointer' = IF b \notin {p.active, Shipped}
                         THEN [active |-> b, previous |-> Shipped] ELSE pointer
    /\ Settle(i, "running")
    /\ UNCHANGED <<channel, version, final, staging, control, budget>>

----------------------------------------------------------------------------
(* install_verified_component_update                                       *)

Install(i) ==
    /\ At(i, "running")
    /\ Goto(i, "eligible")
    /\ manifest' = [manifest EXCEPT ![i] = channel]
    /\ UNCHANGED <<channel, version, diskVars, using, seen, budget>>

Target(i) == manifest[i].bundle

(* The bundle is downloaded and checked against the manifest in hand; a    *)
(* download that fails, or a bundle that is not eligible, ends it.         *)
Eligible(i) ==
    /\ ~manifest[i].disabled /\ Target(i) \notin manifest[i].revoked
    /\ <<version, Target(i)>> \in Fits

(* (mutant) a bundle that is there is removed to make room for the new one *)
FetchAgain(i) ==
    /\ At(i, "eligible")
    /\ \/ /\ Eligible(i)
          /\ final' = [final EXCEPT ![Target(i)] = "none"]
          /\ staging' = [staging EXCEPT ![i] = "begun"]
          /\ Goto(i, "extract")
          /\ UNCHANGED <<seen, manifest>>
       \/ Settle(i, "running") /\ UNCHANGED <<final, staging>>
    /\ UNCHANGED <<channel, version, pointer, control, using, budget>>

Fetch(i) ==
    /\ At(i, "eligible")
    /\ \/ /\ Eligible(i) /\ final[Target(i)] = "none"
          /\ staging' = [staging EXCEPT ![i] = "begun"]
          /\ Goto(i, "extract")
          /\ UNCHANGED <<seen, manifest>>
       \/ /\ Eligible(i) /\ final[Target(i)] # "none"
          /\ Goto(i, "recheck")
          /\ UNCHANGED <<staging, seen, manifest>>
       \/ Settle(i, "running") /\ UNCHANGED staging
    /\ UNCHANGED <<channel, version, final, pointer, control, using, budget>>

(* What its "finally" does with the tree, when it is still there. *)
GiveUp(i) ==
    /\ staging' = [staging EXCEPT ![i] = "none"]
    /\ Settle(i, "running")

(* A cleaning while the bundle is unpacked takes what is there by then. If *)
(* the two files that are looked for come later, the unpacking succeeds,   *)
(* with a tree that lacks something its health check needs, or not.        *)
Extract(i) ==
    /\ At(i, "extract")
    /\ \/ /\ staging[i] = "begun"
          /\ staging' = [staging EXCEPT ![i] = "whole"]
          /\ Goto(i, "mark")
          /\ UNCHANGED <<seen, manifest>>
       \/ /\ staging[i] # "begun"
          /\ \E left \in {"whole", "gutted"} : staging' = [staging EXCEPT ![i] = left]
          /\ Goto(i, "mark")
          /\ UNCHANGED <<seen, manifest>>
       \/ GiveUp(i)
    /\ UNCHANGED <<channel, version, final, pointer, control, using, budget>>

(* The marker with the digest of the tree. A tree gutted before it is      *)
(* digested gets a digest that fits, but not past its health check.        *)
Mark(i) ==
    /\ At(i, "mark")
    /\ \/ staging[i] # "none" /\ Goto(i, "check") /\ UNCHANGED <<staging, seen, manifest>>
       \/ staging[i] = "none" /\ GiveUp(i)
    /\ UNCHANGED <<channel, version, final, pointer, control, using, budget>>

HealthCheck(i) ==
    /\ At(i, "check")
    /\ \/ /\ staging[i] = "whole" /\ Target(i) \in Healthy
          /\ Goto(i, "move")
          /\ UNCHANGED <<staging, seen, manifest>>
       \/ GiveUp(i)
    /\ UNCHANGED <<channel, version, final, pointer, control, using, budget>>

(* (mutant) a tree that is gone counts as moved by another install *)
MoveAnyhow(i) ==
    /\ At(i, "move")
    /\ final' = [final EXCEPT ![Target(i)] = IF staging[i] = "whole" THEN "whole" ELSE @]
    /\ staging' = [staging EXCEPT ![i] = "none"]
    /\ Goto(i, "select")
    /\ UNCHANGED <<seen, manifest>>
    /\ UNCHANGED <<channel, version, pointer, control, using, budget>>

(* os.replace: the tree of another install may be there already, which is  *)
(* ignored or an error, as the system has it; a tree that was removed is   *)
(* an error; one that is being removed arrives as it is.                   *)
Move(i) ==
    /\ At(i, "move")
    /\ \/ /\ staging[i] # "none" /\ final[Target(i)] = "none"
          /\ final' = [final EXCEPT ![Target(i)] =
                           IF staging[i] = "whole" THEN "whole" ELSE "damaged"]
          /\ staging' = [staging EXCEPT ![i] = "none"]
          /\ Goto(i, "select")
          /\ UNCHANGED <<seen, manifest>>
       \/ /\ staging[i] # "none" /\ final[Target(i)] # "none"
          /\ staging' = [staging EXCEPT ![i] = "none"]
          /\ Goto(i, "select")
          /\ UNCHANGED <<final, seen, manifest>>
       \/ GiveUp(i) /\ UNCHANGED final
    /\ UNCHANGED <<channel, version, pointer, control, using, budget>>

(* The bundle is there already: only its health is checked again, which a  *)
(* damaged tree may pass, and which any tree may fail by taking too long.  *)
Recheck(i) ==
    /\ At(i, "recheck")
    /\ \/ /\ Target(i) \in Healthy
          /\ Goto(i, "select")
          /\ UNCHANGED <<seen, manifest>>
       \/ Settle(i, "running")
    /\ UNCHANGED <<channel, version, diskVars, using, budget>>

(* The pointer is read, and then replaced, or cannot be. *)
ReadPointer(i) ==
    /\ At(i, "select")
    /\ seen' = [seen EXCEPT ![i] = pointer]
    /\ Goto(i, "write")
    /\ UNCHANGED <<channel, version, diskVars, using, manifest, budget>>

Before(i) == IF seen[i].active # Target(i) THEN seen[i].active ELSE seen[i].previous

Select(i) ==
    /\ At(i, "write")
    /\ \/ /\ pointer' = [active |-> Target(i), previous |-> Before(i)]
          /\ Goto(i, "record")
          /\ UNCHANGED <<seen, manifest>>
       \/ Settle(i, "running") /\ UNCHANGED pointer
    /\ UNCHANGED <<channel, version, final, staging, control, using, budget>>

Record(i) ==
    /\ At(i, "record")
    /\ WriteControl(manifest[i]) \/ UNCHANGED control
    /\ Settle(i, "running")
    /\ UNCHANGED <<channel, version, final, staging, pointer, using, budget>>

----------------------------------------------------------------------------
(* Everything else                                                         *)

Quit(i) ==
    /\ At(i, "running")
    /\ Settle(i, "off")
    /\ using' = [using EXCEPT ![i] = Shipped]
    /\ UNCHANGED <<channel, version, diskVars, budget>>

Crash(i) ==
    /\ pc[i] \notin {"off", "running"}
    /\ Spend("crashes")
    /\ Settle(i, "off")
    /\ using' = [using EXCEPT ![i] = Shipped]
    /\ UNCHANGED <<channel, version, diskVars>>

(* The channel publishes another bundle, revokes one, or is disabled. *)
ChannelMoves ==
    /\ Spend("changes")
    /\ \/ \E b \in Bundle : channel' = [channel EXCEPT !.bundle = b]
       \/ \E b \in Bundle : channel' = [channel EXCEPT !.revoked = @ \cup {b}]
       \/ channel' = [channel EXCEPT !.disabled = TRUE]
    /\ UNCHANGED <<version, diskVars, pc, using, seen, manifest>>

Upgrade ==
    /\ Spend("changes")
    /\ \A i \in Instance : pc[i] = "off"
    /\ version' \in Version \ {version}
    /\ UNCHANGED <<channel, diskVars, pc, using, seen, manifest>>

DayPasses ==
    /\ control.fresh
    /\ control' = [control EXCEPT !.fresh = FALSE]
    /\ UNCHANGED <<channel, version, final, staging, pointer, pc, using, seen, manifest, budget>>

Damage(b) ==
    /\ Spend("damage")
    /\ final[b] = "whole"
    /\ final' = [final EXCEPT ![b] = "damaged"]
    /\ UNCHANGED <<channel, version, staging, pointer, control, pc, using, seen, manifest>>

StartStep(i) == Start(i) \/ Cleaned(i) \/ ReadState(i) \/ CheckControl(i) \/ Load(i)
InstallStep(i) ==
    \/ Install(i) \/ Fetch(i) \/ Extract(i) \/ Mark(i) \/ HealthCheck(i) \/ Move(i)
    \/ Recheck(i) \/ ReadPointer(i) \/ Select(i) \/ Record(i)

Next ==
    \/ \E i \in Instance : StartStep(i) \/ InstallStep(i) \/ Quit(i) \/ Crash(i)
    \/ ChannelMoves \/ Upgrade \/ DayPasses
    \/ \E b \in Bundle : Damage(b)

Spec == Init /\ [][Next]_vars

----------------------------------------------------------------------------
(* Properties                                                              *)

(* Whatever crashes, races and repeats came before, an instance has loaded *)
(* what it was shipped with or a bundle that passed its health check and   *)
(* is compatible with the version that runs.                               *)
LoadedIsSound ==
    \A i \in Instance :
        using[i] # Shipped => using[i] \in Healthy /\ <<version, using[i]>> \in Fits

(* A crash of an install, at whatever step, never leaves a selection that  *)
(* is not in place, or that was not found healthy before.                  *)
PointerInPlace ==
    \A b \in {pointer.active, pointer.previous} \ {Shipped} :
        final[b] # "none" /\ b \in Healthy

(* What the next start will load is changed by nothing but the selection   *)
(* of an install, the record, damage or another version: not by what an    *)
(* install prepares, and not by a start, unless its view of pointer and    *)
(* record is out of date by the time it falls back.                        *)
Upcoming == Chosen(pointer, control)
UpToDate(i) ==
    /\ seen[i] = pointer
    /\ manifest[i].disabled = control.disabled /\ manifest[i].revoked = control.revoked
SwitchedBySelection ==
    [][Upcoming' # Upcoming =>
        \/ control' # control \/ version' # version
        \/ \E b \in Bundle : final[b] = "whole" /\ final'[b] = "damaged"
        \/ \E i \in Instance : pc[i] = "write" /\ pc'[i] = "record"
        \/ \E i \in Instance : pc[i] = "loading" /\ pc'[i] = "running" /\ ~UpToDate(i)]_vars

(* What the threat model says: the previous valid selection is retained    *)
(* for fallback. An install whose record leaves one of the selections it   *)
(* replaces valid then keeps a valid one to fall back to.                  *)
KeepsLastGood ==
    [][\A i \in Instance :
        /\ pc[i] = "write" /\ pc'[i] = "record"
        /\ \E b \in {pointer.active, pointer.previous} \ {Target(i)} : Valid(b, manifest[i])
        => Valid(pointer'.previous, manifest[i])]_vars
=============================================================================
