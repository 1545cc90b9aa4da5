------------------------ MODULE ComponentOverlayProofs ------------------------
(***************************************************************************)
(* What holds of the component overlay for any instances, bundles and      *)
(* versions. An instance has loaded something sound because the tree it    *)
(* loaded was whole and checked again, and every tree in place was moved   *)
(* by an install that had found it healthy: Sound below is the inductive   *)
(* invariant that says so, together with the places where an install has   *)
(* its tree in place before it selects it.                                 *)
(***************************************************************************)
EXTENDS ComponentOverlay, TLAPS

Installing == {"eligible", "extract", "mark", "check", "move", "recheck", "select", "write",
               "record"}
InPlace == {"recheck", "select", "write", "record"}

Placed(p) == \A b \in {p.active, p.previous} \ {Shipped} : final[b] # "none"

Targets ==
    /\ channel.bundle \in Bundle
    /\ \A i \in Instance : pc[i] \in Installing => Target(i) \in Bundle
    /\ \A i \in Instance : pc[i] = "move" => Target(i) \in Healthy
    /\ \A i \in Instance : pc[i] \in InPlace => final[Target(i)] # "none"
Trees == \A b \in Bundle : final[b] # "none" => b \in Healthy
Selected == Placed(pointer) /\ \A i \in Instance : Placed(seen[i])
Loaded ==
    /\ \A i \in Instance : pc[i] \in {"off"} \cup Starting => using[i] = Shipped
    /\ LoadedIsSound

Sound == TypeOK /\ Targets /\ Trees /\ Selected /\ Loaded

(* What an instance forgets to is of its type, and names no bundle.         *)
LEMMA Blanks ==
    /\ NoPointer \in Pointers /\ NoManifest \in Manifests /\ Shipped \in Choice
    /\ Bundle \subseteq Choice /\ Shipped \notin Bundle
    /\ NoPointer.active = Shipped /\ NoPointer.previous = Shipped
    /\ \A m \in Manifests : m.disabled \in BOOLEAN /\ m.revoked \in SUBSET Bundle
                             /\ m.bundle \in Choice
    /\ \A p \in Pointers : p.active \in Choice /\ p.previous \in Choice
BY BundlesAssumption DEF NoPointer, Pointers, NoManifest, Manifests, Choice

(* What a start keeps of a record changes no bundle of a manifest.         *)
LEMMA Kept ==
    ASSUME TypeOK, NEW i \in Instance, NEW c, Keep(i, c),
           c.disabled \in BOOLEAN, c.revoked \in SUBSET Bundle
    PROVE  /\ manifest' \in [Instance -> Manifests]
           /\ \A j \in Instance : manifest'[j].bundle = manifest[j].bundle
           /\ pc' = [pc EXCEPT ![i] = "loading"]
           /\ seen' = seen
BY DEF TypeOK, Manifests, Keep, Goto

(* A start, once it has seen to the record: it installs nothing.           *)
LEMMA Checked ==
    ASSUME TypeOK, NEW i \in Instance, CheckControl(i)
    PROVE  /\ control' \in [fresh : BOOLEAN, disabled : BOOLEAN, revoked : SUBSET Bundle]
           /\ manifest' \in [Instance -> Manifests]
           /\ seen' \in [Instance -> Pointers]
           /\ \E p \in {"loading", "running"} : pc' = [pc EXCEPT ![i] = p]
           /\ \A j \in Instance : seen'[j] \in {seen[j], NoPointer}
           /\ \A j \in Instance : j # i => manifest'[j].bundle = manifest[j].bundle
           /\ UNCHANGED <<channel, version, final, staging, pointer, using, budget>>
           /\ pc[i] = "control"
<1>0. pc[i] = "control" /\ UNCHANGED <<channel, version, final, staging, pointer, using, budget>>
  BY DEF CheckControl, At
<1> USE Blanks, <1>0 DEF TypeOK, WriteControl
<1>1. CASE control.fresh /\ Keep(i, control) /\ UNCHANGED control
  <2>1. control.disabled \in BOOLEAN /\ control.revoked \in SUBSET Bundle
    OBVIOUS
  <2>2. QED
    BY <1>1, <2>1, Kept
<1>2. CASE WriteControl(channel) /\ Keep(i, channel)
  <2>1. channel.disabled \in BOOLEAN /\ channel.revoked \in SUBSET Bundle
    OBVIOUS
  <2>2. QED
    BY <1>2, <2>1, Kept
<1>3. CASE Settle(i, "running") /\ UNCHANGED control
  BY <1>3 DEF Settle, Goto
<1>4. QED
  BY <1>1, <1>2, <1>3 DEF CheckControl, At

(* A tree that arrives puts nothing out of place.                          *)
LEMMA Arrived ==
    ASSUME TypeOK, NEW t \in Bundle, NEW how \in {"whole", "damaged"},
           final' = [final EXCEPT ![t] = how]
    PROVE  /\ final' \in [Bundle -> {"none", "whole", "damaged"}]
           /\ \A b \in Bundle : final[b] # "none" => final'[b] # "none"
           /\ final'[t] # "none"
BY DEF TypeOK

(* What becomes of the manifest of the channel.                            *)
LEMMA Published ==
    ASSUME TypeOK, channel.bundle \in Bundle, ChannelMoves
    PROVE  channel' \in Manifests /\ channel'.bundle \in Bundle
<1> USE DEF TypeOK, Manifests, Choice
<1>1. CASE \E b \in Bundle : channel' = [channel EXCEPT !.bundle = b]
  BY <1>1
<1>2. CASE \E b \in Bundle : channel' = [channel EXCEPT !.revoked = @ \cup {b}]
  BY <1>2
<1>3. CASE channel' = [channel EXCEPT !.disabled = TRUE]
  BY <1>3
<1>4. QED
  BY <1>1, <1>2, <1>3 DEF ChannelMoves

(* Types: every step keeps them; an install writes only bundles.           *)
LEMMA TypeStep == Sound /\ [Next]_vars => TypeOK'
<1> SUFFICES ASSUME Sound, [Next]_vars
             PROVE  TypeOK'
  OBVIOUS
<1> USE BundlesAssumption, BoundsAssumption, Blanks
    DEF Sound, Targets, Target, Installing, TypeOK,
        Starting, Places, diskVars
<1>1. ASSUME NEW i \in Instance, Start(i)
      PROVE  TypeOK'
  BY <1>1 DEF Start, At, Goto
<1>2. ASSUME NEW i \in Instance, Cleaned(i)
      PROVE  TypeOK'
  BY <1>2 DEF Cleaned, At, Goto
<1>3. ASSUME NEW i \in Instance, ReadState(i)
      PROVE  TypeOK'
  BY <1>3 DEF ReadState, At, Goto
<1>4. ASSUME NEW i \in Instance, CheckControl(i)
      PROVE  TypeOK'
  <2>1. PICK p \in {"loading", "running"} : pc' = [pc EXCEPT ![i] = p]
    BY <1>4, Checked
  <2>2. QED
    BY <1>4, <2>1, Checked
<1>5. ASSUME NEW i \in Instance, Load(i)
      PROVE  TypeOK'
  BY <1>5 DEF Load, At, Goto, Pointers, Settle, Chosen, Valid
<1>6. ASSUME NEW i \in Instance, Install(i)
      PROVE  TypeOK'
  BY <1>6 DEF Install, At, Goto
<1>7. ASSUME NEW i \in Instance, Fetch(i)
      PROVE  TypeOK'
  <2>1. CASE Settle(i, "running")
    BY <1>7, <2>1 DEF Fetch, At, Goto, Settle, Eligible
  <2>2. CASE ~Settle(i, "running")
    BY <1>7, <2>2 DEF Fetch, At, Goto, Settle, Eligible
  <2>3. QED
    BY <1>7, <2>1, <2>2 DEF Fetch, At, Goto, Settle, Eligible
<1>8. ASSUME NEW i \in Instance, Extract(i)
      PROVE  TypeOK'
  <2>1. CASE GiveUp(i)
    BY <1>8, <2>1 DEF Extract, At, Goto, GiveUp, Settle
  <2>2. CASE ~GiveUp(i)
    BY <1>8, <2>2 DEF Extract, At, Goto, GiveUp, Settle
  <2>3. QED
    BY <1>8, <2>1, <2>2 DEF Extract, At, Goto, GiveUp, Settle
<1>9. ASSUME NEW i \in Instance, Mark(i)
      PROVE  TypeOK'
  <2>1. CASE GiveUp(i)
    BY <1>9, <2>1 DEF Mark, At, Goto, GiveUp, Settle
  <2>2. CASE ~GiveUp(i)
    BY <1>9, <2>2 DEF Mark, At, Goto, GiveUp, Settle
  <2>3. QED
    BY <1>9, <2>1, <2>2 DEF Mark, At, Goto, GiveUp, Settle
<1>10. ASSUME NEW i \in Instance, HealthCheck(i)
      PROVE  TypeOK'
  BY <1>10 DEF HealthCheck, At, Goto, GiveUp, Settle
<1>11. ASSUME NEW i \in Instance, Move(i)
      PROVE  TypeOK'
  <2>1. CASE GiveUp(i)
    BY <1>11, <2>1 DEF Move, At, Goto, GiveUp, Settle
  <2>2. CASE staging[i] # "none" /\ final[Target(i)] = "none" /\ ~GiveUp(i)
    BY <1>11, <2>2, Arrived DEF Move, At, Goto, GiveUp, Settle
  <2>3. CASE staging[i] # "none" /\ final[Target(i)] # "none" /\ ~GiveUp(i)
    BY <1>11, <2>3 DEF Move, At, Goto, GiveUp, Settle
  <2>4. QED
    BY <1>11, <2>1, <2>2, <2>3 DEF Move, At, Goto, GiveUp, Settle
<1>12. ASSUME NEW i \in Instance, Recheck(i)
      PROVE  TypeOK'
  <2>1. CASE Settle(i, "running")
    BY <1>12, <2>1 DEF Recheck, At, Goto, Settle
  <2>2. CASE ~Settle(i, "running")
    BY <1>12, <2>2 DEF Recheck, At, Goto, Settle
  <2>3. QED
    BY <2>1, <2>2
<1>13. ASSUME NEW i \in Instance, ReadPointer(i)
      PROVE  TypeOK'
  BY <1>13 DEF ReadPointer, At, Goto
<1>14. ASSUME NEW i \in Instance, Select(i)
      PROVE  TypeOK'
  <2>1. CASE Settle(i, "running")
    BY <1>14, <2>1 DEF Select, At, Goto, Pointers, Before, Settle
  <2>2. CASE ~Settle(i, "running")
    BY <1>14, <2>2 DEF Select, At, Goto, Pointers, Before, Settle
  <2>3. QED
    BY <2>1, <2>2
<1>15. ASSUME NEW i \in Instance, Record(i)
      PROVE  TypeOK'
  <2>1. control' \in [fresh : BOOLEAN, disabled : BOOLEAN, revoked : SUBSET Bundle]
    <3>1. manifest[i].disabled \in BOOLEAN /\ manifest[i].revoked \in SUBSET Bundle
      BY <1>15 DEF Manifests
    <3>2. CASE UNCHANGED control
      BY <3>2
    <3>3. CASE WriteControl(manifest[i])
      BY <3>1, <3>3 DEF WriteControl
    <3> QED
      BY <1>15, <3>2, <3>3 DEF Record
  <2>2. QED
    BY <1>15, <2>1 DEF Record, At, Goto, Settle
<1>16. ASSUME NEW i \in Instance, Quit(i)
      PROVE  TypeOK'
  BY <1>16 DEF Quit, At, Goto, Settle
<1>17. ASSUME NEW i \in Instance, Crash(i)
      PROVE  TypeOK'
  BY <1>17 DEF Crash, At, Goto, Settle, Spend
<1>18. CASE ChannelMoves
  BY <1>18, Published DEF ChannelMoves, Spend
<1>19. CASE Upgrade
  BY <1>19 DEF Upgrade, Spend
<1>20. CASE DayPasses
  BY <1>20 DEF DayPasses
<1>21. ASSUME NEW b \in Bundle, Damage(b)
      PROVE  TypeOK'
  BY <1>21 DEF Damage, Spend
<1>22. CASE UNCHANGED vars
  BY <1>22 DEF vars, diskVars
<1>23. QED
  BY <1>1, <1>2, <1>3, <1>4, <1>5, <1>6, <1>7, <1>8, <1>9, <1>10, <1>11, <1>12, <1>13,
     <1>14, <1>15, <1>16, <1>17, <1>18, <1>19, <1>20, <1>21, <1>22
     DEF Next, StartStep, InstallStep

(* An install works on a bundle, moves it once it is healthy, and selects  *)
(* it once it is in place.                                                 *)
LEMMA TargetsStep == Sound /\ [Next]_vars => Targets'
<1> SUFFICES ASSUME Sound, [Next]_vars
             PROVE  Targets'
  OBVIOUS
<1> USE BundlesAssumption, BoundsAssumption, Blanks
    DEF Sound, Targets, Target, Installing, InPlace, TypeOK,
        Starting, Places, diskVars
<1>1. ASSUME NEW i \in Instance, Start(i)
      PROVE  Targets'
  BY <1>1 DEF Start, At, Goto
<1>2. ASSUME NEW i \in Instance, Cleaned(i)
      PROVE  Targets'
  BY <1>2 DEF Cleaned, At, Goto
<1>3. ASSUME NEW i \in Instance, ReadState(i)
      PROVE  Targets'
  BY <1>3 DEF ReadState, At, Goto
<1>4. ASSUME NEW i \in Instance, CheckControl(i)
      PROVE  Targets'
  <2>1. PICK p \in {"loading", "running"} : pc' = [pc EXCEPT ![i] = p]
    BY <1>4, Checked
  <2>2. \A j \in Instance : pc'[j] \in Installing => j # i /\ pc'[j] = pc[j]
    BY <2>1
  <2>3. \A j \in Instance : j # i => manifest'[j].bundle = manifest[j].bundle
    BY <1>4, Checked
  <2>4. channel' = channel /\ final' = final
    BY <1>4, Checked
  <2>5. QED
    BY <2>2, <2>3, <2>4
<1>5. ASSUME NEW i \in Instance, Load(i)
      PROVE  Targets'
  BY <1>5 DEF Load, At, Goto, Pointers, Settle, Chosen, Valid
<1>6. ASSUME NEW i \in Instance, Install(i)
      PROVE  Targets'
  BY <1>6 DEF Install, At, Goto
<1>7. ASSUME NEW i \in Instance, Fetch(i)
      PROVE  Targets'
  BY <1>7 DEF Fetch, At, Goto, Settle, Eligible
<1>8. ASSUME NEW i \in Instance, Extract(i)
      PROVE  Targets'
  BY <1>8 DEF Extract, At, Goto, GiveUp, Settle
<1>9. ASSUME NEW i \in Instance, Mark(i)
      PROVE  Targets'
  BY <1>9 DEF Mark, At, Goto, GiveUp, Settle
<1>10. ASSUME NEW i \in Instance, HealthCheck(i)
      PROVE  Targets'
  BY <1>10 DEF HealthCheck, At, Goto, GiveUp, Settle
<1>11. ASSUME NEW i \in Instance, Move(i)
      PROVE  Targets'
  BY <1>11 DEF Move, At, Goto, GiveUp, Settle
<1>12. ASSUME NEW i \in Instance, Recheck(i)
      PROVE  Targets'
  BY <1>12 DEF Recheck, At, Goto, Settle
<1>13. ASSUME NEW i \in Instance, ReadPointer(i)
      PROVE  Targets'
  BY <1>13 DEF ReadPointer, At, Goto
<1>14. ASSUME NEW i \in Instance, Select(i)
      PROVE  Targets'
  <2>1. CASE Settle(i, "running")
    BY <1>14, <2>1 DEF Select, At, Goto, Pointers, Before, Settle
  <2>2. CASE ~Settle(i, "running")
    BY <1>14, <2>2 DEF Select, At, Goto, Pointers, Before, Settle
  <2>3. QED
    BY <2>1, <2>2
<1>15. ASSUME NEW i \in Instance, Record(i)
      PROVE  Targets'
  BY <1>15 DEF Record, At, Goto, WriteControl, Settle
<1>16. ASSUME NEW i \in Instance, Quit(i)
      PROVE  Targets'
  BY <1>16 DEF Quit, At, Goto, Settle
<1>17. ASSUME NEW i \in Instance, Crash(i)
      PROVE  Targets'
  BY <1>17 DEF Crash, At, Goto, Settle, Spend
<1>18. CASE ChannelMoves
  BY <1>18, Published DEF ChannelMoves, Spend
<1>19. CASE Upgrade
  BY <1>19 DEF Upgrade, Spend
<1>20. CASE DayPasses
  BY <1>20 DEF DayPasses
<1>21. ASSUME NEW b \in Bundle, Damage(b)
      PROVE  Targets'
  BY <1>21 DEF Damage, Spend
<1>22. CASE UNCHANGED vars
  BY <1>22 DEF vars, diskVars
<1>23. QED
  BY <1>1, <1>2, <1>3, <1>4, <1>5, <1>6, <1>7, <1>8, <1>9, <1>10, <1>11, <1>12, <1>13,
     <1>14, <1>15, <1>16, <1>17, <1>18, <1>19, <1>20, <1>21, <1>22
     DEF Next, StartStep, InstallStep

(* A tree is put in place only by an install that found it healthy.        *)
LEMMA TreesStep == Sound /\ [Next]_vars => Trees'
<1> SUFFICES ASSUME Sound, [Next]_vars
             PROVE  Trees'
  OBVIOUS
<1> USE BundlesAssumption, BoundsAssumption, Blanks
    DEF Sound, Targets, Target, Trees, Installing, InPlace, TypeOK,
        Starting, Places, diskVars
<1>1. ASSUME NEW i \in Instance, Start(i)
      PROVE  Trees'
  BY <1>1 DEF Start, At, Goto
<1>2. ASSUME NEW i \in Instance, Cleaned(i)
      PROVE  Trees'
  BY <1>2 DEF Cleaned, At, Goto
<1>3. ASSUME NEW i \in Instance, ReadState(i)
      PROVE  Trees'
  BY <1>3 DEF ReadState, At, Goto
<1>4. ASSUME NEW i \in Instance, CheckControl(i)
      PROVE  Trees'
  BY <1>4, Checked
<1>5. ASSUME NEW i \in Instance, Load(i)
      PROVE  Trees'
  BY <1>5 DEF Load, At, Goto, Pointers, Settle, Chosen, Valid
<1>6. ASSUME NEW i \in Instance, Install(i)
      PROVE  Trees'
  BY <1>6 DEF Install, At, Goto
<1>7. ASSUME NEW i \in Instance, Fetch(i)
      PROVE  Trees'
  BY <1>7 DEF Fetch, At, Goto, Settle, Eligible
<1>8. ASSUME NEW i \in Instance, Extract(i)
      PROVE  Trees'
  BY <1>8 DEF Extract, At, Goto, GiveUp, Settle
<1>9. ASSUME NEW i \in Instance, Mark(i)
      PROVE  Trees'
  BY <1>9 DEF Mark, At, Goto, GiveUp, Settle
<1>10. ASSUME NEW i \in Instance, HealthCheck(i)
      PROVE  Trees'
  BY <1>10 DEF HealthCheck, At, Goto, GiveUp, Settle
<1>11. ASSUME NEW i \in Instance, Move(i)
      PROVE  Trees'
  BY <1>11 DEF Move, At, Goto, GiveUp, Settle
<1>12. ASSUME NEW i \in Instance, Recheck(i)
      PROVE  Trees'
  BY <1>12 DEF Recheck, At, Goto, Settle
<1>13. ASSUME NEW i \in Instance, ReadPointer(i)
      PROVE  Trees'
  BY <1>13 DEF ReadPointer, At, Goto
<1>14. ASSUME NEW i \in Instance, Select(i)
      PROVE  Trees'
  BY <1>14 DEF Select, At, Goto, Pointers, Before
<1>15. ASSUME NEW i \in Instance, Record(i)
      PROVE  Trees'
  BY <1>15 DEF Record, At, Goto, WriteControl, Settle
<1>16. ASSUME NEW i \in Instance, Quit(i)
      PROVE  Trees'
  BY <1>16 DEF Quit, At, Goto, Settle
<1>17. ASSUME NEW i \in Instance, Crash(i)
      PROVE  Trees'
  BY <1>17 DEF Crash, At, Goto, Settle, Spend
<1>18. CASE ChannelMoves
  BY <1>18, Published DEF ChannelMoves, Spend
<1>19. CASE Upgrade
  BY <1>19 DEF Upgrade, Spend
<1>20. CASE DayPasses
  BY <1>20 DEF DayPasses
<1>21. ASSUME NEW b \in Bundle, Damage(b)
      PROVE  Trees'
  BY <1>21 DEF Damage, Spend
<1>22. CASE UNCHANGED vars
  BY <1>22 DEF vars, diskVars
<1>23. QED
  BY <1>1, <1>2, <1>3, <1>4, <1>5, <1>6, <1>7, <1>8, <1>9, <1>10, <1>11, <1>12, <1>13,
     <1>14, <1>15, <1>16, <1>17, <1>18, <1>19, <1>20, <1>21, <1>22
     DEF Next, StartStep, InstallStep

(* What is selected, or was when it was read, is in place.                 *)
LEMMA SelectedStep == Sound /\ [Next]_vars => Selected'
<1> SUFFICES ASSUME Sound, [Next]_vars
             PROVE  Selected'
  OBVIOUS
<1> USE BundlesAssumption, BoundsAssumption, Blanks
    DEF Sound, Targets, Target, Selected, Placed, Installing, InPlace, TypeOK,
        Starting, Places, diskVars
<1>1. ASSUME NEW i \in Instance, Start(i)
      PROVE  Selected'
  BY <1>1 DEF Start, At, Goto
<1>2. ASSUME NEW i \in Instance, Cleaned(i)
      PROVE  Selected'
  BY <1>2 DEF Cleaned, At, Goto
<1>3. ASSUME NEW i \in Instance, ReadState(i)
      PROVE  Selected'
  BY <1>3 DEF ReadState, At, Goto
<1>4. ASSUME NEW i \in Instance, CheckControl(i)
      PROVE  Selected'
  BY <1>4, Checked
<1>5. ASSUME NEW i \in Instance, Load(i)
      PROVE  Selected'
  BY <1>5 DEF Load, At, Goto, Pointers, Settle, Chosen, Valid
<1>6. ASSUME NEW i \in Instance, Install(i)
      PROVE  Selected'
  BY <1>6 DEF Install, At, Goto
<1>7. ASSUME NEW i \in Instance, Fetch(i)
      PROVE  Selected'
  BY <1>7 DEF Fetch, At, Goto, Settle, Eligible
<1>8. ASSUME NEW i \in Instance, Extract(i)
      PROVE  Selected'
  BY <1>8 DEF Extract, At, Goto, GiveUp, Settle
<1>9. ASSUME NEW i \in Instance, Mark(i)
      PROVE  Selected'
  BY <1>9 DEF Mark, At, Goto, GiveUp, Settle
<1>10. ASSUME NEW i \in Instance, HealthCheck(i)
      PROVE  Selected'
  BY <1>10 DEF HealthCheck, At, Goto, GiveUp, Settle
<1>11. ASSUME NEW i \in Instance, Move(i)
      PROVE  Selected'
  <2>1. CASE GiveUp(i)
    BY <1>11, <2>1 DEF Move, At, Goto, GiveUp, Settle
  <2>2. CASE staging[i] # "none" /\ final[Target(i)] = "none" /\ ~GiveUp(i)
    <3>1. Target(i) \in Bundle
      BY <1>11 DEF Move, At
    <3>2. \A b \in Bundle : final[b] # "none" => final'[b] # "none"
      BY <1>11, <2>2, <3>1, Arrived DEF Move, At
    <3>3. \A q \in Pointers : Placed(q) => Placed(q)'
      BY <3>2 DEF Choice
    <3>4. QED
      BY <1>11, <2>2, <3>3 DEF Move
  <2>3. CASE staging[i] # "none" /\ final[Target(i)] # "none" /\ ~GiveUp(i)
    BY <1>11, <2>3 DEF Move, At, Goto, GiveUp, Settle
  <2>4. QED
    BY <1>11, <2>1, <2>2, <2>3 DEF Move, At, Goto, GiveUp, Settle
<1>12. ASSUME NEW i \in Instance, Recheck(i)
      PROVE  Selected'
  BY <1>12 DEF Recheck, At, Goto, Settle
<1>13. ASSUME NEW i \in Instance, ReadPointer(i)
      PROVE  Selected'
  BY <1>13 DEF ReadPointer, At, Goto
<1>14. ASSUME NEW i \in Instance, Select(i)
      PROVE  Selected'
  <2>1. CASE Settle(i, "running")
    BY <1>14, <2>1 DEF Select, At, Goto, Pointers, Before, Settle
  <2>2. CASE ~Settle(i, "running")
    BY <1>14, <2>2 DEF Select, At, Goto, Pointers, Before, Settle
  <2>3. QED
    BY <2>1, <2>2
<1>15. ASSUME NEW i \in Instance, Record(i)
      PROVE  Selected'
  BY <1>15 DEF Record, At, Goto, WriteControl, Settle
<1>16. ASSUME NEW i \in Instance, Quit(i)
      PROVE  Selected'
  BY <1>16 DEF Quit, At, Goto, Settle
<1>17. ASSUME NEW i \in Instance, Crash(i)
      PROVE  Selected'
  BY <1>17 DEF Crash, At, Goto, Settle, Spend
<1>18. CASE ChannelMoves
  BY <1>18, Published DEF ChannelMoves, Spend
<1>19. CASE Upgrade
  BY <1>19 DEF Upgrade, Spend
<1>20. CASE DayPasses
  BY <1>20 DEF DayPasses
<1>21. ASSUME NEW b \in Bundle, Damage(b)
      PROVE  Selected'
  BY <1>21 DEF Damage, Spend
<1>22. CASE UNCHANGED vars
  BY <1>22 DEF vars, diskVars
<1>23. QED
  BY <1>1, <1>2, <1>3, <1>4, <1>5, <1>6, <1>7, <1>8, <1>9, <1>10, <1>11, <1>12, <1>13,
     <1>14, <1>15, <1>16, <1>17, <1>18, <1>19, <1>20, <1>21, <1>22
     DEF Next, StartStep, InstallStep

(* What is loaded was whole, and nothing is loaded across another version. *)
LEMMA LoadedStep == Sound /\ [Next]_vars => Loaded'
<1> SUFFICES ASSUME Sound, [Next]_vars
             PROVE  Loaded'
  OBVIOUS
<1> USE BundlesAssumption, BoundsAssumption, Blanks
    DEF Sound, Targets, Trees, Loaded, LoadedIsSound, Installing, InPlace, TypeOK,
        Starting, Places, diskVars
<1>1. ASSUME NEW i \in Instance, Start(i)
      PROVE  Loaded'
  BY <1>1 DEF Start, At, Goto
<1>2. ASSUME NEW i \in Instance, Cleaned(i)
      PROVE  Loaded'
  BY <1>2 DEF Cleaned, At, Goto
<1>3. ASSUME NEW i \in Instance, ReadState(i)
      PROVE  Loaded'
  BY <1>3 DEF ReadState, At, Goto
<1>4. ASSUME NEW i \in Instance, CheckControl(i)
      PROVE  Loaded'
  BY <1>4, Checked
<1>5. ASSUME NEW i \in Instance, Load(i)
      PROVE  Loaded'
  BY <1>5 DEF Load, At, Goto, Pointers, Settle, Chosen, Valid
<1>6. ASSUME NEW i \in Instance, Install(i)
      PROVE  Loaded'
  BY <1>6 DEF Install, At, Goto
<1>7. ASSUME NEW i \in Instance, Fetch(i)
      PROVE  Loaded'
  BY <1>7 DEF Fetch, At, Goto, Settle, Eligible
<1>8. ASSUME NEW i \in Instance, Extract(i)
      PROVE  Loaded'
  BY <1>8 DEF Extract, At, Goto, GiveUp, Settle
<1>9. ASSUME NEW i \in Instance, Mark(i)
      PROVE  Loaded'
  BY <1>9 DEF Mark, At, Goto, GiveUp, Settle
<1>10. ASSUME NEW i \in Instance, HealthCheck(i)
      PROVE  Loaded'
  BY <1>10 DEF HealthCheck, At, Goto, GiveUp, Settle
<1>11. ASSUME NEW i \in Instance, Move(i)
      PROVE  Loaded'
  BY <1>11 DEF Move, At, Goto, GiveUp, Settle
<1>12. ASSUME NEW i \in Instance, Recheck(i)
      PROVE  Loaded'
  BY <1>12 DEF Recheck, At, Goto, Settle
<1>13. ASSUME NEW i \in Instance, ReadPointer(i)
      PROVE  Loaded'
  BY <1>13 DEF ReadPointer, At, Goto
<1>14. ASSUME NEW i \in Instance, Select(i)
      PROVE  Loaded'
  <2>1. CASE Settle(i, "running")
    BY <1>14, <2>1 DEF Select, At, Goto, Pointers, Before, Settle
  <2>2. CASE ~Settle(i, "running")
    BY <1>14, <2>2 DEF Select, At, Goto, Pointers, Before, Settle
  <2>3. QED
    BY <2>1, <2>2
<1>15. ASSUME NEW i \in Instance, Record(i)
      PROVE  Loaded'
  BY <1>15 DEF Record, At, Goto, WriteControl, Settle
<1>16. ASSUME NEW i \in Instance, Quit(i)
      PROVE  Loaded'
  BY <1>16 DEF Quit, At, Goto, Settle
<1>17. ASSUME NEW i \in Instance, Crash(i)
      PROVE  Loaded'
  BY <1>17 DEF Crash, At, Goto, Settle, Spend
<1>18. CASE ChannelMoves
  BY <1>18, Published DEF ChannelMoves, Spend
<1>19. CASE Upgrade
  BY <1>19 DEF Upgrade, Spend
<1>20. CASE DayPasses
  BY <1>20 DEF DayPasses
<1>21. ASSUME NEW b \in Bundle, Damage(b)
      PROVE  Loaded'
  BY <1>21 DEF Damage, Spend
<1>22. CASE UNCHANGED vars
  BY <1>22 DEF vars, diskVars
<1>23. QED
  BY <1>1, <1>2, <1>3, <1>4, <1>5, <1>6, <1>7, <1>8, <1>9, <1>10, <1>11, <1>12, <1>13,
     <1>14, <1>15, <1>16, <1>17, <1>18, <1>19, <1>20, <1>21, <1>22
     DEF Next, StartStep, InstallStep

(* An install that arrives in place was not selected before, and a start   *)
(* falls back to what its pointer and its record come to already.          *)
LEMMA SwitchStep ==
    ASSUME Sound, [Next]_vars, Upcoming' # Upcoming
    PROVE  \/ control' # control \/ version' # version
           \/ \E b \in Bundle : final[b] = "whole" /\ final'[b] = "damaged"
           \/ \E i \in Instance : pc[i] = "write" /\ pc'[i] = "record"
           \/ \E i \in Instance : pc[i] = "loading" /\ pc'[i] = "running" /\ ~UpToDate(i)
<1> SUFFICES ASSUME control' = control, version' = version
             PROVE  \/ \E b \in Bundle : final[b] = "whole" /\ final'[b] = "damaged"
                    \/ \E i \in Instance : pc[i] = "write" /\ pc'[i] = "record"
                    \/ \E i \in Instance :
                           pc[i] = "loading" /\ pc'[i] = "running" /\ ~UpToDate(i)
  OBVIOUS
<1>1. ~(pointer' = pointer /\ final' = final)
  BY DEF Upcoming, Chosen, Valid
<1>2. ASSUME NEW i \in Instance, Load(i)
      PROVE  pc[i] = "loading" /\ pc'[i] = "running" /\ ~UpToDate(i)
  <2>1. pc[i] = "loading" /\ pc'[i] = "running"
    BY <1>2 DEF Load, At, Settle, Goto, Sound, TypeOK
  <2>2. SUFFICES ASSUME UpToDate(i)
                 PROVE  Upcoming' = Upcoming
    BY <2>1
  <2>3. Chosen(seen[i], manifest[i]) = Upcoming
    BY <2>2 DEF UpToDate, Upcoming, Chosen, Valid
  <2>4. final' = final
    BY <1>2 DEF Load
  <2>5. CASE Upcoming \in {seen[i].active, Shipped}
    BY <1>1, <1>2, <2>3, <2>4, <2>5 DEF Load
  <2>6. CASE Upcoming \notin {seen[i].active, Shipped}
    <3>1. pointer' = [active |-> Upcoming, previous |-> Shipped]
      BY <1>2, <2>3, <2>6 DEF Load
    <3>2. Valid(Upcoming, control)
      BY <2>2, <2>3, <2>6 DEF Chosen, UpToDate, Valid
    <3>3. QED
      BY <2>4, <3>1, <3>2 DEF Upcoming, Chosen, Valid
  <2>7. QED
    BY <2>5, <2>6
<1>3. ASSUME NEW i \in Instance, Move(i)
      PROVE  FALSE
  <2>1. PICK t \in Bundle, how \in {"whole", "damaged"} :
               final[t] = "none" /\ final' = [final EXCEPT ![t] = how]
    BY <1>1, <1>3 DEF Move, At, Sound, Targets, Installing
  <2>2. \A b \in {pointer.active, pointer.previous} : b # t
    BY <2>1, Blanks DEF Sound, Selected, Placed
  <2>3. pointer' = pointer
    BY <1>3 DEF Move
  <2>4. \A b \in {pointer.active, pointer.previous} : Valid(b, control)' = Valid(b, control)
    BY <2>1, <2>2, <2>3 DEF Valid, Sound, TypeOK
  <2>5. QED
    BY <2>3, <2>4 DEF Upcoming, Chosen
<1>4. ASSUME NEW i \in Instance, Select(i)
      PROVE  pc[i] = "write" /\ pc'[i] = "record"
  <2>1. CASE UNCHANGED pointer
    BY <1>1, <1>4, <2>1 DEF Select, Upcoming, Chosen, Valid
  <2>2. CASE ~UNCHANGED pointer
    BY <1>4, <2>2 DEF Select, At, Goto, Sound, TypeOK
  <2>3. QED
    BY <2>1, <2>2
<1>5. ASSUME NEW b \in Bundle, Damage(b)
      PROVE  final[b] = "whole" /\ final'[b] = "damaged"
  BY <1>5 DEF Damage, Sound, TypeOK
<1>6. ASSUME NEW i \in Instance
      PROVE  /\ StartStep(i) => Load(i)
             /\ InstallStep(i) => Move(i) \/ Select(i)
             /\ ~Quit(i) /\ ~Crash(i)
  BY <1>1 DEF StartStep, InstallStep, Start, Cleaned, ReadState, CheckControl, Install, Fetch,
       Extract, Mark, HealthCheck, Recheck, ReadPointer, Record, Quit, Crash, diskVars
<1>7. ~ChannelMoves /\ ~Upgrade /\ ~DayPasses /\ ~UNCHANGED vars
  BY <1>1 DEF ChannelMoves, Upgrade, DayPasses, vars, diskVars
<1>8. QED
  BY <1>2, <1>3, <1>4, <1>5, <1>6, <1>7 DEF Next

----------------------------------------------------------------------------
(* Nothing is installed, selected or loaded at first.                      *)
LEMMA InitSound == Init => Sound
<1> SUFFICES ASSUME Init
             PROVE  Sound
  OBVIOUS
<1>1. channel \in Manifests /\ channel.bundle \in Bundle
  BY DEF Init, Manifests, NoManifest, Choice
<1>2. QED
  BY <1>1, Blanks, BundlesAssumption, BoundsAssumption
     DEF Init, Sound, TypeOK, Targets, Trees, Selected, Loaded, LoadedIsSound, Placed,
         Installing, InPlace, Starting, Places

(* Sound is an invariant.                                                  *)
LEMMA SpecSound == Spec => []Sound
<1>1. Sound /\ [Next]_vars => Sound'
  BY TypeStep, TargetsStep, TreesStep, SelectedStep, LoadedStep DEF Sound
<1>2. QED
  BY <1>1, InitSound, PTL DEF Spec

(* The overlay, its instances and its channel are well typed in every      *)
(* reachable state.                                                        *)
THEOREM OverlayTypes == Spec => []TypeOK
<1>1. Sound => TypeOK
  BY DEF Sound
<1>2. QED
  BY <1>1, SpecSound, PTL

(* What activate_component_overlay put first on the path is healthy and    *)
(* fits the version that runs, whatever crashed or raced before.           *)
THEOREM OverlaySound == Spec => []LoadedIsSound
<1>1. Sound => LoadedIsSound
  BY DEF Sound, Loaded
<1>2. QED
  BY <1>1, SpecSound, PTL

(* What active.json selects is in place and passed its health check: an    *)
(* interrupted or overtaken preparation cannot have selected it.           *)
THEOREM OverlayInPlace == Spec => []PointerInPlace
<1>1. Sound => PointerInPlace
  <2> SUFFICES ASSUME Sound, NEW b \in {pointer.active, pointer.previous} \ {Shipped}
               PROVE  final[b] # "none" /\ b \in Healthy
    BY DEF PointerInPlace
  <2>1. b \in Bundle
    BY DEF Sound, TypeOK, Pointers, Choice
  <2>2. QED
    BY <2>1 DEF Sound, Selected, Placed, Trees
<1>2. QED
  BY <1>1, SpecSound, PTL

(* What the next start will load is switched by a selection of an install  *)
(* and by nothing an install does before it.                               *)
THEOREM OverlaySwitched == Spec => SwitchedBySelection
<1>1. ASSUME Sound, [Next]_vars
      PROVE  [Upcoming' # Upcoming =>
                 \/ control' # control \/ version' # version
                 \/ \E b \in Bundle : final[b] = "whole" /\ final'[b] = "damaged"
                 \/ \E i \in Instance : pc[i] = "write" /\ pc'[i] = "record"
                 \/ \E i \in Instance :
                        pc[i] = "loading" /\ pc'[i] = "running" /\ ~UpToDate(i)]_vars
  BY <1>1, SwitchStep
<1>2. QED
  BY <1>1, SpecSound, PTL DEF Spec, SwitchedBySelection
=============================================================================
