---------------------------- MODULE RenameGraph ----------------------------
(***************************************************************************)
(* The rename planner of core/metadata_processor.py: a batch of moves,     *)
(* each a file's owner (the path it had when the batch was planned), its   *)
(* source and its destination. Names that differ only in case are left     *)
(* out, and names the planner refuses as names.                            *)
(***************************************************************************)
EXTENDS FiniteSets

Move(o, s, d) == [owner |-> o, src |-> s, dst |-> d]

Clashing(moves) == {m \in moves : \E n \in moves : n # m /\ n.dst = m.dst}

(* What plan_renames refuses: two moves to one name, and a name that is    *)
(* taken and that no other move leaves. A move refused for the second      *)
(* reason still counts as leaving its own name.                            *)
Blocked(moves, taken) ==
    LET survivors == moves \ Clashing(moves)
    IN  Clashing(moves) \cup
        {m \in survivors : m.dst \in taken /\ \A n \in survivors : n.src # m.dst}

Linked(m, n) == {m.src, m.dst} \cap {n.src, n.dst} # {}
ClosedIn(C, moves) == \A m \in C, n \in moves : Linked(m, n) => n \in C

(* The transactions of a plan: the moves that share names, transitively.   *)
Components(moves) ==
    LET closed == {C \in SUBSET moves : C # {} /\ ClosedIn(C, moves)}
    IN  {C \in closed : \A D \in closed : D \subseteq C => D = C}

Free(moves) == {m \in moves : \A n \in moves : n.src # m.dst}

(* The next step of a component and what is then left of it: a move to a   *)
(* name nobody has still to leave, or, in a cycle, a detour over a         *)
(* temporary name.                                                         *)
Steps(moves, temps) ==
    IF Free(moves) # {}
    THEN {[step |-> m, left |-> moves \ {m}] : m \in Free(moves)}
    ELSE {[step |-> [m EXCEPT !.dst = t],
           left |-> (moves \ {m}) \cup {[m EXCEPT !.src = t]}] :
          m \in moves, t \in temps}
============================================================================
