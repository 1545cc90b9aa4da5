------------------------------ MODULE MCTagUndo ------------------------------
(* A small batch for TLC: f and g have swapped their names, h has a new one *)
(* or the one it had.                                                       *)
EXTENDS TagUndo, TLC

CONSTANTS f, g, h, n1, n2, n3, n4

Homes == (f :> n1) @@ (g :> n2) @@ (h :> n3)
Swap == (f :> n2) @@ (g :> n1) @@ (h :> n4)
Homes2 == (f :> n1) @@ (h :> n3)
Renamed == (f :> n2) @@ (h :> n3)
=============================================================================
