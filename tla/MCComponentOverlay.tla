------------------------- MODULE MCComponentOverlay -------------------------
(* A few bundles and versions for TLC.                                     *)
EXTENDS ComponentOverlay, TLC

CONSTANTS i, j, b1, b2, b3, v, w

Either == Permutations({i, j})
FitsAll == {v} \X {b1, b2, b3}
FitsSome == {<<v, b1>>, <<v, b2>>, <<w, b2>>}
=============================================================================
