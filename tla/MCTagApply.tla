----------------------------- MODULE MCTagApply -----------------------------
(* Small batches for TLC: f and g change names, h keeps its own.           *)
EXTENDS TagApply, TLC

CONSTANTS f, g, h, p, q, r, t1, t2, t3

TempNames == Permutations({t1, t2, t3})

Homes == (f :> p) @@ (g :> q) @@ (h :> r)
Swap == (f :> q) @@ (g :> p) @@ (h :> r)
Homes2 == (f :> p) @@ (g :> q)
Swap2 == (f :> q) @@ (g :> p)
Chain2 == (f :> q) @@ (g :> r)
=============================================================================
