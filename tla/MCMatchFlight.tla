---------------------------- MODULE MCMatchFlight ----------------------------
(* Small batches for TLC: i and j are one track, k is another.             *)
EXTENDS MatchFlight, TLC

CONSTANTS i, j, k, p, a, b, u, v

Pair == (i :> a) @@ (k :> b)
PairOffers == (a :> {u, v}) @@ (b :> {u, v})
Twins == (i :> a) @@ (j :> a) @@ (p :> a)
TwinOffers == (a :> {u})
Alone == (i :> a) @@ (p :> a)
Single == {<<i, i>>}
Different == {<<i, i>>, <<k, k>>}
Alike == {i, j} \X {i, j}
=============================================================================
