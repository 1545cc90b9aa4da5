---------------------------- MODULE MCFileRefresh ----------------------------
(* A directory of two names for TLC. The names are interchangeable.         *)
EXTENDS FileRefresh, TLC

CONSTANTS n1, n2

Names == {n1, n2}
Alike == Permutations(Names)
=============================================================================
