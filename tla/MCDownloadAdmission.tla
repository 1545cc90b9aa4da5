------------------------ MODULE MCDownloadAdmission ------------------------
(* Small batches for TLC. *)
EXTENDS DownloadAdmission, TLC

CONSTANTS a, b, c, network

Direct == Permutations({b, c})
KeyOf == {"match", "download"} \X Job
OneStrike == [s \in Scope |-> 1]
TwoStrikes == [s \in Scope |-> 2]
=============================================================================
