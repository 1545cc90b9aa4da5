--------------------------- MODULE MCDownloadJobs ---------------------------
(* Small batches for TLC. *)
EXTENDS DownloadJobs, TLC

CONSTANTS a, b
=============================================================================
