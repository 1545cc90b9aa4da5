-------------------------- MODULE MCPausedBatch --------------------------
(* Small queues for TLC. *)
EXTENDS PausedBatch, TLC

CONSTANTS a, b

Everything == {{a, b}}
Anything == {{a}, {b}, {a, b}}
==========================================================================
