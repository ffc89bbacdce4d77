---------------------------- MODULE MCMfsDaemon -----------------------------
(* MfsDaemon with two callers and two folders. *)
EXTENDS MfsDaemon

CONSTANTS c1, c2, f1, f2
=============================================================================
