-------------------------- MODULE MCSignerChannel --------------------------
(***************************************************************************)
(* Three calls, one of a message the inspector refuses, on one daemon.     *)
(***************************************************************************)
EXTENDS SignerChannel

CONSTANTS entry, exit, odd
=============================================================================
