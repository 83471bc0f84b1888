--------------------------- MODULE MCSourceIntake ---------------------------
(***************************************************************************)
(* The intake path with an ordinary post and an onion page with the same   *)
(* content.                                                                *)
(***************************************************************************)
EXTENDS SourceIntake

CONSTANTS post, page, k1

MCKeyOf == [e \in Event |-> k1]
=============================================================================
