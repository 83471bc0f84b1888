-------------------------- MODULE MCSourceJournal --------------------------
(***************************************************************************)
(* The journal with its most general caller.                               *)
(***************************************************************************)
EXTENDS SourceJournal, TLC

CONSTANTS i1, i3, b1, b1x, b3

\* Two sources with one identity each; i1 is observed with two bodies.
SmallIdOf == (b1 :> i1) @@ (b1x :> i1) @@ (b3 :> i3)
SmallSourceOf == (i1 :> 1) @@ (i3 :> 2)

=============================================================================
