--------------------------- MODULE MCPositionBook ---------------------------
(***************************************************************************)
(* Two tokens that compete for one place, a worker and the sweep.          *)
(***************************************************************************)
EXTENDS PositionBook, TLC

Symmetry == Permutations(Tokens)
=============================================================================
