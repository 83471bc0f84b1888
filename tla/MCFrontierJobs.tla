--------------------------- MODULE MCFrontierJobs ---------------------------
(***************************************************************************)
(* Two jobs of one coordinate, two workers, two enabling changes.          *)
(***************************************************************************)
EXTENDS FrontierJobs, TLC

CONSTANTS j1, j2, c1, x, y, w1, w2, n1, n2

MCCoordOf == [j \in Job |-> c1]
MCTagsOf == [j \in Job |-> IF j = j1 THEN {x} ELSE {x, y}]
\* Workers and changes are interchangeable; the checked properties are safety.
Symmetry == Permutations(Worker) \cup Permutations(Change)
=============================================================================
