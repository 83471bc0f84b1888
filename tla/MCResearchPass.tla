--------------------------- MODULE MCResearchPass ---------------------------
(* The evidence wakes on a small instance: requests sleep on two observables, *)
(* more than a page of them on one, and a drain serves one name; two series   *)
(* carry three points, one more than the catalogue keeps.                     *)
EXTENDS ResearchPass
CONSTANTS o1, o2

MCObs == {o1, o2}
MCNames == <<2, 1, 1>>
MCCarries == [o \in {o1, o2} |-> IF o = o1 THEN {1, 2} ELSE {3}]
MCNeeds == <<2, 2, 1>>
MCDormant == {1}
=============================================================================
