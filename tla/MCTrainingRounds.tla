-------------------------- MODULE MCTrainingRounds --------------------------
(***************************************************************************)
(* A desk, one-shot activations and two jobs in the shapes DEFAULT_JOBS    *)
(* has: a corpus walk with an interval and no report, and a fit with a     *)
(* report and an export.                                                   *)
(***************************************************************************)
EXTENDS TrainingRounds

CONSTANTS walk, hazard

MCJobs == {walk, hazard}
MCOrder == <<walk, hazard>>
MCInterval == [j \in MCJobs |-> IF j = walk THEN 1 ELSE 0]
=============================================================================
