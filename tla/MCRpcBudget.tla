---------------------------- MODULE MCRpcBudget ----------------------------
(***************************************************************************)
(* Two tasks over two months of two days, two ticks each.                  *)
(***************************************************************************)
EXTENDS RpcBudget, TLC

CONSTANTS p1, p2

MCCost == [m \in Method |-> IF m = "batch" THEN 2 ELSE 1]
MCGap == MCCost
MCDayOf == [t \in 0..End |-> t \div 2]
MCMonthOf == [t \in 0..End |-> t \div 4]
MCSymmetry == Permutations(Proc)
=============================================================================
