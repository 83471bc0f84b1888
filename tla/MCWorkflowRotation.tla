------------------------- MODULE MCWorkflowRotation -------------------------
(***************************************************************************)
(* Seven jobs of three kinds on two floors: three of raw evidence, which   *)
(* the floors prefer and of which one pass can afford less than all, one   *)
(* on no floor that costs a whole pass, one that is the youngest of a      *)
(* floor it shares, and two of its kind that are older and better and that *)
(* no pass can afford, as many as a scan reads.                            *)
(***************************************************************************)
EXTENDS WorkflowRotation, TLC

CONSTANTS raw1, raw2, raw3, gauntlet, data, dear1, dear2

FewJobs == {raw1, raw2, raw3, gauntlet, data, dear1, dear2}
\* DATA_REQUEST, GAUNTLET and RAW_EVIDENCE, in this order.
FewKindOf == raw1 :> 3 @@ raw2 :> 3 @@ raw3 :> 3 @@ gauntlet :> 2
             @@ data :> 1 @@ dear1 :> 1 @@ dear2 :> 1
FewFloorsOf == raw1 :> {1} @@ raw2 :> {2} @@ raw3 :> {1, 2} @@ gauntlet :> {}
               @@ data :> {2} @@ dear1 :> {2} @@ dear2 :> {2}
FewCreated == dear1 :> 1 @@ dear2 :> 2 @@ raw1 :> 3 @@ raw2 :> 4 @@ raw3 :> 5
              @@ gauntlet :> 6 @@ data :> 7
FewPriority == [j \in FewJobs |-> IF j \in {raw1, dear1, dear2} THEN 2 ELSE 1]
DearWork == [j \in FewJobs |-> IF j \in {dear1, dear2} THEN 7
                               ELSE IF j = gauntlet THEN 6 ELSE IF j = data THEN 1 ELSE 2]
=============================================================================
