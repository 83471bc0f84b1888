--------------------------- MODULE TrainingProofs ---------------------------
(***************************************************************************)
(* Proofs about TrainingRounds for any processes, jobs, order of the       *)
(* round, intervals and limits.  Shape types the state, LockHeld says      *)
(* where the kernel's lock is, Stale which exports an overtaken model may  *)
(* still meet; each is preserved by every step, one lemma per group of     *)
(* steps.                                                                  *)
(***************************************************************************)
EXTENDS TrainingRounds, TLAPS

-----------------------------------------------------------------------------
(***************************************************************************)
(* Types.                                                                  *)
(***************************************************************************)
\* A process that waits for a subprocess is at a job, and a trainer that runs was
\* started by a process that has not given its job up.
AtJob ==
    \A p \in Procs :
        /\ pc[p] \in {"fit", "exit0", "exporting"} => at[p] <= Len(Order)
        /\ pc[p] \in {"fit", "exit0"} => ~Abandoned(p, Job(p))

Shape == TypeOK /\ AtJob

LEMMA JobTyped ==
  ASSUME TrainingConstants, TypeOK, NEW p \in Procs, at[p] <= Len(Order)
  PROVE  Job(p) \in Jobs /\ at[p] + 1 \in 1..(Len(Order) + 1)
<1>1. at[p] \in 1..(Len(Order) + 1) /\ Len(Order) \in Nat BY DEF TypeOK, TrainingConstants
<1>2. QED BY <1>1 DEF Job, TrainingConstants

\* One more failure of a job that is not abandoned.
LEMMA FailedTyped ==
  ASSUME TrainingConstants, TypeOK, NEW p \in Procs, NEW j \in Jobs, ~Abandoned(p, j), Failed(p, j)
  PROVE  fails' \in [Procs -> [Jobs -> 0..MaxFail]] /\ \A q \in Procs \ {p} : fails'[q] = fails[q]
<1>1. fails \in [Procs -> [Jobs -> 0..MaxFail]] /\ MaxFail \in Nat
  BY DEF TypeOK, TrainingConstants
<1>2. fails[p][j] \in 0..MaxFail /\ ~(fails[p][j] >= MaxFail) BY <1>1 DEF Abandoned
<1>3. fails[p][j] + 1 \in 0..MaxFail BY <1>1, <1>2
<1>4. fails' = [fails EXCEPT ![p] = [fails[p] EXCEPT ![j] = fails[p][j] + 1]] BY DEF Failed
<1>5. [fails[p] EXCEPT ![j] = fails[p][j] + 1] \in [Jobs -> 0..MaxFail] BY <1>1, <1>3
<1>6. QED BY <1>1, <1>4, <1>5

\* An amount that saturates.
LEMMA LesserTyped == ASSUME NEW n \in Nat, NEW m \in 0..n PROVE Lesser(m + 1, n) \in 0..n
BY DEF Lesser

LEMMA EndsTyped ==
  ASSUME TrainingConstants, TypeOK, NEW p \in Procs, Ends(p)
  PROVE  /\ pc' = [pc EXCEPT ![p] = "idle"] /\ pc' \in [Procs -> Round \cup {"idle", "probe", "probing", "due", "take", "stopping"}]
         /\ at' \in [Procs -> 1..(Len(Order) + 1)] /\ due' \in [Procs -> SUBSET Jobs]
         /\ fails' \in [Procs -> [Jobs -> 0..MaxFail]]
         /\ sinceTry' \in [Procs -> [Jobs -> Nat]] /\ \A q \in Procs, j \in Jobs : sinceTry'[q][j] <= Interval[j]
         /\ grown' \in [Procs -> (0..Required) \cup {Never}]
         /\ pending' \in [Procs -> SUBSET Exported] /\ snap' \in [Procs -> {"none", "current", "old"}]
         /\ left' \subseteq left
         /\ \A q \in Procs \ {p} : at'[q] = at[q] /\ fails'[q] = fails[q] /\ snap'[q] = snap[q]
<1>1. /\ Len(Order) \in Nat /\ MaxFail \in Nat \ {0} /\ Interval \in [Jobs -> Nat] /\ Required \in Nat \ {0}
  BY DEF TrainingConstants
<1>2. pc' = [pc EXCEPT ![p] = "idle"] /\ pc' \in [Procs -> Round \cup {"idle", "probe", "probing", "due", "take", "stopping"}]
  BY DEF Ends, TypeOK
<1>3. at' \in [Procs -> 1..(Len(Order) + 1)] BY <1>1 DEF Ends, TypeOK
<1>4. due' \in [Procs -> SUBSET Jobs] BY DEF Ends, TypeOK
<1>5. FreshFails \in [Jobs -> 0..MaxFail] BY <1>1 DEF FreshFails
<1>6. fails' \in [Procs -> [Jobs -> 0..MaxFail]] BY <1>5 DEF Ends, TypeOK
<1>7. sinceTry' \in [Procs -> [Jobs -> Nat]] /\ \A q \in Procs, j \in Jobs : sinceTry'[q][j] <= Interval[j]
  <2>1. sinceTry' = [sinceTry EXCEPT ![p] = FreshTries] BY DEF Ends
  <2>2. FreshTries \in [Jobs -> Nat] /\ \A j \in Jobs : FreshTries[j] <= Interval[j]
    BY <1>1 DEF FreshTries
  <2>3. QED BY <2>1, <2>2 DEF TypeOK
<1>8. grown' \in [Procs -> (0..Required) \cup {Never}] BY DEF Ends, TypeOK
<1>9. pending' \in [Procs -> SUBSET Exported] BY DEF Ends, TypeOK
<1>10. snap' \in [Procs -> {"none", "current", "old"}] BY DEF Ends, TypeOK
<1>11. left' \subseteq left BY DEF Ends
<1>12. \A q \in Procs \ {p} : at'[q] = at[q] /\ fails'[q] = fails[q] /\ snap'[q] = snap[q]
  BY DEF Ends, TypeOK
<1>13. QED BY <1>2, <1>3, <1>4, <1>6, <1>7, <1>8, <1>9, <1>10, <1>11, <1>12

LEMMA ShapeInit == ASSUME TrainingConstants, Init PROVE Shape
<1>1. /\ Len(Order) \in Nat /\ MaxFail \in Nat \ {0} /\ Interval \in [Jobs -> Nat] /\ Required \in Nat \ {0}
      /\ Gap \in Nat
  BY DEF TrainingConstants
<1>2. fails \in [Procs -> [Jobs -> 0..MaxFail]] BY <1>1 DEF Init, FreshFails
<1>3. sinceTry \in [Procs -> [Jobs -> Nat]] /\ \A p \in Procs, j \in Jobs : sinceTry[p][j] <= Interval[j]
  BY <1>1 DEF Init, FreshTries
<1>4. at \in [Procs -> 1..(Len(Order) + 1)] BY <1>1 DEF Init
<1>5. reportAge \in [Jobs -> 0..Gap] BY <1>1 DEF Init
<1>6. TypeOK BY <1>2, <1>3, <1>4, <1>5 DEF Init, TypeOK
<1>7. AtJob BY DEF Init, AtJob
<1>8. QED BY <1>6, <1>7 DEF Shape

\* A step that moves one process leaves the others where they are.
LEMMA OneMoves ==
  ASSUME AtJob, NEW p \in Procs,
         \A q \in Procs \ {p} : at'[q] = at[q] /\ fails'[q] = fails[q] /\ pc'[q] = pc[q],
         pc'[p] \in {"fit", "exit0", "exporting"} => at'[p] <= Len(Order),
         pc'[p] \in {"fit", "exit0"} => ~Abandoned(p, Job(p))'
  PROVE  AtJob'
<1> SUFFICES ASSUME NEW q \in Procs, q # p
             PROVE  /\ pc'[q] \in {"fit", "exit0", "exporting"} => at'[q] <= Len(Order)
                    /\ pc'[q] \in {"fit", "exit0"} => ~Abandoned(q, Job(q))'
  BY DEF AtJob
<1>1. QED BY DEF AtJob, Abandoned, Job

\* A process that ends leaves nothing of its round.
LEMMA EndsShape ==
  ASSUME TrainingConstants, Shape, NEW p \in Procs, Ends(p), UNCHANGED <<corpus, files>>,
         lock' \in Procs \cup {Nobody}
  PROVE  Shape'
<1> USE DEF Shape
<1>1. TypeOK' BY EndsTyped DEF TypeOK, files
<1>2. pc' = [pc EXCEPT ![p] = "idle"] /\ \A q \in Procs \ {p} : at'[q] = at[q] /\ fails'[q] = fails[q]
  BY EndsTyped
<1>3. pc'[p] = "idle" /\ \A q \in Procs \ {p} : pc'[q] = pc[q] BY <1>2 DEF TypeOK
<1>4. AtJob' BY <1>2, <1>3, OneMoves
<1>5. QED BY <1>1, <1>4

\* The environment and the decision to train.
LEMMA ShapeDecides ==
  ASSUME TrainingConstants, Shape,
         Tick \/ EpisodeResolves \/ DeskTick \/ \E t \in Timers : Once(t)
  PROVE  Shape'
<1> USE DEF Shape
<1>0. /\ Desk \in Procs /\ Timers \subseteq Procs /\ Gap \in Nat /\ Interval \in [Jobs -> Nat]
      /\ Required \in Nat \ {0}
  BY DEF Procs, TrainingConstants
<1>1. ASSUME Tick PROVE Shape'
  <2>1. reportAge' \in [Jobs -> 0..Gap] BY <1>0, <1>1, LesserTyped DEF Tick, TypeOK
  <2>2. ASSUME NEW p \in Procs, NEW j \in Jobs
        PROVE  /\ Lesser(sinceTry[p][j] + 1, Interval[j]) \in Nat
               /\ Lesser(sinceTry[p][j] + 1, Interval[j]) <= Interval[j]
    <3>1. sinceTry[p][j] \in Nat /\ Interval[j] \in Nat BY <1>0 DEF TypeOK
    <3>2. QED BY <3>1 DEF Lesser
  <2>3. sinceTry' = [p \in Procs |-> [j \in Jobs |-> Lesser(sinceTry[p][j] + 1, Interval[j])]]
    BY <1>1 DEF Tick
  <2>4. sinceTry' \in [Procs -> [Jobs -> Nat]] /\ \A p \in Procs, j \in Jobs : sinceTry'[p][j] <= Interval[j]
    BY <2>2, <2>3
  <2>5. TypeOK' BY <1>1, <2>1, <2>4 DEF Tick, TypeOK
  <2>6. AtJob' BY <1>1 DEF Tick, AtJob, Abandoned, Job
  <2>7. QED BY <2>5, <2>6
<1>2. ASSUME EpisodeResolves PROVE Shape'
  <2>1. ASSUME NEW p \in Procs PROVE grown'[p] \in (0..Required) \cup {Never}
    <3>1. grown'[p] = IF grown[p] = Never THEN Never ELSE Lesser(grown[p] + 1, Required)
      BY <1>2 DEF EpisodeResolves
    <3>2. CASE grown[p] = Never BY <3>1, <3>2
    <3>3. CASE grown[p] # Never
      <4>1. grown[p] \in 0..Required BY <3>3 DEF TypeOK
      <4>2. QED BY <1>0, <3>1, <3>3, <4>1, LesserTyped
    <3>4. QED BY <3>2, <3>3
  <2>2. grown' \in [Procs -> (0..Required) \cup {Never}] BY <1>2, <2>1 DEF EpisodeResolves
  <2>3. TypeOK' BY <1>2, <2>2 DEF EpisodeResolves, TypeOK, files
  <2>4. AtJob' BY <1>2 DEF EpisodeResolves, AtJob, Abandoned, Job
  <2>5. QED BY <2>3, <2>4
<1>3. ASSUME DeskTick PROVE Shape'
  <2>1. TypeOK' BY <1>0, <1>3 DEF DeskTick, TypeOK, files, memory
  <2>2. AtJob' BY <1>0, <1>3 DEF DeskTick, AtJob, Abandoned, Job, TypeOK, memory
  <2>3. QED BY <2>1, <2>2
<1>4. ASSUME NEW t \in Timers, Activate(t) PROVE Shape'
  <2>1. TypeOK' BY <1>0, <1>4 DEF Activate, TypeOK, files, memory
  <2>2. AtJob' BY <1>0, <1>4 DEF Activate, AtJob, Abandoned, Job, TypeOK, memory
  <2>3. QED BY <2>1, <2>2
<1>5. ASSUME NEW t \in Timers, Probe(t) PROVE Shape'
  <2>1. CASE lock = Nobody
    <3>1. TypeOK' BY <1>0, <1>5, <2>1 DEF Probe, Ends, TypeOK, files, memory
    <3>2. AtJob' BY <1>0, <1>5, <2>1 DEF Probe, AtJob, Abandoned, Job, TypeOK, memory
    <3>3. QED BY <3>1, <3>2
  <2>2. CASE Ends(t) /\ UNCHANGED lock BY <1>0, <1>5, EndsShape, <2>2 DEF Probe, TypeOK
  <2>3. CASE /\ pc' = [pc EXCEPT ![t] = "due"]
             /\ UNCHANGED <<lock, at, due, memory, pending, snap, left>>
    <3>1. TypeOK' BY <1>0, <1>5, <2>3 DEF Probe, TypeOK, files, memory
    <3>2. AtJob' BY <1>0, <1>5, <2>3 DEF Probe, AtJob, Abandoned, Job, TypeOK, memory
    <3>3. QED BY <3>1, <3>2
  <2>4. QED BY <1>5, <2>1, <2>2, <2>3 DEF Probe
<1>6. ASSUME NEW t \in Timers, ProbeReleases(t) PROVE Shape'
  <2>1. TypeOK' BY <1>0, <1>6 DEF ProbeReleases, TypeOK, files, memory
  <2>2. AtJob' BY <1>0, <1>6 DEF ProbeReleases, AtJob, Abandoned, Job, TypeOK, memory
  <2>3. QED BY <2>1, <2>2
<1>7. ASSUME NEW t \in Timers, OnceDue(t) PROVE Shape'
  <2>1. CASE ShouldTrain(t)
    <3>1. TypeOK' BY <1>0, <1>7, <2>1 DEF OnceDue, Ends, TypeOK, files, memory
    <3>2. AtJob' BY <1>0, <1>7, <2>1 DEF OnceDue, AtJob, Abandoned, Job, TypeOK, memory
    <3>3. QED BY <3>1, <3>2
  <2>2. CASE ~ShouldTrain(t) BY <1>0, <1>7, EndsShape, <2>2 DEF OnceDue, TypeOK
  <2>3. QED BY <2>1, <2>2
<1>8. QED BY <1>1, <1>2, <1>3, <1>4, <1>5, <1>6, <1>7 DEF Once

\* Where a pass leaves its process.
LEMMA LeaveShape ==
  ASSUME TrainingConstants, Shape, NEW p \in Procs, LeaveRound(p), UNCHANGED <<corpus, files>>,
         lock' \in Procs \cup {Nobody}
  PROVE  Shape'
<1> USE DEF Shape
<1>1. CASE p # Desk BY <1>1, EndsShape DEF LeaveRound
<1>2. CASE p = Desk
  <2>1. /\ pc' = [pc EXCEPT ![p] = "idle"] /\ UNCHANGED <<at, due, memory, pending, snap, left>>
    BY <1>2 DEF LeaveRound
  <2>2. TypeOK' BY <2>1 DEF TypeOK, memory, files
  <2>3. AtJob' BY <2>1, OneMoves DEF memory, TypeOK
  <2>4. QED BY <2>2, <2>3
<1>3. QED BY <1>1, <1>2

\* The fits of a round.
LEMMA ShapeFits ==
  ASSUME TrainingConstants, Shape, NEW p \in Procs,
         \/ BeginRound(p) \/ SkipLocked(p) \/ LockRaises(p) \/ SkipJob(p) \/ StartJob(p)
         \/ FitFails(p) \/ ReadFails(p) \/ ReadReport(p)
  PROVE  Shape'
<1> USE DEF Shape
<1>0. Len(Order) \in Nat /\ Required \in Nat \ {0} /\ MaxFail \in Nat \ {0}
  BY DEF TrainingConstants
<1>1. ASSUME BeginRound(p) PROVE Shape'
  <2>1. grown' = [grown EXCEPT ![p] = 0] /\ 0 \in 0..Required BY <1>0, <1>1 DEF BeginRound
  <2>2. at' = [at EXCEPT ![p] = 1] /\ 1 \in 1..(Len(Order) + 1) BY <1>0, <1>1 DEF BeginRound
  <2>3. TypeOK' BY <1>1, <2>1, <2>2 DEF BeginRound, LockTaken, TypeOK, Round, files
  <2>4. AtJob' BY <1>1, <2>2, OneMoves DEF BeginRound, TypeOK
  <2>5. QED BY <2>3, <2>4
<1>2. ASSUME SkipLocked(p) \/ LockRaises(p) PROVE Shape'
  BY <1>2, LeaveShape DEF SkipLocked, LockRaises, TypeOK
<1>3. ASSUME SkipJob(p) PROVE Shape'
  <2>1. at[p] + 1 \in 1..(Len(Order) + 1) BY <1>3, JobTyped DEF SkipJob
  <2>2. at' = [at EXCEPT ![p] = at[p] + 1] BY <1>3 DEF SkipJob
  <2>3. at' \in [Procs -> 1..(Len(Order) + 1)] BY <2>1, <2>2 DEF TypeOK
  <2>4. TypeOK' BY <1>3, <2>3 DEF SkipJob, TypeOK, memory, files
  <2>5. AtJob' BY <1>3, <2>2, OneMoves DEF SkipJob, TypeOK, memory
  <2>6. QED BY <2>4, <2>5
<1>4. ASSUME StartJob(p) PROVE Shape'
  <2>1. Job(p) \in Jobs /\ at[p] + 1 \in 1..(Len(Order) + 1) BY <1>4, JobTyped DEF StartJob
  <2>2. sinceTry' \in [Procs -> [Jobs -> Nat]] /\ \A q \in Procs, j \in Jobs : sinceTry'[q][j] <= Interval[j]
    <3>1. sinceTry' = [sinceTry EXCEPT ![p] = [sinceTry[p] EXCEPT ![Job(p)] = 0]]
      BY <1>4 DEF StartJob
    <3>2. Interval \in [Jobs -> Nat] BY DEF TrainingConstants
    <3>3. sinceTry[p] \in [Jobs -> Nat] /\ \A j \in Jobs : sinceTry[p][j] <= Interval[j]
      BY DEF TypeOK
    <3>4. [sinceTry[p] EXCEPT ![Job(p)] = 0] \in [Jobs -> Nat] BY <3>3
    <3>5. \A j \in Jobs : 0 <= Interval[j] BY <3>2
    <3>6. \A j \in Jobs : [sinceTry[p] EXCEPT ![Job(p)] = 0][j] \in {0, sinceTry[p][j]}
      BY <2>1, <3>3
    <3>7. \A j \in Jobs : [sinceTry[p] EXCEPT ![Job(p)] = 0][j] <= Interval[j]
      BY <3>3, <3>5, <3>6
    <3>8. QED BY <3>1, <3>4, <3>7 DEF TypeOK
  <2>3. CASE pc' = [pc EXCEPT ![p] = "fit"] /\ UNCHANGED <<at, fails>>
    <3>1. TypeOK' BY <1>4, <2>2, <2>3 DEF StartJob, TypeOK, Round, files
    <3>2. ~Abandoned(p, Job(p))' BY <1>4, <2>3 DEF StartJob, Abandoned, Job
    <3>3. AtJob' BY <1>4, <2>3, <3>2, OneMoves DEF StartJob, TypeOK
    <3>4. QED BY <3>1, <3>3
  <2>4. CASE Failed(p, Job(p)) /\ at' = [at EXCEPT ![p] = @ + 1] /\ UNCHANGED pc
    <3>1. fails' \in [Procs -> [Jobs -> 0..MaxFail]] /\ \A q \in Procs \ {p} : fails'[q] = fails[q]
      BY <1>4, <2>1, <2>4, FailedTyped DEF StartJob
    <3>2. at' = [at EXCEPT ![p] = at[p] + 1] BY <2>4
    <3>3. at' \in [Procs -> 1..(Len(Order) + 1)] BY <2>1, <3>2 DEF TypeOK
    <3>4. TypeOK' BY <1>4, <2>2, <2>4, <3>1, <3>3 DEF StartJob, TypeOK, files
    <3>5. pc'[p] = "job" BY <1>4, <2>4 DEF StartJob
    <3>6. AtJob' BY <2>4, <3>1, <3>2, <3>5, OneMoves DEF TypeOK
    <3>7. QED BY <3>4, <3>6
  <2>5. QED BY <1>4, <2>3, <2>4 DEF StartJob
<1>5. ASSUME FitFails(p) \/ ReadFails(p) PROVE Shape'
  <2>1. at[p] <= Len(Order) /\ ~Abandoned(p, Job(p)) BY <1>5 DEF FitFails, ReadFails, AtJob
  <2>2. Job(p) \in Jobs /\ at[p] + 1 \in 1..(Len(Order) + 1) BY <2>1, JobTyped
  <2>3. fails' \in [Procs -> [Jobs -> 0..MaxFail]] /\ \A q \in Procs \ {p} : fails'[q] = fails[q]
    BY <1>5, <2>1, <2>2, FailedTyped DEF FitFails, ReadFails
  <2>4. at' = [at EXCEPT ![p] = at[p] + 1] /\ pc' = [pc EXCEPT ![p] = "job"]
    BY <1>5 DEF FitFails, ReadFails
  <2>5. at' \in [Procs -> 1..(Len(Order) + 1)] BY <2>2, <2>4 DEF TypeOK
  <2>6. TypeOK' BY <1>5, <2>3, <2>4, <2>5 DEF FitFails, ReadFails, TypeOK, Round, files
  <2>7. AtJob' BY <2>3, <2>4, OneMoves DEF TypeOK
  <2>8. QED BY <2>6, <2>7
<1>6. ASSUME ReadReport(p) PROVE Shape'
  <2>1. at[p] <= Len(Order) BY <1>6 DEF ReadReport, AtJob
  <2>2. Job(p) \in Jobs /\ at[p] + 1 \in 1..(Len(Order) + 1) BY <2>1, JobTyped
  <2>3. fails' = [fails EXCEPT ![p] = [fails[p] EXCEPT ![Job(p)] = 0]]
    BY <1>6 DEF ReadReport
  <2>4. [fails[p] EXCEPT ![Job(p)] = 0] \in [Jobs -> 0..MaxFail] BY <1>0, <2>2 DEF TypeOK
  <2>5. fails' \in [Procs -> [Jobs -> 0..MaxFail]] BY <2>3, <2>4 DEF TypeOK
  <2>6. at' = [at EXCEPT ![p] = at[p] + 1] /\ pc' = [pc EXCEPT ![p] = "job"]
    BY <1>6 DEF ReadReport
  <2>7. at' \in [Procs -> 1..(Len(Order) + 1)] BY <2>2, <2>6 DEF TypeOK
  <2>8. pending' \in [Procs -> SUBSET Exported]
    <3>1. CASE Job(p) \in Exported /\ report[Job(p)] = "PASSED"
      BY <1>6, <3>1 DEF ReadReport, TypeOK
    <3>2. CASE ~(Job(p) \in Exported /\ report[Job(p)] = "PASSED")
      BY <1>6, <3>2 DEF ReadReport, TypeOK
    <3>3. QED BY <3>1, <3>2
  <2>9. TypeOK' BY <1>6, <2>5, <2>6, <2>7, <2>8 DEF ReadReport, TypeOK, Round, files
  <2>10. AtJob' BY <2>3, <2>6, OneMoves DEF TypeOK
  <2>11. QED BY <2>9, <2>10
<1>7. QED BY <1>1, <1>2, <1>3, <1>4, <1>5, <1>6

\* The exports of a round, and its end.
LEMMA ShapeExports ==
  ASSUME TrainingConstants, Shape, NEW p \in Procs,
         \/ StartExports(p) \/ SkipExport(p) \/ StartExport(p) \/ ExportEnds(p) \/ ExportFails(p)
         \/ ExportTimeout(p) \/ EndRound(p)
  PROVE  Shape'
<1> USE DEF Shape
<1>0. Len(Order) \in Nat BY DEF TrainingConstants
<1>1. ASSUME StartExports(p) PROVE Shape'
  <2>1. at' = [at EXCEPT ![p] = 1] /\ 1 \in 1..(Len(Order) + 1)
    BY <1>0, <1>1 DEF StartExports
  <2>2. TypeOK' BY <1>1, <2>1 DEF StartExports, TypeOK, Round, files, memory
  <2>3. AtJob' BY <1>1, <2>1, OneMoves DEF StartExports, TypeOK, memory
  <2>4. QED BY <2>2, <2>3
<1>2. ASSUME SkipExport(p) PROVE Shape'
  <2>1. at[p] + 1 \in 1..(Len(Order) + 1) BY <1>2, JobTyped DEF SkipExport
  <2>2. at' = [at EXCEPT ![p] = at[p] + 1] BY <1>2 DEF SkipExport
  <2>3. at' \in [Procs -> 1..(Len(Order) + 1)] BY <2>1, <2>2 DEF TypeOK
  <2>4. TypeOK' BY <1>2, <2>3 DEF SkipExport, TypeOK, memory, files
  <2>5. AtJob' BY <1>2, <2>2, OneMoves DEF SkipExport, TypeOK, memory
  <2>6. QED BY <2>4, <2>5
<1>3. ASSUME StartExport(p) PROVE Shape'
  <2>1. TypeOK' BY <1>3 DEF StartExport, TypeOK, Round, memory, files
  <2>2. AtJob' BY <1>3, OneMoves DEF StartExport, TypeOK, memory
  <2>3. QED BY <2>1, <2>2
<1>4. ASSUME pc[p] = "exporting", NextExport(p)
      PROVE  /\ Job(p) \in Jobs
             /\ pc' \in [Procs -> Round \cup {"idle", "probe", "probing", "due", "take", "stopping"}]
             /\ at' \in [Procs -> 1..(Len(Order) + 1)] /\ snap' \in [Procs -> {"none", "current", "old"}]
             /\ UNCHANGED memory => AtJob'
  <2>1. at[p] <= Len(Order) BY <1>4 DEF AtJob
  <2>2. Job(p) \in Jobs /\ at[p] + 1 \in 1..(Len(Order) + 1) BY <2>1, JobTyped
  <2>3. at' = [at EXCEPT ![p] = at[p] + 1] BY <1>4 DEF NextExport
  <2>4. at' \in [Procs -> 1..(Len(Order) + 1)] BY <2>2, <2>3 DEF TypeOK
  <2>5. pc' \in [Procs -> Round \cup {"idle", "probe", "probing", "due", "take", "stopping"}]
    BY <1>4 DEF NextExport, TypeOK, Round
  <2>6. snap' \in [Procs -> {"none", "current", "old"}] BY <1>4 DEF NextExport, TypeOK
  <2>7. ASSUME UNCHANGED memory PROVE AtJob'
    BY <1>4, <2>3, <2>7, OneMoves DEF NextExport, TypeOK, memory
  <2>8. QED BY <2>2, <2>4, <2>5, <2>6, <2>7
<1>5. ASSUME ExportEnds(p) PROVE Shape'
  <2>1. pc[p] = "exporting" /\ NextExport(p) /\ UNCHANGED memory BY <1>5 DEF ExportEnds
  <2>2. native' = [native EXCEPT ![Job(p)] = snap[p]] /\ setBack' \in BOOLEAN /\ UNCHANGED <<report, reportAge>>
    BY <1>5 DEF ExportEnds, ExportWrites
  <2>3. native' \in [Jobs -> {"none", "current", "old"}] BY <1>4, <2>1, <2>2 DEF TypeOK
  <2>4. TypeOK' BY <1>4, <1>5, <2>1, <2>2, <2>3 DEF ExportEnds, TypeOK, memory
  <2>5. QED BY <1>4, <2>1, <2>4
<1>6. ASSUME ExportFails(p) PROVE Shape'
  <2>1. pc[p] = "exporting" /\ NextExport(p) /\ UNCHANGED memory BY <1>6 DEF ExportFails
  <2>2. TypeOK' BY <1>4, <1>6, <2>1 DEF ExportFails, TypeOK, memory, files
  <2>3. QED BY <1>4, <2>1, <2>2
<1>7. ASSUME ExportTimeout(p) PROVE Shape'
  <2>1. pc[p] = "exporting" /\ NextExport(p) /\ UNCHANGED memory BY <1>7 DEF ExportTimeout
  <2>2. left' = left \cup {[kind |-> "export", job |-> Job(p), owner |-> p, of |-> snap[p]]}
    BY <1>7 DEF ExportTimeout
  <2>3. left' \subseteq [kind : {"fit", "export"}, job : Jobs, owner : Procs, of : {"none", "current", "old"}]
    BY <1>4, <2>1, <2>2 DEF TypeOK
  <2>4. TypeOK' BY <1>4, <1>7, <2>1, <2>3 DEF ExportTimeout, TypeOK, memory, files
  <2>5. QED BY <1>4, <2>1, <2>4
<1>8. ASSUME EndRound(p) PROVE Shape' BY <1>8, LeaveShape DEF EndRound
<1>9. QED BY <1>1, <1>2, <1>3, <1>5, <1>6, <1>7, <1>8

Subprocess == [kind : {"fit", "export"}, job : Jobs, owner : Procs, of : {"none", "current", "old"}]

\* What a trainer that ends leaves behind.
LEMMA WritesTyped ==
  ASSUME TrainingConstants, TypeOK, NEW j \in Jobs, NEW verdict \in {"PASSED", "REJECTED"},
         TrainerWrites(j, verdict)
  PROVE  /\ report' \in [Jobs -> {"none", "PASSED", "REJECTED"}] /\ reportAge' \in [Jobs -> 0..Gap]
         /\ native' \in [Jobs -> {"none", "current", "old"}] /\ snap' \in [Procs -> {"none", "current", "old"}]
         /\ setBack' = setBack
<1>1. Gap \in Nat /\ 0 \in 0..Gap BY DEF TrainingConstants
<1>2. report' \in [Jobs -> {"none", "PASSED", "REJECTED"}] BY DEF TrainerWrites, TypeOK
<1>3. reportAge' \in [Jobs -> 0..Gap] BY <1>1 DEF TrainerWrites, TypeOK
<1>4. \A f \in {"none", "current", "old"} : Older(f) \in {"none", "current", "old"}
  BY DEF Older
<1>5. CASE verdict = "PASSED" /\ j \in Gated
  <2>1. native' = [native EXCEPT ![j] = Older(native[j])] BY <1>5 DEF TrainerWrites
  <2>2. native' \in [Jobs -> {"none", "current", "old"}] BY <1>4, <2>1 DEF TypeOK
  <2>3. snap' = [q \in Procs |-> IF at[q] <= Len(Order) /\ Job(q) = j /\ pc[q] = "exporting"
                                 THEN Older(snap[q]) ELSE snap[q]]
    BY <1>5 DEF TrainerWrites
  <2>4. snap' \in [Procs -> {"none", "current", "old"}] BY <1>4, <2>3 DEF TypeOK
  <2>5. QED BY <1>2, <1>3, <2>2, <2>4 DEF TrainerWrites
<1>6. CASE ~(verdict = "PASSED" /\ j \in Gated)
  BY <1>2, <1>3, <1>6 DEF TrainerWrites, TypeOK
<1>7. QED BY <1>5, <1>6

LEMMA AgedTyped ==
  ASSUME NEW K \in SUBSET Subprocess, NEW j, NEW verdict
  PROVE  /\ Aged(K, j, verdict) \subseteq Subprocess
         /\ \A l \in Aged(K, j, verdict) : \E k \in K :
              /\ l.kind = k.kind /\ l.job = k.job /\ l.owner = k.owner
              /\ l.of = k.of \/ l.of = Older(k.of)
              /\ k.kind = "export" /\ k.job = j /\ verdict = "PASSED" => l.of = Older(k.of)
<1> SUFFICES ASSUME NEW l \in Aged(K, j, verdict)
             PROVE  /\ l \in Subprocess
                    /\ \E k \in K :
                         /\ l.kind = k.kind /\ l.job = k.job /\ l.owner = k.owner
                         /\ l.of = k.of \/ l.of = Older(k.of)
                         /\ k.kind = "export" /\ k.job = j /\ verdict = "PASSED" => l.of = Older(k.of)
  OBVIOUS
<1>1. PICK k \in K : l = IF k.kind = "export" /\ k.job = j /\ verdict = "PASSED"
                         THEN [k EXCEPT !.of = Older(@)] ELSE k
  BY Zenon DEF Aged
<1>2. k \in Subprocess OBVIOUS
<1>3. CASE k.kind = "export" /\ k.job = j /\ verdict = "PASSED"
  <2>1. l = [k EXCEPT !.of = Older(k.of)] BY <1>1, <1>3
  <2>2. Older(k.of) \in {"none", "current", "old"} BY <1>2 DEF Older, Subprocess
  <2>3. l \in Subprocess BY <1>2, <2>1, <2>2 DEF Subprocess
  <2>4. l.kind = k.kind /\ l.job = k.job /\ l.owner = k.owner /\ l.of = Older(k.of)
    BY <1>2, <2>1 DEF Subprocess
  <2>5. QED BY <2>3, <2>4
<1>4. CASE ~(k.kind = "export" /\ k.job = j /\ verdict = "PASSED")
  <2>1. l = k BY <1>1, <1>4
  <2>2. QED BY <1>2, <1>4, <2>1
<1>5. QED BY <1>3, <1>4

\* Subprocesses that end, and ends nobody planned.
LEMMA ShapeElsewhere ==
  ASSUME TrainingConstants, Shape, (\E p \in Procs : FitEnds(p) \/ Kill(p)) \/ Cancel \/ LeftEnds
  PROVE  Shape'
<1> USE DEF Shape
<1>0. Desk \in Procs BY DEF Procs
<1>1. ASSUME NEW p \in Procs, FitEnds(p) PROVE Shape'
  <2>1. Job(p) \in Jobs /\ at[p] <= Len(Order) BY <1>1, JobTyped DEF FitEnds, AtJob
  <2>2. PICK verdict \in {"PASSED", "REJECTED"} :
             TrainerWrites(Job(p), verdict) /\ left' = Aged(left, Job(p), verdict)
    BY <1>1 DEF FitEnds
  <2>3. left' \subseteq Subprocess BY <2>2, AgedTyped DEF TypeOK, Subprocess
  <2>4. /\ report' \in [Jobs -> {"none", "PASSED", "REJECTED"}] /\ reportAge' \in [Jobs -> 0..Gap]
        /\ native' \in [Jobs -> {"none", "current", "old"}] /\ snap' \in [Procs -> {"none", "current", "old"}]
        /\ setBack' = setBack
    BY <2>1, <2>2, WritesTyped
  <2>5. TypeOK' BY <1>1, <2>3, <2>4 DEF FitEnds, TypeOK, Round, memory, Subprocess
  <2>a. ~Abandoned(p, Job(p)) /\ UNCHANGED <<at, fails>>
    BY <1>1 DEF FitEnds, AtJob, memory
  <2>b. ~Abandoned(p, Job(p))' BY <2>a DEF Abandoned, Job
  <2>6. AtJob' BY <1>1, <2>1, <2>a, <2>b, OneMoves DEF FitEnds, TypeOK, memory
  <2>7. QED BY <2>5, <2>6
<1>2. ASSUME NEW p \in Procs, Kill(p) PROVE Shape' BY <1>2, EndsShape DEF Kill, TypeOK
<1>3. ASSUME Cancel PROVE Shape'
  <2>1. Job(Desk) \in Jobs BY <1>0, <1>3, JobTyped DEF Cancel, AtJob
  <2>2. PICK kind \in {"fit", "export"} :
             left' = left \cup {[kind |-> kind, job |-> Job(Desk), owner |-> Desk, of |-> snap[Desk]]}
    BY <1>3 DEF Cancel
  <2>3. left' \subseteq Subprocess BY <1>0, <2>1, <2>2 DEF TypeOK, Subprocess
  <2>4. TypeOK' BY <1>0, <1>3, <2>3 DEF Cancel, TypeOK, memory, files, Subprocess
  <2>5. AtJob' BY <1>0, <1>3, OneMoves DEF Cancel, TypeOK, memory
  <2>6. QED BY <2>4, <2>5
<1>4. ASSUME LeftEnds PROVE Shape'
  <2>1. PICK k \in left :
          \/ /\ k.kind = "fit"
             /\ \E verdict \in {"PASSED", "REJECTED"} :
                   TrainerWrites(k.job, verdict) /\ left' = Aged(left \ {k}, k.job, verdict)
             /\ UNCHANGED <<lock, pc, at, due, memory, pending, corpus>>
          \/ /\ k.kind = "export"
             /\ ExportWrites(k.job, k.of) /\ left' = left \ {k}
             /\ UNCHANGED <<lock, pc, at, due, memory, pending, snap, corpus>>
    BY <1>4 DEF LeftEnds
  <2>2. k \in Subprocess BY DEF TypeOK, Subprocess
  <2>3. k.job \in Jobs /\ k.of \in {"none", "current", "old"} BY <2>2 DEF Subprocess
  <2>4. AtJob' BY <2>1 DEF AtJob, Abandoned, Job, memory
  <2>5. CASE k.kind = "fit"
    <3>1. PICK verdict \in {"PASSED", "REJECTED"} :
               TrainerWrites(k.job, verdict) /\ left' = Aged(left \ {k}, k.job, verdict)
      BY <2>1, <2>5
    <3>2. left' \subseteq Subprocess BY <3>1, AgedTyped DEF TypeOK, Subprocess
    <3>3. /\ report' \in [Jobs -> {"none", "PASSED", "REJECTED"}] /\ reportAge' \in [Jobs -> 0..Gap]
          /\ native' \in [Jobs -> {"none", "current", "old"}] /\ snap' \in [Procs -> {"none", "current", "old"}]
          /\ setBack' = setBack
      BY <2>3, <3>1, WritesTyped
    <3>a. UNCHANGED <<lock, pc, at, due, pending, corpus>> /\ UNCHANGED memory
      BY <2>1, <2>5
    <3>4. TypeOK' BY <3>a, <3>2, <3>3 DEF TypeOK, memory, Subprocess
    <3>5. QED BY <2>4, <3>4
  <2>6. CASE k.kind = "export"
    <3>1. native' = [native EXCEPT ![k.job] = k.of] /\ setBack' \in BOOLEAN /\ UNCHANGED <<report, reportAge>>
      BY <2>1, <2>6 DEF ExportWrites
    <3>2. native' \in [Jobs -> {"none", "current", "old"}] BY <2>3, <3>1 DEF TypeOK
    <3>3. left' \subseteq left /\ UNCHANGED <<lock, pc, at, due, memory, pending, snap, corpus>>
      BY <2>1, <2>6
    <3>4. TypeOK' BY <3>1, <3>2, <3>3 DEF TypeOK, memory
    <3>5. QED BY <2>4, <3>4
  <2>7. QED BY <2>1, <2>5, <2>6
<1>5. QED BY <1>1, <1>2, <1>3, <1>4

LEMMA RoundSteps ==
  ASSUME Next
  PROVE  \/ Tick \/ EpisodeResolves \/ DeskTick \/ (\E t \in Timers : Once(t))
         \/ \E p \in Procs :
              \/ BeginRound(p) \/ SkipLocked(p) \/ LockRaises(p) \/ SkipJob(p) \/ StartJob(p)
              \/ FitFails(p) \/ ReadFails(p) \/ ReadReport(p)
         \/ \E p \in Procs :
              \/ StartExports(p) \/ SkipExport(p) \/ StartExport(p) \/ ExportEnds(p) \/ ExportFails(p)
              \/ ExportTimeout(p) \/ EndRound(p)
         \/ (\E p \in Procs : FitEnds(p) \/ Kill(p)) \/ Cancel \/ LeftEnds
BY DEF Next, Own, JobTimeout

LEMMA Shaped == ASSUME TrainingConstants PROVE Spec => []Shape
<1>1. ASSUME Shape, [Next]_tvars PROVE Shape'
  <2>1. CASE UNCHANGED tvars
    <3>1. TypeOK' BY <1>1, <2>1 DEF Shape, TypeOK, tvars
    <3>2. AtJob' BY <1>1, <2>1 DEF Shape, AtJob, Abandoned, Job, tvars
    <3>3. QED BY <3>1, <3>2 DEF Shape
  <2>2. CASE Next
    BY <1>1, <2>2, RoundSteps, ShapeDecides, ShapeFits, ShapeExports, ShapeElsewhere
  <2>3. QED BY <1>1, <2>1, <2>2
<1>2. QED BY <1>1, ShapeInit, PTL DEF Spec

\* Locks, rounds, clocks and files keep their types, whoever is killed or cancelled.
THEOREM RoundsTyped == Spec => []TypeOK
<1>1. Shape => TypeOK BY DEF Shape
<1>2. QED BY <1>1, Shaped, TrainingConstants, PTL

-----------------------------------------------------------------------------
(***************************************************************************)
(* One trainer at a time.                                                  *)
(***************************************************************************)
Held == Round \cup {"probing"}

\* The kernel's lock is with the process that is inside training_lock, and with no other.
LockHeld == \A p \in Procs : lock = p <=> pc[p] \in Held

\* A step of one process keeps, takes or returns the lock.
LEMMA LockMoves ==
  ASSUME TrainingConstants, TypeOK, LockHeld, NEW p \in Procs, NEW to, pc' = [pc EXCEPT ![p] = to],
         \/ lock' = lock /\ (pc[p] \in Held <=> to \in Held)
         \/ lock = Nobody /\ lock' = p /\ to \in Held
         \/ lock = p /\ lock' = Nobody /\ to \notin Held
  PROVE  LockHeld'
<1>1. Nobody \notin Procs BY DEF TrainingConstants
<1>2. pc'[p] = to /\ \A q \in Procs \ {p} : pc'[q] = pc[q] BY DEF TypeOK
<1> SUFFICES ASSUME NEW q \in Procs PROVE lock' = q <=> pc'[q] \in Held
  BY DEF LockHeld, Held, Round
<1>3. CASE q = p BY <1>1, <1>2, <1>3 DEF LockHeld
<1>4. CASE q # p BY <1>1, <1>2, <1>4 DEF LockHeld
<1>5. QED BY <1>3, <1>4

LEMMA LockStays == ASSUME LockHeld, lock' = lock, pc' = pc PROVE LockHeld'
BY DEF LockHeld, Held, Round

LEMMA LockStep ==
  ASSUME TrainingConstants, Shape, LockHeld, Next
  PROVE  LockHeld'
<1> USE DEF Shape
<1>0. Desk \in Procs /\ Timers \subseteq Procs BY DEF Procs
<1>1. CASE Tick \/ EpisodeResolves \/ LeftEnds
  BY <1>1, LockStays DEF Tick, EpisodeResolves, LeftEnds
<1>2. CASE DeskTick BY <1>0, <1>2, LockMoves DEF DeskTick, Held, Round
<1>3. ASSUME NEW t \in Timers, Once(t) PROVE LockHeld'
  <2>1. CASE Activate(t) BY <1>0, <2>1, LockMoves DEF Activate, Held, Round
  <2>2. CASE Probe(t) /\ lock = Nobody BY <1>0, <2>2, LockMoves DEF Probe, Held, Round
  <2>3. CASE Probe(t) /\ lock # Nobody BY <1>0, <2>3, LockMoves DEF Probe, Ends, Held, Round
  <2>4. CASE ProbeReleases(t)
    <3>1. pc[t] \in Held BY <2>4 DEF ProbeReleases, Held
    <3>2. lock = t BY <1>0, <3>1 DEF LockHeld
    <3>3. QED BY <1>0, <2>4, <3>2, LockMoves DEF ProbeReleases, Held, Round
  <2>5. CASE OnceDue(t) BY <1>0, <2>5, LockMoves DEF OnceDue, Ends, Held, Round
  <2>6. QED BY <1>3, <2>1, <2>2, <2>3, <2>4, <2>5 DEF Once
<1>4. ASSUME NEW p \in Procs, BeginRound(p) PROVE LockHeld'
  BY <1>4, LockMoves DEF BeginRound, LockTaken, Held, Round
<1>5. ASSUME NEW p \in Procs, SkipLocked(p) \/ LockRaises(p) PROVE LockHeld'
  <2>1. pc[p] = "take" /\ lock' = lock /\ pc' = [pc EXCEPT ![p] = "idle"]
    BY <1>5 DEF SkipLocked, LockRaises, LeaveRound, Ends
  <2>2. QED BY <2>1, LockMoves DEF Held, Round
<1>6. ASSUME NEW p \in Procs, SkipJob(p) \/ SkipExport(p) PROVE LockHeld'
  BY <1>6, LockStays DEF SkipJob, SkipExport
<1>7. ASSUME NEW p \in Procs, StartJob(p) PROVE LockHeld'
  <2>1. pc[p] = "job" /\ lock' = lock BY <1>7 DEF StartJob
  <2>2. CASE pc' = pc BY <2>1, <2>2, LockStays
  <2>3. CASE pc' = [pc EXCEPT ![p] = "fit"] BY <2>1, <2>3, LockMoves DEF Held, Round
  <2>4. QED BY <1>7, <2>2, <2>3 DEF StartJob
<1>8. ASSUME NEW p \in Procs, FitEnds(p) \/ FitFails(p) \/ ReadFails(p) \/ ReadReport(p) \/ StartExports(p) \/ StartExport(p)
      PROVE LockHeld'
  <2>1. pc[p] \in Held /\ lock' = lock
    BY <1>8 DEF FitEnds, FitFails, ReadFails, ReadReport, StartExports, StartExport, Held, Round
  <2>2. PICK to \in Round : pc' = [pc EXCEPT ![p] = to]
    BY <1>8 DEF FitEnds, FitFails, ReadFails, ReadReport, StartExports, StartExport, Round
  <2>3. QED BY <2>1, <2>2, LockMoves DEF Held
<1>9. ASSUME NEW p \in Procs, ExportEnds(p) \/ ExportFails(p) \/ ExportTimeout(p) PROVE LockHeld'
  <2>1. pc[p] = "exporting" /\ lock' = lock /\ pc' = [pc EXCEPT ![p] = "exports"]
    BY <1>9 DEF ExportEnds, ExportFails, ExportTimeout, NextExport
  <2>2. QED BY <2>1, LockMoves DEF Held, Round
<1>10. ASSUME NEW p \in Procs, EndRound(p) PROVE LockHeld'
  <2>1. pc[p] \in Held /\ lock' = Nobody /\ pc' = [pc EXCEPT ![p] = "idle"]
    BY <1>10 DEF EndRound, LeaveRound, Ends, Held, Round
  <2>2. lock = p BY <2>1 DEF LockHeld
  <2>3. QED BY <2>1, <2>2, LockMoves DEF Held, Round
<1>11. ASSUME NEW p \in Procs, Kill(p) PROVE LockHeld'
  <2>1. pc' = [pc EXCEPT ![p] = "idle"] /\ lock' = IF lock = p THEN Nobody ELSE lock
    BY <1>11 DEF Kill, Ends
  <2>2. CASE lock = p BY <2>1, <2>2, LockMoves DEF Held, Round
  <2>3. CASE lock # p
    <3>1. pc[p] \notin Held BY <2>3 DEF LockHeld
    <3>2. QED BY <2>1, <2>3, <3>1, LockMoves DEF Held, Round
  <2>4. QED BY <2>2, <2>3
<1>12. CASE Cancel
  <2>1. pc[Desk] \in Held /\ lock' = Nobody /\ pc' = [pc EXCEPT ![Desk] = "stopping"]
    BY <1>12 DEF Cancel, Held, Round
  <2>2. lock = Desk BY <1>0, <2>1 DEF LockHeld
  <2>3. QED BY <1>0, <2>1, <2>2, LockMoves DEF Held, Round
<1>13. QED
  BY <1>1, <1>2, <1>3, <1>4, <1>5, <1>6, <1>7, <1>8, <1>9, <1>10, <1>11, <1>12, RoundSteps

LEMMA LockIsHeld == ASSUME TrainingConstants PROVE Spec => []LockHeld
<1>1. Init => LockHeld BY TrainingConstants DEF Init, LockHeld, Held, Round
<1>2. ASSUME Shape, LockHeld, [Next]_tvars PROVE LockHeld'
  <2>1. CASE UNCHANGED tvars BY <1>2, <2>1, LockStays DEF tvars
  <2>2. QED BY <1>2, <2>1, LockStep
<1>3. QED BY <1>1, <1>2, Shaped, PTL DEF Spec

\* For any number of activations, of the trainers a round waits for one runs at a time
\* and the process that waits for it holds the lock, through kills, cancellations and
\* timeouts.
THEOREM OneTrainerAtATime == Spec => []OneTrainer
<1>1. LockHeld => OneTrainer BY DEF LockHeld, Held, Round, OneTrainer, FittingProcs
<1>2. QED BY <1>1, LockIsHeld, TrainingConstants, PTL

-----------------------------------------------------------------------------
(***************************************************************************)
(* Exports do not set the native model back.                               *)
(***************************************************************************)
\* While a round exports a model that a trainer has overtaken, neither the disk nor an
\* export still to end holds a newer one: it was overtaken by a trainer, and exported by
\* nobody yet.
Stale ==
    \A p \in Procs : pc[p] = "exporting" /\ snap[p] = "old" =>
        /\ native[Job(p)] # "current"
        /\ \A k \in left : k.kind = "export" /\ k.job = Job(p) => k.of # "current"

\* Exports that go on, of files nobody wrote.
LEMMA StaleStays ==
  ASSUME Stale, native' = native, left' \subseteq left,
         \A p \in Procs : pc'[p] = "exporting" =>
             /\ snap'[p] = "old" => pc[p] = "exporting" /\ at'[p] = at[p] /\ snap[p] = "old"
  PROVE  Stale'
BY DEF Stale, Job

\* Nobody else exports while a process is inside the lock.
LEMMA Alone ==
  ASSUME LockHeld, NEW p \in Procs, NEW q \in Procs, pc[p] \in Held, pc[q] \in Held PROVE p = q
BY DEF LockHeld

\* The holder of the lock leaves its export, or has none: no export goes on.
LEMMA StaleEnds ==
  ASSUME TypeOK, LockHeld, NEW q \in Procs, pc[q] \in Held, NEW to, to # "exporting",
         pc' = [pc EXCEPT ![q] = to]
  PROVE  Stale'
<1>1. ASSUME NEW p \in Procs, pc'[p] = "exporting" PROVE FALSE
  <2>1. p # q /\ pc[p] = "exporting" BY <1>1 DEF TypeOK
  <2>2. QED BY <2>1, Alone DEF Held, Round
<1>2. QED BY <1>1 DEF Stale

LEMMA StaleStep ==
  ASSUME TrainingConstants, Shape, LockHeld, Stale, Next
  PROVE  Stale'
<1> USE DEF Shape
<1>0. Desk \in Procs /\ Timers \subseteq Procs BY DEF Procs
<1>1. CASE Tick \/ EpisodeResolves
  BY <1>1, StaleStays DEF Tick, EpisodeResolves, files
<1>2. CASE DeskTick BY <1>0, <1>2, StaleStays DEF DeskTick, files, TypeOK
<1>3. ASSUME NEW p \in Procs, Ends(p), UNCHANGED files PROVE Stale'
  <2>1. native' = native /\ left' \subseteq left /\ pc' = [pc EXCEPT ![p] = "idle"]
    BY <1>3 DEF Ends, files
  <2>2. \A q \in Procs \ {p} : at'[q] = at[q] /\ snap'[q] = snap[q] BY <1>3 DEF Ends, TypeOK
  <2>3. pc'[p] = "idle" /\ \A q \in Procs \ {p} : pc'[q] = pc[q] BY <2>1 DEF TypeOK
  <2>4. QED BY <2>1, <2>2, <2>3, StaleStays
<1>4. ASSUME NEW p \in Procs, NEW to, to # "exporting", pc' = [pc EXCEPT ![p] = to],
             UNCHANGED <<native, left, snap>>, \A q \in Procs \ {p} : at'[q] = at[q]
      PROVE  Stale'
  <2>1. pc'[p] = to /\ \A q \in Procs \ {p} : pc'[q] = pc[q] BY <1>4 DEF TypeOK
  <2>2. QED BY <1>4, <2>1, StaleStays
<1>5. ASSUME NEW t \in Timers, Once(t) PROVE Stale'
  <2>1. CASE Activate(t) BY <1>0, <1>4, <2>1 DEF Activate, files
  <2>2. CASE Probe(t) /\ lock = Nobody BY <1>0, <1>4, <2>2 DEF Probe, files
  <2>3. CASE Probe(t) /\ lock # Nobody
    <3>1. UNCHANGED files BY <2>3 DEF Probe
    <3>2. CASE Ends(t) BY <1>0, <1>3, <3>1, <3>2
    <3>3. CASE pc' = [pc EXCEPT ![t] = "due"] /\ UNCHANGED <<at, snap, left>>
      BY <1>0, <1>4, <3>1, <3>3 DEF files
    <3>4. QED BY <2>3, <3>2, <3>3 DEF Probe
  <2>4. CASE ProbeReleases(t) BY <1>0, <1>4, <2>4 DEF ProbeReleases, files
  <2>5. CASE OnceDue(t) /\ ShouldTrain(t) BY <1>0, <1>4, <2>5 DEF OnceDue, files
  <2>6. CASE OnceDue(t) /\ ~ShouldTrain(t) BY <1>0, <1>3, <2>6 DEF OnceDue
  <2>7. QED BY <1>5, <2>1, <2>2, <2>3, <2>4, <2>5, <2>6 DEF Once
<1>6. ASSUME NEW p \in Procs, LeaveRound(p), UNCHANGED files PROVE Stale'
  <2>1. CASE p # Desk BY <1>3, <1>6, <2>1 DEF LeaveRound
  <2>2. CASE p = Desk BY <1>4, <1>6, <2>2 DEF LeaveRound, files
  <2>3. QED BY <2>1, <2>2
<1>7. ASSUME NEW p \in Procs, SkipLocked(p) \/ LockRaises(p) \/ EndRound(p) PROVE Stale'
  BY <1>6, <1>7 DEF SkipLocked, LockRaises, EndRound
<1>8. ASSUME NEW p \in Procs, BeginRound(p) PROVE Stale'
  BY <1>4, <1>8 DEF BeginRound, files, TypeOK
<1>9. ASSUME NEW p \in Procs,
             SkipJob(p) \/ StartJob(p) \/ FitFails(p) \/ ReadFails(p) \/ ReadReport(p) \/ StartExports(p) \/ SkipExport(p)
      PROVE  Stale'
  <2>1. pc[p] # "exporting" /\ UNCHANGED <<native, left, snap>>
    BY <1>9 DEF SkipJob, StartJob, FitFails, ReadFails, ReadReport, StartExports, SkipExport, files
  <2>2. pc' = pc \/ \E to \in Round \ {"exporting"} : pc' = [pc EXCEPT ![p] = to]
    BY <1>9 DEF SkipJob, StartJob, FitFails, ReadFails, ReadReport, StartExports, SkipExport, Round
  <2>3. \A q \in Procs \ {p} : at'[q] = at[q]
    BY <1>9 DEF SkipJob, StartJob, FitFails, ReadFails, ReadReport, StartExports, SkipExport, TypeOK
  <2>4. pc'[p] # "exporting" /\ \A q \in Procs \ {p} : pc'[q] = pc[q]
    BY <2>1, <2>2 DEF TypeOK
  <2>5. QED BY <2>1, <2>3, <2>4, StaleStays
<1>10. ASSUME NEW p \in Procs, FitEnds(p) PROVE Stale'
  BY <1>10, StaleEnds DEF FitEnds, Held, Round
<1>11. ASSUME NEW p \in Procs, StartExport(p) PROVE Stale'
  <2>1. snap'[p] = "current" /\ \A q \in Procs \ {p} : snap'[q] = snap[q] /\ pc'[q] = pc[q]
    BY <1>11 DEF StartExport, TypeOK
  <2>2. at' = at /\ native' = native /\ left' = left BY <1>11 DEF StartExport, files
  <2>3. QED BY <2>1, <2>2, StaleStays
<1>12. ASSUME NEW p \in Procs, ExportEnds(p) \/ ExportFails(p) \/ ExportTimeout(p) PROVE Stale'
  <2>1. pc[p] \in Held /\ pc' = [pc EXCEPT ![p] = "exports"]
    BY <1>12 DEF ExportEnds, ExportFails, ExportTimeout, NextExport, Held, Round
  <2>2. QED BY <2>1, StaleEnds
<1>13. ASSUME NEW p \in Procs, Kill(p) PROVE Stale' BY <1>3, <1>13 DEF Kill
<1>14. CASE Cancel
  <2>1. pc[Desk] \in Held /\ pc' = [pc EXCEPT ![Desk] = "stopping"]
    BY <1>14 DEF Cancel, Held, Round
  <2>2. QED BY <1>0, <2>1, StaleEnds
<1>15. ASSUME NEW k \in left, k.kind = "fit", NEW verdict \in {"PASSED", "REJECTED"},
              TrainerWrites(k.job, verdict), left' = Aged(left \ {k}, k.job, verdict), UNCHANGED <<pc, at>>
       PROVE  Stale'
  <2>1. left \in SUBSET Subprocess BY DEF TypeOK, Subprocess
  <2>2. k.job \in Jobs BY <2>1 DEF Subprocess
  <2>3. \A f : Older(f) # "current" BY DEF Older
  <2>4. \A l \in left' : \E m \in left :
          /\ l.kind = m.kind /\ l.job = m.job
          /\ l.of = m.of \/ l.of = Older(m.of)
          /\ m.kind = "export" /\ m.job = k.job /\ verdict = "PASSED" => l.of = Older(m.of)
    BY <1>15, <2>1, AgedTyped
  <2> SUFFICES ASSUME NEW p \in Procs, pc[p] = "exporting", snap'[p] = "old"
               PROVE  /\ native'[Job(p)] # "current"
                      /\ \A l \in left' : l.kind = "export" /\ l.job = Job(p) => l.of # "current"
    BY <1>15 DEF Stale, Job
  <2>5. CASE verdict = "PASSED" /\ k.job \in Gated /\ at[p] <= Len(Order) /\ Job(p) = k.job
    <3>1. native'[Job(p)] = Older(native[Job(p)])
      BY <1>15, <2>2, <2>5 DEF TrainerWrites, TypeOK
    <3>2. QED BY <2>3, <2>4, <2>5, <3>1
  <2>6. CASE ~(verdict = "PASSED" /\ k.job \in Gated /\ at[p] <= Len(Order) /\ Job(p) = k.job)
    <3>1. snap'[p] = snap[p] BY <1>15, <2>6 DEF TrainerWrites
    <3>2. at[p] <= Len(Order) BY DEF AtJob
    <3>3. native'[Job(p)] = native[Job(p)]
      <4>1. Job(p) \in Jobs BY <3>2, JobTyped
      <4>2. CASE verdict = "PASSED" /\ k.job \in Gated
        <5>1. native' = [native EXCEPT ![k.job] = Older(native[k.job])]
          BY <1>15, <4>2 DEF TrainerWrites
        <5>2. Job(p) # k.job BY <2>6, <3>2, <4>2
        <5>3. QED BY <4>1, <5>1, <5>2 DEF TypeOK
      <4>3. CASE ~(verdict = "PASSED" /\ k.job \in Gated)
        BY <1>15, <4>3 DEF TrainerWrites
      <4>4. QED BY <4>2, <4>3
    <3>4. /\ native[Job(p)] # "current"
          /\ \A m \in left : m.kind = "export" /\ m.job = Job(p) => m.of # "current"
      BY <3>1 DEF Stale
    <3>5. QED BY <2>3, <2>4, <3>3, <3>4
  <2>7. QED BY <2>5, <2>6
<1>16. ASSUME NEW k \in left, k.kind = "export", ExportWrites(k.job, k.of), left' = left \ {k},
              UNCHANGED <<pc, at, snap>>
       PROVE  Stale'
  <2>1. native' = [native EXCEPT ![k.job] = k.of] BY <1>16 DEF ExportWrites
  <2> SUFFICES ASSUME NEW p \in Procs, pc[p] = "exporting", snap[p] = "old"
               PROVE  /\ native'[Job(p)] # "current"
                      /\ \A l \in left' : l.kind = "export" /\ l.job = Job(p) => l.of # "current"
    BY <1>16 DEF Stale, Job
  <2>2. /\ native[Job(p)] # "current"
        /\ \A l \in left : l.kind = "export" /\ l.job = Job(p) => l.of # "current"
    BY DEF Stale
  <2>3. Job(p) \in Jobs BY JobTyped DEF AtJob
  <2>4. CASE Job(p) = k.job BY <1>16, <2>1, <2>2, <2>3, <2>4 DEF TypeOK
  <2>5. CASE Job(p) # k.job BY <1>16, <2>1, <2>2, <2>3, <2>5 DEF TypeOK
  <2>6. QED BY <2>4, <2>5
<1>17. CASE LeftEnds BY <1>15, <1>16, <1>17 DEF LeftEnds
<1>18. QED
  BY <1>1, <1>2, <1>5, <1>7, <1>8, <1>9, <1>10, <1>11, <1>12, <1>13, <1>14, <1>17, RoundSteps

\* For any number of rounds, kills and timeouts, an older model replaces the exported
\* one of a later round only when an export ends that its round had given up.
THEOREM NativeIsNotSetBack == Spec => NativeNotSetBack
<1>1. Init => Stale BY DEF Init, Stale
<1>2. ASSUME Shape, LockHeld, Stale, [Next]_tvars PROVE Stale'
  <2>1. CASE UNCHANGED tvars BY <1>2, <2>1, StaleStays DEF tvars
  <2>2. QED BY <1>2, <2>1, StaleStep, TrainingConstants
<1>3. ASSUME Shape, LockHeld, Stale, [Next]_tvars
      PROVE  [setBack' /\ ~setBack => \E k \in left \ left' : k.kind = "export"]_tvars
  <2> SUFFICES ASSUME Next, setBack', ~setBack PROVE \E k \in left \ left' : k.kind = "export"
    BY <1>3
  <2>1. ASSUME NEW p \in Procs, ExportEnds(p) PROVE FALSE
    <3>1. pc[p] = "exporting" /\ native[Job(p)] = "current" /\ snap[p] = "old"
      BY <2>1 DEF ExportEnds, ExportWrites
    <3>2. QED BY <1>3, <3>1 DEF Stale
  <2>2. ASSUME NEW p \in Procs, FitEnds(p) PROVE FALSE
    BY <2>2 DEF FitEnds, TrainerWrites
  <2>3. CASE LeftEnds
    <3>1. PICK k \in left :
            \/ \E verdict \in {"PASSED", "REJECTED"} : TrainerWrites(k.job, verdict)
            \/ k.kind = "export" /\ left' = left \ {k}
      BY <2>3 DEF LeftEnds
    <3>2. k.kind = "export" /\ left' = left \ {k} BY <3>1 DEF TrainerWrites
    <3>3. QED BY <3>2
  <2>4. ASSUME NEW p \in Procs,
               \/ BeginRound(p) \/ SkipLocked(p) \/ LockRaises(p) \/ SkipJob(p) \/ StartJob(p) \/ FitFails(p)
               \/ ReadFails(p) \/ ReadReport(p) \/ StartExports(p) \/ SkipExport(p) \/ StartExport(p) \/ ExportFails(p)
               \/ ExportTimeout(p) \/ EndRound(p) \/ Kill(p)
        PROVE  FALSE
    BY <2>4 DEF BeginRound, SkipLocked, LockRaises, SkipJob, StartJob, FitFails, ReadFails, ReadReport,
                StartExports, SkipExport, StartExport, ExportFails, ExportTimeout, EndRound,
                Kill, files
  <2>5. CASE Tick \/ EpisodeResolves \/ DeskTick \/ Cancel \/ \E t \in Timers : Once(t)
    BY <2>5 DEF Tick, EpisodeResolves, DeskTick, Cancel, Once, Activate, Probe,
                ProbeReleases, OnceDue, files
  <2>6. QED BY <2>1, <2>2, <2>3, <2>4, <2>5, RoundSteps
<1>4. QED
  BY <1>1, <1>2, <1>3, Shaped, LockIsHeld, TrainingConstants, PTL DEF Spec, NativeNotSetBack
==========================================================================
