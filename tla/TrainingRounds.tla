--------------------------- MODULE TrainingRounds ---------------------------
(***************************************************************************)
(* Training on one box: the desk's own training loop and the systemd       *)
(* timer's one-shot passes run the same TrainingSupervisor rounds over the *)
(* same corpus, behind one flock (src/runtime/training.py, training_lock,  *)
(* training_guard, train_once).                                            *)
(*                                                                         *)
(* A round starts one subprocess per due job and waits for each with a     *)
(* timeout, then runs the exports of the jobs that passed.  Subprocesses   *)
(* run beside everything else and write files when they end.  Elapsed time *)
(* and corpus growth are kept as amounts that saturate at the threshold    *)
(* the code compares them with, and the files as how they stand to the     *)
(* newest fitted model: "current" is made from it, "old" from an earlier.  *)
(* The guard's memory gate and the timer's clock are the environment's     *)
(* choice of when to activate the unit.                                    *)
(***************************************************************************)
EXTENDS Naturals, Sequences, FiniteSets

CONSTANTS
    Desk, Timers,    \* the desk process, and the one-shot activations
    Jobs, Order,     \* training jobs and the sequence they run in
    Gated,           \* jobs with a report_file
    Exported,        \* jobs with an export_module
    Interval,        \* min_interval_s per job, in ticks; 0 is none
    Required,        \* new_episodes_required
    Gap,             \* --min-minutes-since-last-success, in ticks
    MaxFail          \* MAX_CONSECUTIVE_FAILURES

Nobody == "nobody"
Procs == {Desk} \cup Timers

ASSUME TrainingConstants ==
    /\ Desk \notin Timers /\ Nobody \notin Procs /\ IsFiniteSet(Timers) /\ IsFiniteSet(Jobs)
    /\ Order \in Seq(Jobs) /\ Gated \subseteq Jobs /\ Exported \subseteq Gated
    /\ Interval \in [Jobs -> Nat] /\ Required \in Nat \ {0} /\ Gap \in Nat /\ MaxFail \in Nat \ {0}

VARIABLES
    lock,        \* who the kernel says holds training.lock
    pc,          \* where each process is
    at,          \* index in Order of the job its round is at
    due,         \* jobs whose min_interval_s had passed when the round began
    fails,       \* consecutive_failures, per process and job
    sinceTry,    \* time since last_attempt_at, per process and job
    grown,       \* growth since episodes_at_last_round; Never before the first round
    pending,     \* _pending_exports
    snap,        \* which model the running export loaded
    corpus,      \* there is a resolved episode on disk
    report,      \* per job: the verdict on disk
    reportAge,   \* time since the report's mtime
    native,      \* per job: the exported artifact on disk
    left,        \* subprocesses their process no longer waits for
    setBack      \* an export put an older model over the newest one

tvars == <<lock, pc, at, due, fails, sinceTry, grown, pending, snap, corpus, report, reportAge,
           native, left, setBack>>
memory == <<fails, sinceTry, grown>>
files == <<report, reportAge, native, setBack>>

Never == Required + 1                                     \* no round yet
Round == {"job", "fit", "exit0", "exports", "exporting"}   \* inside training_lock

Lesser(a, b) == IF a < b THEN a ELSE b

\* Every variable has its type.
TypeOK ==
    /\ lock \in Procs \cup {Nobody}
    /\ pc \in [Procs -> Round \cup {"idle", "probe", "probing", "due", "take", "stopping"}]
    /\ at \in [Procs -> 1..(Len(Order) + 1)] /\ due \in [Procs -> SUBSET Jobs]
    /\ fails \in [Procs -> [Jobs -> 0..MaxFail]]
    /\ sinceTry \in [Procs -> [Jobs -> Nat]]
    /\ \A p \in Procs, j \in Jobs : sinceTry[p][j] <= Interval[j]
    /\ grown \in [Procs -> (0..Required) \cup {Never}]
    /\ pending \in [Procs -> SUBSET Exported] /\ snap \in [Procs -> {"none", "current", "old"}]
    /\ corpus \in BOOLEAN
    /\ report \in [Jobs -> {"none", "PASSED", "REJECTED"}]
    /\ reportAge \in [Jobs -> 0..Gap] /\ native \in [Jobs -> {"none", "current", "old"}]
    /\ left \subseteq [kind : {"fit", "export"}, job : Jobs, owner : Procs, of : {"none", "current", "old"}]
    /\ setBack \in BOOLEAN

\* What __init__ gives a supervisor that has run nothing yet.
FreshFails == [j \in Jobs |-> 0]
FreshTries == [j \in Jobs |-> Interval[j]]

Init ==
    /\ lock = Nobody /\ pc = [p \in Procs |-> "idle"]
    /\ at = [p \in Procs |-> 1] /\ due = [p \in Procs |-> {}]
    /\ fails = [p \in Procs |-> FreshFails] /\ sinceTry = [p \in Procs |-> FreshTries]
    /\ grown = [p \in Procs |-> Never]
    /\ pending = [p \in Procs |-> {}] /\ snap = [p \in Procs |-> "none"]
    /\ corpus = FALSE /\ report = [j \in Jobs |-> "none"]
    /\ reportAge = [j \in Jobs |-> Gap] /\ native = [j \in Jobs |-> "none"]
    /\ left = {} /\ setBack = FALSE

Job(p) == Order[at[p]]
Abandoned(p, j) == fails[p][j] >= MaxFail
ShouldTrain(p) == IF grown[p] = Never THEN corpus ELSE grown[p] >= Required

-----------------------------------------------------------------------------
(***************************************************************************)
(* The environment: time passes and episodes resolve.                      *)
(***************************************************************************)
Tick ==
    /\ reportAge' = [j \in Jobs |-> Lesser(reportAge[j] + 1, Gap)]
    /\ sinceTry' = [p \in Procs |-> [j \in Jobs |-> Lesser(sinceTry[p][j] + 1, Interval[j])]]
    /\ UNCHANGED <<lock, pc, at, due, fails, grown, pending, snap, corpus, report, native, left,
                   setBack>>

EpisodeResolves ==
    /\ corpus' = TRUE
    /\ grown' = [p \in Procs |-> IF grown[p] = Never THEN Never ELSE Lesser(grown[p] + 1, Required)]
    /\ UNCHANGED <<lock, pc, at, due, fails, sinceTry, pending, snap, files, left>>

-----------------------------------------------------------------------------
(***************************************************************************)
(* Deciding to train.                                                      *)
(***************************************************************************)
DeskTick ==
    /\ pc[Desk] = "idle" /\ ShouldTrain(Desk)
    /\ pc' = [pc EXCEPT ![Desk] = "take"]
    /\ UNCHANGED <<lock, at, due, memory, pending, snap, corpus, files, left>>

(***************************************************************************)
(* training_guard as the unit's ExecCondition: no report yet, or the       *)
(* oldest of the reports is old enough.                                    *)
(***************************************************************************)
GuardPasses ==
    LET existing == {j \in Gated : report[j] # "none"}
    IN  existing # {} => \E j \in existing : reportAge[j] >= Gap

\* A one-shot activation starts with a supervisor of its own.
Activate(t) ==
    /\ pc[t] = "idle" /\ GuardPasses
    /\ pc' = [pc EXCEPT ![t] = "probe"]
    /\ UNCHANGED <<lock, at, due, memory, pending, snap, corpus, files, left>>

\* The process ends: its memory is gone, and the unit kills what it left running.
Ends(p) ==
    /\ pc' = [pc EXCEPT ![p] = "idle"]
    /\ at' = [at EXCEPT ![p] = 1] /\ due' = [due EXCEPT ![p] = {}]
    /\ fails' = [fails EXCEPT ![p] = FreshFails] /\ sinceTry' = [sinceTry EXCEPT ![p] = FreshTries]
    /\ grown' = [grown EXCEPT ![p] = Never]
    /\ pending' = [pending EXCEPT ![p] = {}] /\ snap' = [snap EXCEPT ![p] = "none"]
    /\ left' = {k \in left : k.owner # p}

\* holder(): try the lock and give it back at once; a file that is not there or cannot be
\* opened counts as held by nobody.
Probe(t) ==
    /\ pc[t] = "probe"
    /\ \/ /\ lock = Nobody
          /\ lock' = t /\ pc' = [pc EXCEPT ![t] = "probing"]
          /\ UNCHANGED <<at, due, memory, pending, snap, left>>
       \/ /\ lock # Nobody
          /\ Ends(t) /\ UNCHANGED lock
       \/ /\ pc' = [pc EXCEPT ![t] = "due"]
          /\ UNCHANGED <<lock, at, due, memory, pending, snap, left>>
    /\ UNCHANGED <<corpus, files>>

ProbeReleases(t) ==
    /\ pc[t] = "probing" /\ lock' = Nobody /\ pc' = [pc EXCEPT ![t] = "due"]
    /\ UNCHANGED <<at, due, memory, pending, snap, corpus, files, left>>

OnceDue(t) ==
    /\ pc[t] = "due"
    /\ \/ /\ ShouldTrain(t) /\ pc' = [pc EXCEPT ![t] = "take"]
          /\ UNCHANGED <<at, due, memory, pending, snap, left>>
       \/ ~ShouldTrain(t) /\ Ends(t)
    /\ UNCHANGED <<lock, corpus, files>>

-----------------------------------------------------------------------------
(***************************************************************************)
(* run_round.                                                              *)
(***************************************************************************)
\* Mutant: an acquire that fails is let through like a release that fails.
MutLockTaken(p) == lock' = IF lock = Nobody THEN p ELSE lock
LockTaken(p) == lock = Nobody /\ lock' = p

\* _run_round_locked, up to its loop over the jobs.
BeginRound(p) ==
    /\ pc[p] = "take" /\ LockTaken(p)
    /\ pc' = [pc EXCEPT ![p] = "job"] /\ at' = [at EXCEPT ![p] = 1]
    /\ due' = [due EXCEPT ![p] = {j \in Jobs : sinceTry[p][j] >= Interval[j]}]
    /\ grown' = [grown EXCEPT ![p] = 0] /\ pending' = [pending EXCEPT ![p] = {}]
    /\ UNCHANGED <<fails, sinceTry, snap, corpus, files, left>>

\* Where a pass leaves its process: the desk loops, an activation exits.
LeaveRound(p) ==
    IF p = Desk
    THEN /\ pc' = [pc EXCEPT ![p] = "idle"]
         /\ UNCHANGED <<at, due, memory, pending, snap, left>>
    ELSE Ends(p)

\* training_lock raises TrainingBusy, which run_round turns into a result.
SkipLocked(p) ==
    /\ pc[p] = "take" /\ lock # Nobody
    /\ LeaveRound(p)
    /\ UNCHANGED <<lock, corpus, files>>

\* The lock file cannot be opened: the round raises.
LockRaises(p) ==
    /\ pc[p] = "take" /\ LeaveRound(p)
    /\ UNCHANGED <<lock, corpus, files>>

\* An abandoned job, or one whose interval has not passed, is passed over.
SkipJob(p) ==
    /\ pc[p] = "job" /\ at[p] <= Len(Order)
    /\ Abandoned(p, Job(p)) \/ Job(p) \notin due[p]
    /\ at' = [at EXCEPT ![p] = @ + 1]
    /\ UNCHANGED <<lock, pc, due, memory, pending, snap, corpus, files, left>>

Failed(p, j) == fails' = [fails EXCEPT ![p][j] = @ + 1]

\* _run_job: the attempt is counted, then the trainer starts or cannot.
StartJob(p) ==
    /\ pc[p] = "job" /\ at[p] <= Len(Order)
    /\ ~Abandoned(p, Job(p)) /\ Job(p) \in due[p]
    /\ sinceTry' = [sinceTry EXCEPT ![p][Job(p)] = 0]
    /\ \/ /\ pc' = [pc EXCEPT ![p] = "fit"] /\ UNCHANGED <<at, fails>>
       \/ /\ Failed(p, Job(p)) /\ at' = [at EXCEPT ![p] = @ + 1] /\ UNCHANGED pc
    /\ UNCHANGED <<lock, due, grown, pending, snap, corpus, files, left>>

Older(f) == IF f = "current" THEN "old" ELSE f

\* What the trainer of job j leaves on disk when it ends with a verdict.
TrainerWrites(j, verdict) ==
    /\ report' = IF j \in Gated THEN [report EXCEPT ![j] = verdict] ELSE report
    /\ reportAge' = IF j \in Gated THEN [reportAge EXCEPT ![j] = 0] ELSE reportAge
    /\ IF verdict = "PASSED" /\ j \in Gated
       THEN /\ native' = [native EXCEPT ![j] = Older(@)]
            /\ snap' = [q \in Procs |-> IF at[q] <= Len(Order) /\ Job(q) = j /\ pc[q] = "exporting"
                                        THEN Older(snap[q]) ELSE snap[q]]
       ELSE UNCHANGED <<native, snap>>
    /\ UNCHANGED setBack

\* The exports still running of a job whose trainer has just passed hold an older model.
Aged(kids, j, verdict) ==
    {IF k.kind = "export" /\ k.job = j /\ verdict = "PASSED" THEN [k EXCEPT !.of = Older(@)] ELSE k : k \in kids}

\* The trainer exits 0.
FitEnds(p) ==
    /\ pc[p] = "fit"
    /\ \E verdict \in {"PASSED", "REJECTED"} :
          /\ TrainerWrites(Job(p), verdict) /\ left' = Aged(left, Job(p), verdict)
    /\ pc' = [pc EXCEPT ![p] = "exit0"]
    /\ UNCHANGED <<lock, at, due, memory, pending, corpus>>

\* The trainer exits with an error, or is killed at its timeout.
FitFails(p) ==
    /\ pc[p] = "fit"
    /\ Failed(p, Job(p)) /\ pc' = [pc EXCEPT ![p] = "job"] /\ at' = [at EXCEPT ![p] = @ + 1]
    /\ UNCHANGED <<lock, due, sinceTry, grown, pending, snap, corpus, files, left>>

\* Mutant: a trainer is waited for without a limit.
MutNoTimeout(p) == FALSE
\* wait_for gives up on a trainer that may never end.
JobTimeout(p) == FitFails(p)

\* _read_report.
ReadReport(p) ==
    /\ pc[p] = "exit0"
    /\ pc' = [pc EXCEPT ![p] = "job"] /\ at' = [at EXCEPT ![p] = @ + 1]
    /\ fails' = [fails EXCEPT ![p][Job(p)] = 0]
    /\ pending' = IF Job(p) \in Exported /\ report[Job(p)] = "PASSED"
                  THEN [pending EXCEPT ![p] = @ \cup {Job(p)}] ELSE pending
    /\ UNCHANGED <<lock, due, sinceTry, grown, snap, corpus, files, left>>

\* The report cannot be read or is no JSON: a failure of the job.
ReadFails(p) ==
    /\ pc[p] = "exit0" /\ Job(p) \in Gated
    /\ Failed(p, Job(p)) /\ pc' = [pc EXCEPT ![p] = "job"] /\ at' = [at EXCEPT ![p] = @ + 1]
    /\ UNCHANGED <<lock, due, sinceTry, grown, pending, snap, corpus, files, left>>

\* Mutant: the lock covers the fits only.
MutStartExports(p) ==
    /\ pc[p] = "job" /\ at[p] = Len(Order) + 1
    /\ pc' = [pc EXCEPT ![p] = "exports"] /\ at' = [at EXCEPT ![p] = 1] /\ lock' = Nobody
    /\ UNCHANGED <<due, memory, pending, snap, corpus, files, left>>

\* After the fits come the exports, in the order the jobs passed.
StartExports(p) ==
    /\ pc[p] = "job" /\ at[p] = Len(Order) + 1
    /\ pc' = [pc EXCEPT ![p] = "exports"] /\ at' = [at EXCEPT ![p] = 1]
    /\ UNCHANGED <<lock, due, memory, pending, snap, corpus, files, left>>

SkipExport(p) ==
    /\ pc[p] = "exports" /\ at[p] <= Len(Order) /\ Job(p) \notin pending[p]
    /\ at' = [at EXCEPT ![p] = @ + 1]
    /\ UNCHANGED <<lock, pc, due, memory, pending, snap, corpus, files, left>>

\* _export: the exporter loads the newest model.
StartExport(p) ==
    /\ pc[p] = "exports" /\ at[p] <= Len(Order) /\ Job(p) \in pending[p]
    /\ pc' = [pc EXCEPT ![p] = "exporting"] /\ snap' = [snap EXCEPT ![p] = "current"]
    /\ UNCHANGED <<lock, at, due, memory, pending, corpus, files, left>>

ExportWrites(j, of) ==
    /\ native' = [native EXCEPT ![j] = of]
    /\ setBack' = (setBack \/ (native[j] = "current" /\ of = "old"))
    /\ UNCHANGED <<report, reportAge>>

NextExport(p) ==
    pc' = [pc EXCEPT ![p] = "exports"] /\ at' = [at EXCEPT ![p] = @ + 1] /\ snap' = [snap EXCEPT ![p] = "none"]

ExportEnds(p) ==
    /\ pc[p] = "exporting" /\ ExportWrites(Job(p), snap[p]) /\ NextExport(p)
    /\ UNCHANGED <<lock, due, memory, pending, left, corpus>>

ExportFails(p) ==
    /\ pc[p] = "exporting" /\ NextExport(p)
    /\ UNCHANGED <<lock, due, memory, pending, left, corpus, files>>

\* The wait for an exporter runs out: the failure is counted, the exporter is not killed.
ExportTimeout(p) ==
    /\ pc[p] = "exporting" /\ NextExport(p)
    /\ left' = left \cup {[kind |-> "export", job |-> Job(p), owner |-> p, of |-> snap[p]]}
    /\ UNCHANGED <<lock, due, memory, pending, corpus, files>>

\* The lock is released when the round returns.
EndRound(p) ==
    /\ pc[p] = "exports" /\ at[p] = Len(Order) + 1
    /\ lock' = Nobody /\ LeaveRound(p)
    /\ UNCHANGED <<corpus, files>>

-----------------------------------------------------------------------------
(***************************************************************************)
(* Ends nobody planned.                                                    *)
(***************************************************************************)
\* A process is killed: the kernel drops its lock, the unit kills its subprocesses.
Kill(p) ==
    /\ pc[p] # "idle" \/ p = Desk
    /\ lock' = IF lock = p THEN Nobody ELSE lock
    /\ Ends(p)
    /\ UNCHANGED <<corpus, files>>

\* The desk's stop cancels the training task: training_lock lets go, the subprocess runs on.
Cancel ==
    /\ pc[Desk] \in {"fit", "exporting"}
    /\ lock' = Nobody /\ pc' = [pc EXCEPT ![Desk] = "stopping"]
    /\ left' = left \cup {[kind |-> IF pc[Desk] = "fit" THEN "fit" ELSE "export", job |-> Job(Desk),
                           owner |-> Desk, of |-> snap[Desk]]}
    /\ UNCHANGED <<at, due, memory, pending, snap, corpus, files>>

\* A subprocess nobody waits for ends.
LeftEnds ==
    \E k \in left :
        \/ /\ k.kind = "fit"
           /\ \E verdict \in {"PASSED", "REJECTED"} :
                 TrainerWrites(k.job, verdict) /\ left' = Aged(left \ {k}, k.job, verdict)
           /\ UNCHANGED <<lock, pc, at, due, memory, pending, corpus>>
        \/ /\ k.kind = "export"
           /\ ExportWrites(k.job, k.of) /\ left' = left \ {k}
           /\ UNCHANGED <<lock, pc, at, due, memory, pending, snap, corpus>>

-----------------------------------------------------------------------------
\* The steps a process takes by itself once it has begun a pass.
Own(p) ==
    \/ BeginRound(p) \/ SkipLocked(p) \/ SkipJob(p) \/ StartJob(p) \/ JobTimeout(p)
    \/ ReadReport(p) \/ ReadFails(p)
    \/ StartExports(p) \/ SkipExport(p) \/ StartExport(p) \/ ExportTimeout(p) \/ EndRound(p)

Once(t) == Activate(t) \/ Probe(t) \/ ProbeReleases(t) \/ OnceDue(t)

Next ==
    \/ Tick \/ EpisodeResolves \/ DeskTick \/ Cancel \/ LeftEnds
    \/ \E t \in Timers : Once(t)
    \/ \E p \in Procs : Own(p) \/ LockRaises(p) \/ FitEnds(p) \/ FitFails(p)
                        \/ ExportEnds(p) \/ ExportFails(p) \/ Kill(p)

Spec == Init /\ [][Next]_tvars

\* Each process runs on when it can; trainers, exporters and the clock owe nothing.
FairSpec == Spec /\ \A p \in Procs : WF_tvars(Own(p))

-----------------------------------------------------------------------------
(***************************************************************************)
(* Properties.                                                             *)
(***************************************************************************)
FittingProcs == {p \in Procs : pc[p] = "fit"}

\* "One trainer at a time, across processes": of the trainers a round waits for one runs at
\* a time, and the process that waits for it holds the lock.
OneTrainer == \A p \in FittingProcs : lock = p /\ FittingProcs = {p}

\* An export of an earlier round replaces the model exported by a later one only when its
\* round had given it up and it ends by itself.
NativeNotSetBack ==
    [][setBack' /\ ~setBack => \E k \in left \ left' : k.kind = "export"]_tvars

\* A round gives the lock back even when its trainer or its exporter never ends.
RoundsEnd == \A p \in Procs : pc[p] \in Round ~> pc[p] \notin Round
=============================================================================
