---------------------------- MODULE FrontierJobs ----------------------------
(***************************************************************************)
(* The durable research queue of src/research/frontier.py (FrontierIndex): *)
(* jobs, the coordinates they belong to, the trigger-maintained            *)
(* active_job_tags table and the transitions log.  Every method is one     *)
(* BEGIN IMMEDIATE transaction, so it is one action.                       *)
(*                                                                         *)
(* Every caller brings its own clock t: time.time(), or the clock read     *)
(* when its research pass began, so clocks are not ordered.  A lease token *)
(* (uuid4) is fresh; it is modelled by the ordinal of the lease.  Which    *)
(* eligible jobs a lease selects is the subject of WorkflowRotation; here  *)
(* it may be any set of them.                                              *)
(***************************************************************************)
EXTENDS Naturals, FiniteSets

CONSTANTS
    Job,          \* job identities (stable_job_id)
    Coord,        \* coordinate identities
    CoordOf,      \* coordinate of a job
    Tag,          \* exploration tags
    TagsOf,       \* tags a job is enqueued with
    Worker,
    Change,       \* names of enabling changes
    Time,         \* callers' clocks
    LeaseFor,     \* lease_seconds
    RetryDelay,   \* delay_seconds
    Limit,        \* limit of lease_jobs
    MaxAttempts,  \* bound: leases of a job
    None

ASSUME FrontierConstants ==
    /\ CoordOf \in [Job -> Coord]
    /\ TagsOf \in [Job -> SUBSET Tag]
    /\ Time \subseteq Nat
    /\ LeaseFor \in Nat \ {0} /\ RetryDelay \in Nat /\ Limit \in Nat \ {0}
    /\ MaxAttempts \in Nat
    /\ None \notin Worker \cup Change

VARIABLES
    coord,     \* coordinates: state and enabling_change
    job,       \* jobs
    active,    \* active_job_tags: <<tag, job>>
    trail,     \* last next_state of each job in transitions
    held       \* leases the workers were given and remember

fvars == <<coord, job, active, trail, held>>

JobState == {"NONE", "READY", "RETRY", "LEASED", "HIBERNATED", "ACKED"}
Open == {"READY", "RETRY", "LEASED"}

JobRow == [state: JobState, costed: BOOLEAN, avail: Nat, owner: Worker \cup {None},
           token: Nat, until: Nat, attempts: Nat, change: Change \cup {None}]
CoordRow == [state: {"UNSEEN", "DISCOVERED", "HIBERNATED_LOW_VOI"}, change: Change \cup {None}]
HeldLease == [j: Job, w: Worker, token: Nat \ {0}]

\* Every variable has its type; NONE and BROKEN are not states of the table but absent
\* rows and a wrong history.
FrontierTypeOK ==
    /\ coord \in [Coord -> CoordRow]
    /\ job \in [Job -> JobRow]
    /\ active \subseteq Tag \X Job
    /\ trail \in [Job -> JobState \cup {"BROKEN"}]
    /\ held \subseteq HeldLease

NoJob == [state |-> "NONE", costed |-> FALSE, avail |-> 0, owner |-> None, token |-> 0,
          until |-> 0, attempts |-> 0, change |-> None]

InitFrontier ==
    /\ coord = [c \in Coord |-> [state |-> "UNSEEN", change |-> None]]
    /\ job = [j \in Job |-> NoJob]
    /\ active = {}
    /\ trail = [j \in Job |-> "NONE"]
    /\ held = {}

-----------------------------------------------------------------------------
(***************************************************************************)
(* Helpers.                                                                *)
(***************************************************************************)
Hibernated(c) == coord[c].state = "HIBERNATED_LOW_VOI"

\* Mutant: the triggers insert but never delete.
RetaggedInsertOnly(J, after) ==
    active \cup {p \in Tag \X J : /\ p[1] \in TagsOf[p[2]]
                                   /\ after[p[2]].costed /\ after[p[2]].state \in Open}

\* The triggers on jobs and job_tags: the tags of the rows J are deleted and, for
\* a row that is costed and open after the update, inserted again.
Retagged(J, after) ==
    {p \in active : p[2] \notin J}
        \cup {p \in Tag \X J : /\ p[1] \in TagsOf[p[2]]
                               /\ after[p[2]].costed /\ after[p[2]].state \in Open}

\* _event for the jobs J: the previous state it records, then the next one.
Logged(J, previous, next) ==
    [j \in Job |-> IF j \notin J THEN trail[j]
                   ELSE IF trail[j] = previous[j] THEN next[j].state ELSE "BROKEN"]

\* UPDATE jobs ... WHERE job_id=j with its trigger and its _event.
Update(j, row, previous) ==
    /\ job' = [job EXCEPT ![j] = row]
    /\ active' = Retagged({j}, job')
    /\ trail' = Logged({j}, [i \in Job |-> previous], job')

\* Mutant: the worker's name is enough.
LeasedByName(h, t) ==
    job[h.j].state = "LEASED" /\ job[h.j].owner = h.w /\ job[h.j].until > t

\* _leased: the row still belongs to the lease h at the caller's clock.
Leased(h, t) ==
    /\ job[h.j].state = "LEASED"
    /\ job[h.j].owner = h.w /\ job[h.j].token = h.token
    /\ job[h.j].until > t

Released(row) == [row EXCEPT !.owner = None, !.token = 0, !.until = 0]

\* eligible: due at the caller's clock, costed, and its coordinate is awake.
Due(row, t) ==
    \/ row.state \in {"READY", "RETRY"} /\ row.avail <= t
    \/ row.state = "LEASED" /\ row.until <= t
Eligible(j, t) == Due(job[j], t) /\ job[j].costed /\ ~Hibernated(CoordOf[j])

-----------------------------------------------------------------------------
(***************************************************************************)
(* Operations.                                                             *)
(***************************************************************************)

\* enqueue: known work is left alone; new work discovers its coordinate and goes
\* to sleep with it.
Enqueue(j, costed, t) ==
    /\ job[j].state = "NONE"
    /\ coord' = [coord EXCEPT ![CoordOf[j]].state = IF @ = "UNSEEN" THEN "DISCOVERED" ELSE @]
    /\ Update(j, [NoJob EXCEPT !.state = IF Hibernated(CoordOf[j]) THEN "HIBERNATED" ELSE "READY",
                               !.costed = costed, !.avail = t,
                               !.change = IF Hibernated(CoordOf[j]) THEN coord[CoordOf[j]].change
                                          ELSE None],
              "NONE")
    /\ UNCHANGED held

\* observe_coordinate: hibernation needs a named change and ends only by a wake.
ObserveCoordinate(c, state, change) ==
    /\ state = "HIBERNATED_LOW_VOI" => change # None
    /\ Hibernated(c) => state = "HIBERNATED_LOW_VOI"
    /\ coord' = [coord EXCEPT ![c] = [state |-> state,
                                      change |-> IF change # None THEN change ELSE coord[c].change]]
    /\ UNCHANGED <<job, active, trail, held>>

WakeCoordinate(c, change) ==
    /\ Hibernated(c) /\ coord[c].change = change
    /\ coord' = [coord EXCEPT ![c].state = "DISCOVERED"]
    /\ UNCHANGED <<job, active, trail, held>>

\* lease_jobs for the selected jobs S.
LeaseJobs(w, S, t) ==
    /\ S # {} /\ Cardinality(S) <= Limit
    /\ \A j \in S : Eligible(j, t) /\ job[j].attempts < MaxAttempts
    /\ job' = [j \in Job |->
                 IF j \in S
                 THEN [job[j] EXCEPT !.state = "LEASED", !.owner = w, !.until = t + LeaseFor,
                                     !.token = job[j].attempts + 1, !.attempts = @ + 1]
                 ELSE job[j]]
    /\ active' = Retagged(S, job')
    /\ trail' = Logged(S, [j \in Job |-> job[j].state], job')
    /\ held' = held \cup {[j |-> j, w |-> w, token |-> job[j].attempts + 1] : j \in S}
    /\ UNCHANGED coord

PricePendingJob(j) ==
    /\ job[j].state \in {"READY", "RETRY"} /\ ~job[j].costed /\ ~Hibernated(CoordOf[j])
    /\ Update(j, [job[j] EXCEPT !.costed = TRUE], job[j].state)
    /\ UNCHANGED <<coord, held>>

\* The three ways a worker ends its lease.  previous is a literal in the code.
Ack(h, t) ==
    /\ Leased(h, t)
    /\ Update(h.j, [Released(job[h.j]) EXCEPT !.state = "ACKED"], "LEASED")
    /\ UNCHANGED <<coord, held>>

Retry(h, t) ==
    /\ Leased(h, t)
    /\ Update(h.j, [Released(job[h.j]) EXCEPT !.state = "RETRY", !.avail = t + RetryDelay], "LEASED")
    /\ UNCHANGED <<coord, held>>

BlockLeasedJob(h, change, t) ==
    /\ Leased(h, t)
    /\ Update(h.j, [Released(job[h.j]) EXCEPT !.state = "HIBERNATED", !.change = change], "LEASED")
    /\ UNCHANGED <<coord, held>>

\* Mutant: the event assumes the job was READY.
HibernateJobAssumesReady(j, change) ==
    /\ job[j].state \notin {"NONE", "LEASED", "ACKED"}
    /\ Update(j, [job[j] EXCEPT !.state = "HIBERNATED", !.change = change], "READY")
    /\ UNCHANGED <<coord, held>>

HibernateJob(j, change) ==
    /\ job[j].state \notin {"NONE", "LEASED", "ACKED"}
    /\ Update(j, [job[j] EXCEPT !.state = "HIBERNATED", !.change = change], job[j].state)
    /\ UNCHANGED <<coord, held>>

\* wake_job keeps the auction of the row or brings a new one, with or without a cost.
WakeJob(j, change, costed, t) ==
    /\ job[j].state = "HIBERNATED" /\ job[j].change = change
    /\ ~Hibernated(CoordOf[j])
    /\ Update(j, [job[j] EXCEPT !.state = "READY", !.avail = t, !.costed = costed],
              "HIBERNATED")
    /\ UNCHANGED <<coord, held>>

\* A worker dies, or its pass is abandoned with some of its jobs undone.  A worker
\* name outlives its process, so an old and a new holder may share it.
ForgetLeases(H) ==
    /\ H # {}
    /\ held' = held \ H
    /\ UNCHANGED <<coord, job, active, trail>>

NextFrontier ==
    \/ \E j \in Job, costed \in BOOLEAN, t \in Time : Enqueue(j, costed, t)
    \/ \E c \in Coord, state \in {"DISCOVERED", "HIBERNATED_LOW_VOI"}, ch \in Change \cup {None} :
          ObserveCoordinate(c, state, ch)
    \/ \E c \in Coord, ch \in Change : WakeCoordinate(c, ch)
    \/ \E w \in Worker, S \in SUBSET Job, t \in Time : LeaseJobs(w, S, t)
    \/ \E j \in Job : PricePendingJob(j)
    \/ \E h \in held, t \in Time : Ack(h, t) \/ Retry(h, t)
    \/ \E h \in held, ch \in Change, t \in Time : BlockLeasedJob(h, ch, t)
    \/ \E j \in Job, ch \in Change : HibernateJob(j, ch)
    \/ \E j \in Job, ch \in Change, costed \in BOOLEAN, t \in Time : WakeJob(j, ch, costed, t)
    \/ \E H \in SUBSET held : ForgetLeases(H)

SpecFrontier == InitFrontier /\ [][NextFrontier]_fvars

-----------------------------------------------------------------------------
(***************************************************************************)
(* Properties.                                                             *)
(***************************************************************************)

\* The derived table the exploration floors read is exact: a tagged job that is
\* costed and open is in it, and nothing else ("a derived index of costed READY,
\* RETRY and LEASED jobs", docs/RESEARCH_QUEUE_INDEX.md).
ActiveTagsExact ==
    active = {p \in Tag \X Job : /\ p[1] \in TagsOf[p[2]]
                                 /\ job[p[2]].costed /\ job[p[2]].state \in Open}

\* The transitions log is a faithful history: every event starts from the state
\* the job was really in, although ack, retry, block and wake write it as a
\* literal.
AuditTrail == \A j \in Job : trail[j] = job[j].state

\* A row carries a lease exactly while it is LEASED, its token is its latest
\* lease, and no second live token exists: whoever else holds a lease of the job
\* holds an older token.
OneOwner ==
    \A j \in Job :
        /\ (job[j].state = "LEASED") <=> (job[j].owner # None)
        /\ job[j].state = "LEASED" => job[j].token = job[j].attempts
        /\ job[j].state # "LEASED" => job[j].token = 0
        /\ \A h \in held : h.j = j /\ h.token = job[j].token => h.w = job[j].owner

\* Nothing sleeps without a name to wake it: a hibernated job and a hibernated
\* coordinate both name their enabling change.
SleepIsNamed ==
    /\ \A j \in Job : job[j].state = "HIBERNATED" => job[j].change # None
    /\ \A c \in Coord : Hibernated(c) => coord[c].change # None

\* Completed work is final: no later delivery, hibernation, wake or late worker
\* changes it ("delivery retry must not reset lease, ack or costs").
AckIsFinal == [][\A j \in Job : job[j].state = "ACKED" => job'[j] = job[j]]_fvars

\* A lease ends only by a worker that still holds the latest token of the job, which
\* completes, retries or blocks it, or by a newer lease; nothing else touches a leased
\* row or its cost (_leased, src/src/research/frontier.py:914, and "delivery retry must
\* not reset lease, ack or costs", :673).
LeaseEndsByOwner ==
    [][\A j \in Job :
         job[j].state = "LEASED" /\ job'[j] # job[j] =>
            /\ job'[j].costed = job[j].costed
            /\ \/ job'[j].state = "LEASED" /\ job'[j].attempts = job[j].attempts + 1
               \/ /\ job'[j].state \in {"ACKED", "RETRY", "HIBERNATED"}
                  /\ [j |-> j, w |-> job[j].owner, token |-> job[j].attempts] \in held]_fvars

\* A worker never holds a lease from the future.
HeldIsPast == \A h \in held : h.token <= job[h.j].attempts

\* Work that was never enqueued was never leased.
FreshRows == \A j \in Job : job[j].state = "NONE" => job[j].attempts = 0

\* FrontierInv is inductive: OneOwner needs HeldIsPast to know that a fresh token is
\* held by nobody else.
FrontierInv ==
    /\ FrontierTypeOK /\ ActiveTagsExact /\ AuditTrail /\ OneOwner /\ SleepIsNamed
    /\ HeldIsPast /\ FreshRows

\* The research queue is a fenced at-least-once intake, like the source journal.
JobLogState == [j \in Job |-> CASE job[j].state = "NONE" -> "absent"
                                [] job[j].state = "ACKED" -> "acked"
                                [] OTHER -> "pending"]
JobLogGen == [j \in Job |-> job[j].attempts]
JobLogHolds == {<<h.j, h.token>> : h \in held}
JobLog == INSTANCE IntakeLog WITH Item <- Job, st <- JobLogState, gen <- JobLogGen,
                                  holds <- JobLogHolds

\* Every behaviour of the queue is one of IntakeLog: hibernation, pricing, retries
\* and worker deaths never lose or complete work.
JobsImplementLog == JobLog!Spec
=============================================================================
