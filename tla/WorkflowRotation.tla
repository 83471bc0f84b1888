-------------------------- MODULE WorkflowRotation --------------------------
(***************************************************************************)
(* Which work a research pass takes (_workflow_jobs of unknown_engine.py): *)
(* one job of the next consumer kind, whose turn is kept in the checkpoint *)
(* of the framework, then the rest of the limit from all kinds, both       *)
(* through FrontierIndex.lease_jobs and its one exploration cursor.        *)
(*                                                                         *)
(* FrontierJobs models the whole life of a job.  Here jobs are due or not, *)
(* which lets passes go on for ever.  A job comes back due when it is      *)
(* retried, woken or enqueued, or when its lease has lapsed.               *)
(*                                                                         *)
(* A lease is one BEGIN IMMEDIATE transaction, followed row by row: each   *)
(* row it selects is a step of tx, its writes are those of its commit, and *)
(* no other writer of the queue runs while it is open.                     *)
(* A query reads ScanLimit rows in its order; those that are too dear for  *)
(* the budget stay due and take up room in it.                             *)
(* With the default shares of a tenth and a limit below 20 every floor's   *)
(* quota is one job.                                                       *)
(***************************************************************************)
EXTENDS Integers, FiniteSets

CONSTANTS
    Jobs,
    KindCount,    \* consumer kinds, numbered in their sorted order
    KindOf,
    FloorCount,   \* exploration floors, numbered in exploration_floors order
    FloorsOf,     \* the floors a job is tagged for
    Created,      \* position of a job in created_at, job_id order
    Priority, Cost,
    ScanLimit,    \* rows a query reads
    PassLimit, Budget,   \* of a pass
    MaxAborts     \* bound: passes that end half-way

ASSUME RotationConstants ==
    /\ KindCount \in Nat \ {0} /\ FloorCount \in Nat \ {0}
    /\ KindOf \in [Jobs -> 1..KindCount] /\ FloorsOf \in [Jobs -> SUBSET (1..FloorCount)]
    /\ Created \in [Jobs -> Nat] /\ Priority \in [Jobs -> Int] /\ Cost \in [Jobs -> Nat]
    /\ \A i, j \in Jobs : Created[i] = Created[j] => i = j
    /\ ScanLimit \in Nat \ {0}
    /\ PassLimit \in 1..19 /\ Budget \in Nat \ {0} /\ MaxAborts \in Nat

VARIABLES
    due,        \* jobs a lease may take
    cursor,     \* exploration_cursor of the research queue
    last,       \* research_consumer_rotation's last_kind; 0: none
    stage,      \* where the pass is
    chosen,     \* the kind it chose
    tx,         \* the open lease transaction
    took,       \* jobs it has leased
    wanted,     \* history: affordable jobs that are due since it began, or taken
    buried,     \* history: rows too dear for a pass filled the scan for the chosen kind
    kindWait,   \* history: whole passes in a row that left a kind behind
    aborts

rotationVars == <<due, cursor, last, stage, chosen, tx, took, wanted, buried, kindWait,
                  aborts>>

Kind == 1..KindCount
Floor == 1..FloorCount
Leasing == {"lease1", "lease2"}
OpenTx == [pool: SUBSET Jobs, limit: Nat, remaining: Nat, visited: 0..FloorCount,
           selected: SUBSET Jobs]
NoTx == [pool |-> {}, limit |-> 0, remaining |-> 0, visited |-> 0, selected |-> {}]

\* Every variable has its type.
RotationTypeOK ==
    /\ due \subseteq Jobs /\ took \subseteq Jobs /\ wanted \subseteq Jobs
    /\ cursor \in 0..(FloorCount - 1) /\ last \in 0..KindCount /\ chosen \in 0..KindCount
    /\ stage \in {"idle", "first", "checkpoint", "rest"} \cup Leasing
    /\ tx \in OpenTx
    /\ buried \in BOOLEAN /\ kindWait \in [Kind -> Nat] /\ aborts \in 0..MaxAborts

InitRotation ==
    /\ due = {} /\ cursor = 0 /\ last = 0 /\ stage = "idle" /\ chosen = 0
    /\ tx = NoTx /\ took = {} /\ wanted = {} /\ buried = FALSE
    /\ kindWait = [k \in Kind |-> 0] /\ aborts = 0

-----------------------------------------------------------------------------
(***************************************************************************)
(* lease_jobs.                                                             *)
(***************************************************************************)

\* The transaction begins: eligible is what its queries select from.
OpenLease(eligible, limit, budget) ==
    tx' = [pool |-> eligible, limit |-> limit, remaining |-> budget, visited |-> 0,
           selected |-> {}]

Filled == Cardinality(tx.selected) >= tx.limit

\* take skips the rows that were selected and those that are too dear.
Fits(rows) == {j \in rows \ tx.selected : Cost[j] <= tx.remaining}

Older(i, j) == Created[i] < Created[j]
Better(i, j) == Priority[i] > Priority[j] \/ (Priority[i] = Priority[j] /\ Older(i, j))

\* The oldest rows with the tag, whatever they cost.
TagScan(i) ==
    LET rows == {j \in tx.pool : i \in FloorsOf[j]}
    IN  {j \in rows : Cardinality({h \in rows : Older(h, j)}) < ScanLimit}

\* The best rows, whatever they cost.
PriorityScan ==
    {j \in tx.pool : Cardinality({h \in tx.pool : Better(h, j)}) < ScanLimit}

\* ordered_tags: the floors from the cursor on, then those before it.
OrderedTag(v) == IF cursor + v < FloorCount THEN cursor + v + 1
                                            ELSE cursor + v + 1 - FloorCount

\* The next floor gives the oldest of the rows it reads that fits, if there is one.
VisitFloor ==
    /\ stage \in Leasing /\ tx.visited < FloorCount /\ ~Filled
    /\ LET rows == Fits(TagScan(OrderedTag(tx.visited)))
       IN  \/ /\ rows = {}
              /\ tx' = [tx EXCEPT !.visited = @ + 1]
           \/ \E j \in rows :
                /\ \A i \in rows : ~Older(i, j)
                /\ tx' = [tx EXCEPT !.visited = @ + 1, !.selected = @ \cup {j},
                                    !.remaining = @ - Cost[j]]
    /\ UNCHANGED <<due, cursor, last, stage, chosen, took, wanted, buried, kindWait, aborts>>

\* What is left of the limit goes to the best priority among the rows it reads.
TakeBest ==
    /\ stage \in Leasing /\ tx.visited = FloorCount /\ ~Filled
    /\ \E j \in Fits(PriorityScan) :
         /\ \A i \in Fits(PriorityScan) : ~Better(i, j)
         /\ tx' = [tx EXCEPT !.selected = @ \cup {j}, !.remaining = @ - Cost[j]]
    /\ UNCHANGED <<due, cursor, last, stage, chosen, took, wanted, buried, kindWait, aborts>>

\* The lease is full, or its queries gave what they could; the cursor and the rows are written.
CommitLease ==
    /\ Filled \/ (tx.visited = FloorCount /\ Fits(PriorityScan) = {})
    /\ took' = took \cup tx.selected
    /\ due' = due \ tx.selected
    /\ cursor' = (cursor + IF tx.visited > 1 THEN tx.visited ELSE 1) % FloorCount
    /\ tx' = NoTx

-----------------------------------------------------------------------------
(***************************************************************************)
(* The pass.                                                               *)
(***************************************************************************)

\* due_kinds: the kinds with a due job that fits the budget of the pass.
due_kinds == {k \in Kind : \E j \in due : KindOf[j] = k /\ Cost[j] <= Budget}

Foremost(kinds) == CHOOSE k \in kinds : \A i \in kinds : k <= i

\* Mutant: the last kind is taken again while it has work.
MutNextKind ==
    LET later == {k \in due_kinds : k >= last}
    IN  Foremost(IF later = {} THEN due_kinds ELSE later)

\* The next kind in sorted order after the last one, or the first.
NextKind ==
    LET later == {k \in due_kinds : k > last}
    IN  Foremost(IF later = {} THEN due_kinds ELSE later)

\* The groups are read and the next of them is chosen.
Begin ==
    /\ stage = "idle" /\ took = {}
    /\ wanted' = {j \in due : Cost[j] <= Budget} /\ buried' = FALSE
    /\ IF due_kinds = {}
       THEN stage' = "rest" /\ UNCHANGED chosen
       ELSE stage' = "first" /\ chosen' = NextKind
    /\ UNCHANGED <<due, cursor, last, tx, took, kindWait, aborts>>

\* Rows that stay due however often they are read: no pass can afford them.
TooDear(jobs) == {j \in jobs : Cost[j] > Budget}

\* The first lease: one job of the chosen kind.
OpenFirst ==
    /\ stage = "first" /\ stage' = "lease1"
    /\ LET rows == {j \in due : KindOf[j] = chosen}
       IN  /\ OpenLease(rows, 1, Budget)
           /\ buried' = (Cardinality(TooDear(rows)) >= ScanLimit)
    /\ UNCHANGED <<due, cursor, last, chosen, took, wanted, kindWait, aborts>>

CommitFirst ==
    /\ stage = "lease1" /\ CommitLease /\ stage' = "checkpoint"
    /\ UNCHANGED <<last, chosen, wanted, buried, kindWait, aborts>>

\* checkpoint_research_component.
Checkpoint ==
    /\ stage = "checkpoint" /\ last' = chosen /\ stage' = "rest"
    /\ UNCHANGED <<due, cursor, chosen, tx, took, wanted, buried, kindWait, aborts>>

\* The sum of the costs of some jobs, counted in units.
CostOf(jobs) == Cardinality(UNION {{j} \X (1..Cost[j]) : j \in jobs})

\* Mutant: the second lease has the whole budget again.
MutRemaining == Budget

Remaining == Budget - CostOf(took)

\* Mutant: the second lease asks for the chosen kind as well.
MutRestJobs == {j \in due : KindOf[j] = chosen}

\* The second lease asks for every registered kind.
RestJobs == due

RestDue == Cardinality(took) < PassLimit /\ Remaining > 0

\* The rest of the limit and of the budget, from every kind.
OpenRest ==
    /\ stage = "rest" /\ RestDue /\ stage' = "lease2"
    /\ OpenLease(RestJobs, PassLimit - Cardinality(took), Remaining)
    /\ UNCHANGED <<due, cursor, last, chosen, took, wanted, buried, kindWait, aborts>>

\* Some of these jobs are of the kind.
HasKind(k, jobs) == \E j \in jobs : KindOf[j] = k

\* A pass that took these jobs left the kind behind, and not since its scan was full of
\* rows no pass can afford.
LeftBehind(k, jobs) ==
    HasKind(k, wanted) /\ ~HasKind(k, jobs) /\ ~(buried /\ k = chosen)

\* The whole pass is history.
PassEnds ==
    /\ stage' = "idle"
    /\ kindWait' = [k \in Kind |-> IF LeftBehind(k, took') THEN kindWait[k] + 1 ELSE 0]
    /\ UNCHANGED <<last, chosen, wanted, buried, aborts>>

CommitRest == stage = "lease2" /\ CommitLease /\ PassEnds

NoRest ==
    /\ stage = "rest" /\ ~RestDue
    /\ UNCHANGED <<due, cursor, tx, took>> /\ PassEnds

\* The jobs were dispatched: they are done, or they come back.
Dispatched ==
    /\ stage = "idle" /\ took # {} /\ took' = {}
    /\ UNCHANGED <<due, cursor, last, stage, chosen, tx, wanted, buried, kindWait, aborts>>

\* A write raises or the process dies: an open lease is rolled back, those that were
\* committed stay until they lapse.
Abort ==
    /\ stage # "idle" /\ aborts < MaxAborts
    /\ stage' = "idle" /\ tx' = NoTx /\ took' = {} /\ aborts' = aborts + 1
    /\ kindWait' = [k \in Kind |-> IF LeftBehind(k, took) THEN kindWait[k] ELSE 0]
    /\ UNCHANGED <<due, cursor, last, chosen, wanted, buried>>

\* Work is enqueued, retried, woken, or its lease lapses.
Arrive(j) ==
    /\ stage \notin Leasing /\ j \notin due \cup took /\ due' = due \cup {j}
    /\ UNCHANGED <<cursor, last, stage, chosen, tx, took, wanted, buried, kindWait, aborts>>

\* Its coordinate is hibernated, or a worker that lost its lease still ends it.
Withdraw(j) ==
    /\ stage \notin Leasing /\ j \in due
    /\ due' = due \ {j} /\ wanted' = wanted \ {j}
    /\ UNCHANGED <<cursor, last, stage, chosen, tx, took, buried, kindWait, aborts>>

NextRotation ==
    \/ Begin \/ OpenFirst \/ CommitFirst \/ Checkpoint
    \/ OpenRest \/ CommitRest \/ NoRest
    \/ VisitFloor \/ TakeBest \/ Dispatched \/ Abort
    \/ \E j \in Jobs : Arrive(j) \/ Withdraw(j)

SpecRotation == InitRotation /\ [][NextRotation]_rotationVars

-----------------------------------------------------------------------------
(***************************************************************************)
(* Properties.                                                             *)
(***************************************************************************)

\* No kind with affordable work is left behind by as many whole passes in a row as
\* there are kinds, unless its own turn finds ScanLimit rows of it that no pass can
\* afford ("One bounded lease per active group rotation prevents an older RAW/tag
\* backlog from indefinitely hiding a newly wired consumer",
\* src/src/research/unknown_engine.py:481; the rows are those of the LIMIT in
\* src/src/research/frontier.py:803-805, which too dear ones never leave).
KindsRotate == \A k \in Kind : kindWait[k] < KindCount

\* The two leases of a pass share one limit and one budget, each for itself and
\* together (remaining and limit-len(jobs), src/src/research/unknown_engine.py:486-488).
PassWithinEnvelope == Cardinality(took) <= PassLimit /\ CostOf(took) <= Budget

\* Some of these jobs are tagged for the floor.
HasFloor(i, jobs) == \E j \in jobs : i \in FloorsOf[j]

\* The limit and the budget of a pass have room for its first job and one more of every
\* floor when none costs more than a share, as the default limit of 8 has over 7 floors
\* when a job costs a unit.
HasRoom(share, jobs) ==
    /\ PassLimit > FloorCount /\ share * (FloorCount + 1) <= Budget
    /\ \A j \in jobs : Cost[j] <= share

\* The floor's scan reads beyond the rows that may be dearer than what is left.
ScanSuffices(share, i) ==
    Cardinality({j \in due : i \in FloorsOf[j] /\ Cost[j] > share}) < ScanLimit

WholePassEnds == stage # "idle" /\ stage' = "idle" /\ aborts' = aborts

\* A whole pass with room for what it wants and takes leaves no floor behind that has
\* affordable work which its scan can reach, wherever the cursor stands and whatever its
\* first lease took (the floors of src/src/research/frontier.py:781-798 are minimum
\* shares of every pass).
FloorsServed ==
    [][WholePassEnds =>
         \A share \in 1..Budget : HasRoom(share, wanted \cup took') =>
           \A i \in Floor :
             HasFloor(i, wanted) /\ ScanSuffices(share, i) => HasFloor(i, took')]_rotationVars

-----------------------------------------------------------------------------
(***************************************************************************)
(* Why they hold.                                                          *)
(***************************************************************************)

\* How many turns after kind l it is kind k's.
Turns(l, k) == IF k > l THEN k - l ELSE k - l + KindCount

\* What a pass has in hand, and the transaction among it.
InHand == took \cup tx.selected

\* Nothing is leased twice, and the envelope covers what is in hand.
Envelope ==
    /\ IsFiniteSet(due) /\ took \cap due = {} /\ tx.selected \subseteq tx.pool /\ tx.pool \subseteq due
    /\ stage \notin Leasing => tx = NoTx
    /\ stage \in {"first", "lease1"} => took = {} /\ chosen \in Kind
    /\ stage = "checkpoint" => chosen \in Kind
    /\ stage \in {"checkpoint", "rest", "lease2"} => Cardinality(took) <= 1
    /\ stage = "lease1" => tx.limit = 1 /\ tx.pool = {j \in due : KindOf[j] = chosen}
                           /\ buried = (Cardinality(TooDear(tx.pool)) >= ScanLimit)
    /\ stage = "lease2" => tx.limit = PassLimit - Cardinality(took) /\ tx.pool = due
    /\ IsFiniteSet(InHand) /\ \A j \in InHand : Cost[j] <= Budget
    /\ stage \in Leasing => /\ Cardinality(tx.selected) <= tx.limit
                            /\ tx.remaining = Budget - CostOf(InHand)
    /\ Cardinality(InHand) <= PassLimit /\ CostOf(InHand) <= Budget

\* A pass has taken what it wanted, or it is still due.
Wanted ==
    stage # "idle" => wanted \subseteq due \cup took /\ \A j \in wanted : Cost[j] <= Budget

\* A waiting kind's turn comes before it has waited too long; the turn passes to the
\* chosen kind, which is the first wanted one and gets its job.
TurnKept ==
    /\ stage \in {"idle", "first", "lease1", "checkpoint"} =>
         \A k \in Kind : kindWait[k] + Turns(last, k) <= KindCount
    /\ stage \in {"first", "lease1", "checkpoint"} =>
         \A k \in Kind : HasKind(k, wanted) => k = chosen \/ Turns(last, chosen) < Turns(last, k)
    /\ stage = "checkpoint" => (~buried /\ HasKind(chosen, wanted) => HasKind(chosen, took))
    /\ stage \in {"rest", "lease2"} =>
         \A k \in Kind : LeftBehind(k, took) =>
            kindWait[k] + 1 + Turns(last, k) <= KindCount

\* A visited floor of the second lease gave at most one row, and with room for all of
\* them the visited floors that are wanted have their job.
FloorsMet ==
    stage = "lease2" =>
      /\ tx.visited < FloorCount => Cardinality(tx.selected) <= tx.visited
      /\ \A share \in 1..Budget : HasRoom(share, wanted \cup InHand) =>
           \A v \in 0..(tx.visited - 1) :
             HasFloor(OrderedTag(v), wanted) /\ ScanSuffices(share, OrderedTag(v)) =>
               HasFloor(OrderedTag(v), InHand)

RotationInv == RotationTypeOK /\ Envelope /\ Wanted /\ TurnKept /\ FloorsMet
=============================================================================
