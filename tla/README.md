# Verification of the shadow research desk

TLA+ models of the concurrent and crash-exposed core of this repository, model-checked with
TLC and, but for liveness, proved with TLAPS. Paths are relative to the
directory that holds the repository as `src/`, so the Python package is `src/src/...` and
the host scripts are `src/ops/...`.

## The system and its parts

The desk observes public sources and chains, turns observations into canonical research
jobs, evaluates candidates, and (dry-run by default) executes through a signing daemon.
Most of its 105 000 lines are sequential feature extraction, statistics, decoding and
reporting; what is hard to test is the plumbing that moves observations, orders and
evidence between threads, tasks, processes and disk, and that is what is modelled.

| part | code | module | hard behaviour |
|---|---|---|---|
| source journal | `collectors/source_journal.py` | `SourceJournal` | batch transactions, rollback, crash after commit, stale leases, caller clocks |
| mesh, consumer, outbox | `collectors/event_source.py`, `runtime/source_intelligence.py`, `collectors/onion_*.py` | `SourceIntake` | cancellation during disk calls, a failure between any two durable steps |
| research queue | `research/frontier.py` | `FrontierJobs`, `WorkflowRotation` | lease expiry under stale clocks, sleeping work, starvation |
| research engine | `research/unknown_engine.py`, `data_requests.py` | `ResearchPass`, `WorkflowRotation` | lost wakes, half-finished passes, one cursor for two leases |
| RPC budget | `chains/rpc_budget.py` | `RpcBudget` | reservations of several processes, clocks read before the lock |
| signer | `execution/signer*.py` | `SignerChannel` | late answers in a held connection, retries, a halt file |
| landing | `execution/landing_router.py`, `jupiter_jito.py` | `LandingRace` | routes that answer late or never, forks |
| positions | `main.py`, `strategies/multihead_predictor.py`, `runtime/capital_runtime.py` | `PositionBook` | coroutines that await orders on the same position |
| promotion | `strategies/champion_challenger.py`, `research/research_validation.py` | `PromotionLadder` | two checkpoints for one outcome, retirement that fails half-way |
| training | `runtime/training*.py`, `train_once.py` | `TrainingRounds` | two processes, subprocesses that outlive their round |

Parts with concurrency or crash exposure that are not modelled: the endpoint failover of the
RPC manager, the offload pools, the volatile source queue, the onion crawl schedule, chain
ingestion and the EVM observer, the evidence ledger, and the host scripts under `src/ops`
(healing, deploys, backup, recovery). See the plan.

Components interact through calls on one owner event loop, through `asyncio.to_thread`
dispatches to SQLite, through queues between threads and processes, and through files that
survive the process. `PROJECT.json` lists every component with its state of modelling and
every hazard with the properties that watch it.

## Modules

`IntakeLog` is the abstract specification of a durable intake (accept, lease, forget,
acknowledge by the latest lease only). `SourceJournal`, `SourceIntake` and `FrontierJobs` each
instantiate it under a refinement mapping, so three different stores are shown to keep one
promise. `SourceIntake` composes mesh, consumer and outbox over the journal's rows;
`ResearchPass` the engine, the data service and the queue; `PositionBook` the book, its
managers and the orders. The other modules stand alone. `...Proofs` modules extend their module
and `TLAPS`: `SourceProofs` is about `SourceJournal` and `SourceIntake`, which keep one promise
at two levels, `ResearchProofs` about `FrontierJobs`, `WorkflowRotation` and `ResearchPass`,
the queue, how it is shared and its user, `TrainingProofs` about `TrainingRounds`, and the
others about the module they are named after. `MC...` modules add a symmetry set or an
instance's constants.

Definitions whose comment begins with "Mutant:" are wrong on purpose. Each is a plausible
slip in the definition that follows it and shows that some property would notice it; nothing
else refers to them.

A step is what the code does without giving way: between two awaits for coroutines, between
two queue operations or counter updates for threads, one transaction or one file write for
processes. A rejected call that changes nothing is not an action. Faults are actions of
their own with a named bound, so every run says what may go wrong in it.

### SourceJournal

`db` is the committed SQLite file: `row[i]` is a row of `intake` (body, hash, clocks,
generation, due), `ticket` and `pending` the table `source_service`, `accepted` and `acked`
the table `intake_counts`. `tx` is the open transaction with its own copy of the database,
so a rollback is the loss of the copy and a crash after the commit is `CommitLeaseLost`.
`BeginAppend`, `InsertNext`, `CommitAppend` are `append`; `BeginLease`, `LeaseOne`,
`CommitLease` are `lease_many` with its `_lease_one` loop; `Acknowledge`, `Retry`, `Close`,
`Reopen` are the methods of those names. `issued` collects the receipts callers were given:
a caller may use any of them at any time, with any clock. `Rot` is external: a stored body
changes on disk. The digest of a body is the body itself (an injective hash); canonical JSON
is not modelled. `passed` is a history of how often one source overtook another.

### SourceIntake

Durable variables are the journal rows, the outbox, the canonical jobs and the admitted
links; volatile ones are the mesh (`seen`, `batch`, `prefetch`, `leases`), the thread result
`reply`, and the consumer (`pc`, `held`). `pc` is the consumer's position in the
`_source_consumer_loop` body: record, deliver, acknowledge the outbox, acknowledge the
journal, index, or the two failure branches. `LeaseMany` commits in a thread; the result
reaches the reader in `LeaseReturns` or is discarded by the 120 s timeout (`LeaseTimesOut`).
Every step has a failing variant that costs one of `MaxFault` faults. `Crash` discards the
volatile part, `Restart` starts an empty process on the same files. The journal's clocks are
abstracted to `Lapse`: a leased row becomes ready when its deadline passes.

### FrontierJobs, WorkflowRotation, ResearchPass

Each method of `FrontierIndex` is one `BEGIN IMMEDIATE` transaction, so it is one action;
its triggers (`Retagged`) and its transitions row (`Logged`) are part of it. `held` is what
workers remember of their leases: they may use one long after it expired, with the clock
they read when their pass began, so clocks are any member of `Time` and are not ordered.
A token (`uuid4`) is modelled by the ordinal of the lease, which is as unique. `trail` keeps
the last `next_state` of the transitions log and turns `BROKEN` when an event claims a
previous state that was not the last one.

`WorkflowRotation` follows a pass through its two leases over one cursor. `tx` is the open
lease transaction (the rows its queries can return, its limit, what remains of its budget, the
floors visited and the rows selected): `OpenFirst` begins the lease of one job of the chosen
kind, `OpenRest` the one of the rest from all kinds; `VisitFloor` is a turn of the loop over
`ordered_tags` with the `take` of that floor, `TakeBest` one row of the priority scan
(`TagScan` and `PriorityScan` are the first `ScanLimit` rows of each query, `scan_limit` in the
code, whether or not the budget can pay for them), and `CommitFirst`, `CommitRest` write the
rows and the cursor. `Abort` rolls an open lease back and leaves committed ones to lapse. While
a lease is open it holds the write lock, so `Arrive` and `Withdraw`, the other writers of the
queue, wait; jobs come back due for ever. `wanted`, `buried` and `kindWait` are histories: what
a pass found due, whether as many rows that no pass can afford stood in the chosen kind as a
query reads, and for how many whole passes a kind was left behind. The cost of a set of jobs
(`CostOf`) is the number of its units, a cardinality rather than a fold, so that the finite-set
lemmas speak of it.

`ResearchPass` dispatches the leased work: series index observables and announce them,
requests sleep on the name of one, and every durable write is a step after which the process
may die. A drain serves the first `DrainMax` pending names and a page of sleepers of each
(8 and 32 in the code). The catalogue keeps the `MaxRefs` newest points (`Retained`), and a
result that is cached may push any other out (`Pushable`): the cache of 512 results is shared
with kinds of work that are not modelled, so how many are before a given one is not known.
`forgotten` is a history of the observables whose last announcement may have existed only in
a catalogue write that failed or in a result that was pushed out before its job was retried.

### RpcBudget

The shared row, the day and the month each process read before it got the write lock, and a
ledger of what was granted. `Delayed` is the sleep of `acquire`, after which the reservation
is tried again.

### SignerChannel, LandingRace, PositionBook, PromotionLadder

`SignerChannel` models connections as streams of answers: an answer that is not read stays
and is read next. The daemon serves frames of several connections and keeps the rate window
and the halt file. `LandingRace` follows one signed transaction per order: which routes
carried it, which answers arrived when, and what the chain did. `PositionBook` numbers
positions as objects, because a coroutine keeps its reference after the book has dropped
it; decisions are the environment's choice, orders fill, fail, are given up and may still
land, or fill without anything to prove their amounts (`BuyBlocked`, `SellBlocked`, the
second branch of `AddFilled`). `missed` counts what left the wallet in sales the book was not
told of. `PromotionLadder` follows one hypothesis whose content may change, through the
framework, its checkpoint file and the marks of the validation service. `passed` remembers
the contents that passed a trial, `torn` the outcomes whose checkpoint and mark came apart.

### TrainingRounds

The desk loop and the timer's one-shot activation around one flock, with trainers and
exporters as subprocesses that are actors of their own. Times are ages that saturate at the
threshold the code compares them with. Kills fall anywhere; the desk's cancelled stop is
`Cancel`. A lock file that cannot be opened counts as free for a probe and makes a round
raise; a report that cannot be read is a failure of its job (`ReadFails`).

## What the runs show

A run that passes shows its properties on its instance. The run marked **violated** states
what a docstring of the repository says, and TLC finds a behaviour of the code that
contradicts it.

| run | properties | shows |
|---|---|---|
| `journal` | `CountersExact`, `ReceiptsTruthful`, `OneLeasePerBatch`, `BoundedOvertaking`, `ImplementsLog` | Two sources, a re-observed identity, appends and leases of up to two rows, two leases per row, caller clocks that may step back, a body that rots, rollbacks, crashes and restarts: counters and receipts stay exact, a batch leases a row once, turns are fair, and the journal implements the abstract at-least-once intake. |
| `intake` | `AckedIsCanonical`, `OutboxUntilCanonical`, `RedeliveryNeedsFault`, `MeshImplementsLog`, `AcceptedIsAcked`, `OutboxDrains` | A post and an onion page with the same content through the whole path, with two failing or timed-out calls at any step, expiring leases and a crash: nothing is acknowledged or dropped from the outbox before the ledger has it, the path implements the abstract intake, and under fair scheduling every journaled observation is acknowledged and every outbox row drains. |
| `frontier_jobs` | `ActiveTagsExact`, `AuditTrail`, `LeaseEndsByOwner`, `JobsImplementLog` | Two jobs of one coordinate, two workers with unordered clocks, two leases per job: the trigger-maintained tag index, the transitions log and the lease fence stay exact through every order of leases, retries, hibernations, wakes and worker deaths, and the queue implements the abstract intake. |
| `rotation` | `KindsRotate`, `PassWithinEnvelope`, `FloorsServed` | Three kinds, two floors, a scan of two rows and two rows no pass can afford ahead of it, work that one pass cannot afford as a whole or only on its own, and two aborted passes: no kind with affordable work is left behind for a whole round unless its own turn finds its scan full of such rows, a pass never oversells its envelope, and a pass with room for its work and every floor (as the default 8 has over 7 tags at unit cost) leaves no floor behind whose work its scan can reach. |
| `research` | `NoLostWake`, `EndedWorkIsWhole`, `RequestsAnswered` | Three requests asleep on two observables, more than a page of them on one, a drain that serves one name, two series with more points than the catalogue keeps, results pushed out of the cache and a failure or death between any two writes: no wake is lost unless its announcement was, ended work is whole, and every request whose observable stays indexed is woken and answered. |
| `signer_calls` | `TimeoutsLeaveNothing`, `HaltBinds`, `SignedAtMostTwice`, `RateHeld`, `CallsEnd` | Two concurrent calls over three ticks of the rate window, with timeouts racing late answers, cancelled tasks, a daemon restart, a halt and a halt file that may be unreadable in any request: timeouts and lost connections leave no answer behind, a halt binds every later call for which the file could be read, no message is signed more than twice, the window holds, and every call ends even if the daemon never answers. |
| `signer_cancelled` **violated** | `AnswerIsOwn` | Three calls, one refused by the inspector: a call cancelled while it waits leaves its answer in the held connection and the next call returns it as its own. |
| `rpc_budget` | `AllocationHeld`, `RowIsLedger`, `SlotsKept` | Two processes reserve across midnight and the end of a month with clocks read before the lock: the allocations of every day and month hold and the row never loses a reservation. |
| `landing_race` | `RouteBooks`, `FilledIsConfirmed` | Two orders over the bundle lane, a sender and an RPC with lost answers, late answers and forks: the books of each route balance and a fill that is reported is on the chain. |
| `position_book` | `EventsReachADecision`, `EntriesBooked`, `BookCovered` | Two tokens, a worker, the sweep, scale-ins, contests for one place, and an order that may land late or fill with nothing to prove its amounts: every trade on a held token is followed by a decision, every entry whose cost the wallet proves finds its place in the book, and what the book claims beyond the wallet left in a sale it was never told of. |
| `ladder_authority` | `OneRung`, `LiveEarned`, `OutcomeCountsOnce` | Resubmission, crashes and failed checkpoint writes on the way to live authority: the content that is live passed its trial and earned it on both rungs, a content stands on one rung, and an outcome counts once unless its checkpoint and its mark came apart. |
| `training_rounds` | `OneTrainer`, `NativeNotSetBack`, `RoundsEnd` | The desk and the timer train with kills at any moment and a job that fails: one trainer runs at a time, an exporter that ends within its timeout never puts an older model back, and a trainer or exporter that never ends does not keep the lock. |

### Bounds

The bounds are the smallest at which the cases meet: two leases of a row give a stale and a
current holder, a clock of two values runs backwards as well as forwards, two bodies with
one identity make a re-observation, one fault and one crash can fall between any two durable
steps, a batch of two has a middle, and two workers, tasks or processes show every pairwise
race. The intake instance has a post and an onion page; directory snapshots, which differ in
when their links are admitted, are covered by the proofs. The rotation instance has a limit
with room for its floors, as the default has (8 over 7 tags), and dear work, so that the limit,
the budget and a first job that leaves nothing each end some pass. The landing race
has three routes, so that several answers can come after the race was decided. In the rotation
instance a query reads two rows and two rows no pass can afford are ahead of one kind and one
floor; in the research instance a drain serves one of two names, one sleeper of it at a time,
and the catalogue keeps two of three points, so that each limit is met. Bounds are named
(`Max...`) and stand in guards.

Symmetry is used in `frontier_jobs`, `rpc_budget` and `position_book`, which check no
liveness and compare the permuted values for equality only.

Deadlock is checked except where the modelled system may really stop: a journal whose rows
are all acknowledged or at the generation bound, a budget at the end of its calendar, orders
and calls that are all done, a position book whose positions are used up, and a hypothesis
with all its outcomes counted.

### The finding

`signer_cancelled`: `SignerClient._frame` drops its connection when a read fails or times
out, but not when its task is cancelled. The answer stays in the stream, and the next call
takes it for its own. `TimeoutsLeaveNothing` and `HaltBinds` therefore speak of behaviours
in which no call was cancelled while it waited.

### What the properties do not claim

Several properties are stated with the condition under which the code keeps them:

* `NoLostWake` and `RequestsAnswered` except an observable whose last announcement is lost
  (`forgotten`): it exists only in the cached result of the series, so a failure or death
  between the two catalogue writes of `ResearchDataService` loses it, and so does the eviction
  of that result (`data_requests.py:184-185`) before the job that announces it was retried. The
  requests then sleep until another series of the observable arrives. `RequestsAnswered` also
  ends when the catalogue drops the last point of the observable (`data_requests.py:108-116`).
* `_drain_evidence_wakes` takes the first eight pending names in the order of the names, so
  names that keep being announced can keep a later one waiting. `RequestsAnswered` says that
  it is served once they stop; each series announces its names once.
* `OutcomeCountsOnce` excepts an outcome for which the framework's checkpoint and the
  validation service's mark came apart: the write that took it into its bucket raised, or a
  crash lost the mark. Such an outcome is offered to the next rung, so the docstring "at most
  once across a restart" (`research_validation.py:561`) is not kept for it.
* `EntriesBooked` is about a buy whose cost the wallet proves. One that fills without a proven
  cost returns before `update_position` (`main.py:1340-1346`) and is in no book.
* `BookCovered` bounds what the book claims beyond the wallet by the sales it was not told of:
  an order given up as a timeout can still land, and a sale without a valid verified decrease
  returns before `reduce_position` (`main.py:3286-3293`).
* `HaltBinds` excepts a call for which the daemon could not read the halt file:
  `SignerService._halted` takes a failed stat for an absent file (`signer.py:234-238`), so the
  daemon signs although the file is there, against "Presence of this file stops all signing,
  immediately, for any caller." (`signer.py:82`). The model lets the stat fail in any request
  (`Serve`) and remembers the calls it failed for (`unseen`).
* `OneTrainer` is about trainers a round waits for; the desk's cancelled stop releases the
  lock and its trainer runs on until the unit is gone.
* `NativeNotSetBack` is about an export that ends within its timeout; one that was given up
  is not killed and may write later.
* `KindsRotate` excepts a kind whose own turn finds as many rows that no pass can afford as a
  query reads (`ScanLimit`, 256 in the code). `due_kinds` looks for an affordable row by
  itself, `lease_jobs` among the first 256 (`frontier.py:803-805`), and rows dearer than the
  budget stay due: behind 256 of them the kind can wait for ever.
* `FloorsServed` speaks of whole passes with room for their first job and one of every floor
  (`HasRoom`): a limit above the number of floors and a budget of as many times the dearest
  cost among what the pass wants and takes, which the defaults give for unit costs. Without
  that room a floor can wait for ever. The docstring at `src/src/research/frontier.py:728` has
  the floors rotate durably when a pass is smaller than their number; each lease does move the
  cursor on, but a lease of one kind visits the floors of the others and passes over them, so
  with a limit of one over three floors two kinds that take turns can pass over one
  floor every time. Nor does it speak of a floor whose scan of the oldest rows
  (`frontier.py:793-797`) is filled with rows dearer than its share (`ScanSuffices`).
* Of a landing no property says that it is on the chain: `observe_signature` takes a processed
  transaction for landed, and its fork may be dropped. `FilledIsConfirmed` is about fills. A
  confirmed transaction without an output delta is not a step of its own: it ends as a fill
  that was not found in time does (`FillTimeout`).

## Fairness

Fairness is assumed only of what the code or the host keeps doing; nothing is assumed of
sources, faults, crashes or answers of others, so the liveness properties speak of what
happens once those stop.

| module | weakly fair | why |
|---|---|---|
| `SourceIntake` | producers and outbox poll, reader, consumer, lease expiry, restart | tasks in endless loops, `publish_batch` retries, time passes, `deploy/systemd` restarts |
| `ResearchPass` | steps of a pass, elapsed time | the research loop |
| `SignerChannel` | the client's steps, time included | timeouts bound every wait |
| `TrainingRounds` | steps of each trainer owner | awaits with a timeout |

## What is proved

The theorems hold for every value of the constants that satisfies the named assumptions
(`JournalConstants`, `IntakeConstants`, `FrontierConstants`, `ResearchConstants`,
`BudgetConstants` and `Calendar` of `RpcBudget`, `SignerConstants` and `NobodyCalls`,
`RotationConstants`, `TrainingConstants`, `BookConstants`, and `ConstantsAssumption` of
`LandingRace` and of `PromotionLadder`): any number of rows, sources, events, jobs, calls,
workers, processes, tokens and orders, and any bounds. Every invariant that a passing run
checks is proved, and so is every action property and every refinement.

Each proof has the same shape: the properties alone are not inductive, so parts are added
until every step preserves the whole, and each part has a lemma with one step per action.
What was added, and why, is the content of the argument.

**SourceJournal.** `JournalInv` is inductive. The properties alone are not: `CountersExact`
speaks of transactions in progress, so the invariant says what an open transaction's copy
may differ in from the committed rows (`TxKeepsRows`, `AppendTx`, `LeaseTx`), which also
gives `OneLeasePerBatch`; `ReceiptsTruthful` needs that an issued receipt has a first
delivery (`TrueOf`); `BoundedOvertaking` needs that whoever was overtaken has the smaller
ticket (`TurnsOrdered`). The cardinalities in `Exact` move by one element at a time, which
is where the finite-set lemmas are used. `AckFenced` and `RowsPermanent` are action
properties that follow from the same invariant. `JournalImplementsLog` is the refinement.

**SourceIntake.** `IntakeInv` adds to the properties where each lease is (`Custody`), that
whatever carries an onion observation came from the outbox (`Provenance`), which steps of a
delivery are durable at each place of the consumer (`Staged`), and that a row nobody owns
has used up one lease per fault or crash (`LeaseBudget`, without which
`RedeliveryNeedsFault` is not preserved by a lease). `IntakeImplementsLog` maps prefetch
buffer, thread result and lease table to the abstract holders.

**FrontierJobs.** `FrontierInv` adds to the properties that no worker holds a token from the
future (`HeldIsPast`, without which a fresh lease might match an old holder) and that work
never enqueued was never leased (`FreshRows`). `AckIsFinal` and `LeaseEndsByOwner` follow
from a lemma on what a step may do to one job (`StepMoves`). `QueueImplementsLog` is the
refinement: the same abstract intake that the journal implements.

**ResearchPass.** `EndedWorkStaysWhole` needs `Traced`: what the commit of the job in hand has
made durable at each of its places, since the job may end long after its receipt was written.
`WakesAreNotLost` needs three parts beside a stronger form of the property (`Promised`: the
announcement is cached both in memory and in the file, or it is in hand where its loss would be
noted). `Kept`: a result in hand is in the cache from its save on, and a request is answered
from what is on disk. `Scanned`:
a drain has read every sleeper past the cursor of a name it serves, or a full page before it;
the lemmas on the least and last member of a page (`LeastJob`, `LastJob`, `PageFits`) and on
cursors (`ServedPassesNobody`, `CursorPassesNobody`) show that a cursor moved to the end of a
page passes over nobody, and one that was not served does not move. `Announced`: from the
announcement of a change to the end of its job the change is pending for all who sleep on it.
There is no hypothesis on failures or evictions; what they lose is in `forgotten`, which is
part of the property.

**WorkflowRotation.** `RotationInv` has one part per question. `KindsAlwaysRotate` rests on
`TurnKept`: between passes the number of passes that left a kind behind and the number of
turns it is still away from its own (`Turns`) together never exceed the number of kinds. The
pass keeps this because the chosen kind is the nearest one with work (`NextKindIsNext`, by the
least member of a set of naturals), because its lease does find a job (`FirstFinds`: a wanted
job is still due, `Wanted`, nothing was spent before it, and unless the turn is `buried` a row
the pass can afford is among those read, `PriorityScanReaches`), and because every other kind
comes nearer by the distance the turn moves (`TurnsAre`). A pass that ends between the lease
and the checkpoint does not move the turn, and one that ends later has moved it only past a
kind that was served. `PassesKeepEnvelope` rests on `Envelope`: what is in hand, leased before
or selected in the open transaction, is counted and paid once (`CostAdds`), so the limit and
the remainder given to the second lease are what is left of the pass. `FloorsAlwaysServed`
rests on `FloorsMet`: before its last floor the second lease holds no more rows than floors it
visited, so neither the limit nor, with room (`RoomLeft`), the budget has ended it, and a
visited floor with wanted work that its scan reaches (`TagScanReaches`) has a row in hand
(`WantedFits`); the order of the tags has
every floor (`EveryFloorOrdered`), and a pass with room does make its second lease
(`RoomForRest`). That there is room (`HasRoom`) and that the scan reaches beyond dearer rows
(`ScanSuffices`) are part of the property; that a scan of n rows reaches a row when fewer than
n others are in its way is `ScanReaches`.

**RpcBudget.** `BudgetTyped`, `BudgetHeld` (no day and no month exceeds its allocation),
`BudgetLedger` (the shared row is the sum of what was granted) and `BudgetSlots`, for any
number of processes. `IInv` adds to the properties that the row's day and month are those of
a time no later than its next slot (`RowTime`): a process reads its clock before it waits for
the lock, so without it a late transaction could put the row back into a period that was
already spent. `SendIsRow` ties the last slot given out to the row, which is what
`BudgetSlots` needs.

**LandingRace.** For any number of orders and routes, with forks and the bundle lane: a
reported fill is on the chain (`FillsAreConfirmed`), and a finished order whose race is still
pending was accepted by the bundle lane alone (`OnlyBundlesAreLeft`): that is the one return
of `_submit_signed` after a won race that skips `record_landing`, and nothing calls `forget`.
`RouteBooksBalance`: the counters of a route are tied to the sets of
orders that still wait for it (`BooksKept`), which move by one order at a time; that needs
that an order which has not started owes no answer and that what a race counted as accepted
was acknowledged (`AnswersRecorded`), or an answer could be counted twice.

**SignerChannel.** `Locking` and `Attempts` say where the one call inside the lock can be.
`NothingIsLeft` follows from `Own`: while a call reads, the held connection carries its
request or its answer and nothing else, and between requests it is empty (`Private`). That
is false after a cancellation, so `Own` is about behaviours without one, as the property is.
`HaltIsKept` adds that nothing on any connection belongs to a call that has not begun
(`Begun`), so what is in flight for a call begun after the halt was asked after it
(`Halting`): it is a refusal, or the stat of the halt file failed for that very call. `OneRetryOnly` counts: signatures made and requests that can still
be signed are together no more than the requests sent (`Counted`), over all connections a
call ever used. `RateIsHeld` ties the daemon's window to the ledger of all signatures
(`Covers`): what the window has forgotten is older than the window or of an earlier daemon.

**PositionBook.** `Book` types the state (`Shapes`) and says that every reference someone
keeps across an await leads to an object made for its token (`Referenced`), which is all that
is true of stale references. `EveryEntryIsBooked` needs that a pipeline which sells an
incumbent or buys holds no place yet (`NotYetBought`). `EveryEventReachesADecision` needs that
the queue holds each pending token once and nothing else (`QueueIsPending`).
`BookIsCovered` is inductive beside `Book`: every step that takes tokens out of the wallet
takes as many from an object of the book, or counts them as `missed`; a late sale larger than
the wallet fails on the chain.

**PromotionLadder.** `Ladder` says of memory and checkpoint alike that they fit the promotions
made so far (`Fit`): one rung, evidence of the current content only, and authority whose
promotions are in the ledger. It must hold of both files because a restart may return to
either. `LiveIsEarned` adds `Proven`: in both, a content whose latest trial is a pass and one
that stands above the challengers passed a trial once (`Tried`); promotions look at the latest
trial, which a restart or a later trial may change. `OutcomesCountOnce` adds `Counted`: a row
in a bucket, in the file or in a promotion is marked in the service's memory or torn, and it
is in both a shadow and a canary only if it is torn. A marked outcome is never moved again,
and a crash that loses the mark makes it torn.

**TrainingRounds.** `Shape` adds to the types that a process waiting for a trainer is at a
job it has not abandoned, without which the failure counters could pass their limit.
`OneTrainerAtATime` follows from `LockHeld`: the kernel's lock is with a process exactly as
long as it is inside `training_lock` or probing, through kills and cancellations.
`NativeIsNotSetBack` needs `Stale`: while a round exports a model that a trainer (one the
desk left behind) has overtaken, neither the disk nor an export still to end holds a newer
one, because nobody else is inside the lock to export it.

The theorems on type correctness, `ClockOrder`, `AckFenced`, `RowsPermanent`, `HeldIsCurrent`,
`IndexAfterAck`, `OneOwner`, `SleepIsNamed`, `AckIsFinal` and `OnlyBundlesLeft`
need no run beside them.

Only model-checked: the liveness properties (`AcceptedIsAcked`, `OutboxDrains`, `CallsEnd`,
`RequestsAnswered`, `RoundsEnd`), because the prover has no fairness.
`AnswerIsOwn` does not hold and is what the run marked violated refutes. The type invariants
are proved and not run on their own: each is the first conjunct of an inductive invariant.

## What is not modelled

The map covers a small part of the repository's lines on purpose. Of its 327 implementation
files most hold floating-point feature extraction and scoring (`strategies/`, `features/`),
statistics, dataset production, protocol and instruction decoding, HTTP adapters, reports
and dashboards: sequential code whose state is local and whose values a model checker cannot
enumerate, or pure functions of 64- and 128-bit amounts. A model of them would either be a
transliteration or leave out what matters. `PROJECT.json` lists them as components with
their reasons.

Within the modelled parts, payloads, canonical JSON, digests (taken as injective), HTML, log
texts and read-only reports are data. Decisions of models and strategies, the memory gate,
host admission and pacing are the environment's choice. The health accounting of sources,
conversion receipts, and the chain and protocol registries are left out.

`PROJECT.json` lists the hazards the properties are for. Others that were met and are not in
that list, because the code does not ensure what they threaten, a theorem covers them, or
their component is not modelled:

* `src/src/collectors/event_source.py:381`: The in-memory index must not run ahead of the durable acknowledgement: a replay would index twice. Proved for every instance as theorem IndexFollowsAck of SourceProofs; no run repeats it.
* `src/src/collectors/event_source.py:356`: publish_batch retries an append that can never succeed (an event the journal cannot encode) every second for ever and its producer never polls again. The model lets append succeed eventually; which events cannot be encoded is a question about payload data.
* `src/src/collectors/event_source.py:409`: A retry that fails twice leaves its entry in _journal_leases for the life of the process, keyed by id(event). The entry keeps the event alive, so the id cannot be reused; the leak is bounded by the number of double disk faults and no property of the model is at stake.
* `src/src/research/frontier.py:665`: Work enqueued while its coordinate sleeps is born HIBERNATED; it can be woken only by name, so a sequence that leaves the name empty would lose it silently. Proved for every instance as theorem SleepAlwaysNamed of ResearchProofs; no run repeats it.
* `src/src/runtime/training.py:254`: What the code compares growth and intervals with lives in the process, and the timer's process is always new: its first should_train asks only whether an episode exists. The model has the comparison as the code makes it; that the timer then trains without growth is what the code does, so there is no property to hold.
* `src/src/strategies/multihead_predictor.py:1378`: admissible counts booked positions, not entries whose orders are in flight. Two entries in flight can pass a limit of one; the code does not prevent it, so the limit is not stated as a property.
* `src/src/main.py:3330`: A staged exit ladder outlives the size it was built for over adds, partial exits and a venue that stops answering. The ladder is recorded on the attempt and never sent; staged exits are not modelled.
* `src/src/main.py:1563`: A sweep that raises skips the rest of its list; a quiet token has no other visitor. The model has the abandoned sweep (SellFilled empties todo); that a later sweep reaches every position needs a liveness run of its own, which the plan has.
* `src/src/strategies/champion_challenger.py:517`: A champion is demoted only on outcomes someone records for it, and reconcile_forward looks at the shadow and canary buckets alone. No caller in the source hands a champion an outcome, so that a losing champion leaves cannot hold; decay itself is modelled.
* `src/src/execution/landing_router.py:247`: A race is dropped from _pending only by record_landing; nothing calls forget. Theorem OnlyBundlesAreLeft: what stays behind is a race that only the bundle lane accepted and whose bundle was given up; the code does not prevent that.
* `src/src/chains/rpc_manager.py:159`: A refusal can reach another task, manager or process while a request waits for its allocation; the window read before the wait is stale when the socket opens.
* `src/src/chains/rpc_manager.py:306`: A health probe in flight while a request is refused resets the refusal window when it succeeds.
* `src/src/runtime/offload.py:123`: stop() runs between the end of pool.start(), the event and the entry of run_forever: a stop can be lost, or stop the wrong run of the loop.
* `src/src/runtime/process_offload.py:372`: Records left by one child are delivered after the next was started and counted for it.
* `src/ops/watchdog.py:842`: A restart that takes longer than its caller waits has happened all the same.
* `src/ops/watchdog.py:437`: Two healers with separate budgets act on one unit.
* `src/ops/autodeploy.py:161`: A supervisor killed between merge and restart or reset, or a service restarted by somebody else while unverified code is checked out.
* `src/src/collectors/onion_frontier.py:120`: Two instances over one database choose a host at the same time.
* `src/src/collectors/onion_frontier.py:138`: A crash between a page's digest and its record would lose its links for good: the next visit finds nothing new.
* `src/src/collectors/event_source.py:520`: At the size limit a busy source must give way to a rare one, and every loss must be counted.
* `src/src/research/trade_evidence.py:178`: A row is appended with one buffered write and no fsync: an OSError or a kill inside it leaves part of a row.
* `src/src/research/trade_evidence.py:39`: Rows lost from the end of the file leave a shorter chain that verifies.
* `src/ops/canonical_recovery_step.py:188`: A crash after the raw window is published and before its receipt, or after the history is published and before the caller learns its pin.
* `src/src/chains/yellowstone_grpc.py:604`: A poll waiting for a transaction and a socket notice of the same signature both fetch it, and the stream delivers it a third time.
* `src/src/runtime/ingestion.py:139`: The race has answered before the launch is archived; a failed append leaves a key that refuses every later copy.
* `src/src/chains/evm_observation.py:383`: The sink has the observation before _pending_ref notes it; what ends the pass in between leaves an observation no later pass knows of.
* `src/src/chains/evm_observation.py:405`: Two processes poll one adapter; the checkpoint, the canonical rows and the parent check must agree whichever pass commits.
* `src/ops/backup_set.py:81`: Every call takes the first eligible store; one that the stager always refuses stops all later stores.
* `src/ops/backup_set.py:94`: Copy and checkpoint are two publications and the store grows in between; a call that fails between them leaves a copy without a receipt.

## Plan

1. Endpoint failover and offload pools, then the chain feeds and the evidence ledger, each as
   a module of its own with its crash and race cases.
2. A liveness run for the safety sweep of `PositionBook`.
3. The host scripts: healing and deploys, backup sets and fragment recovery.
