---------------------------- MODULE ResearchPass ----------------------------
(***************************************************************************)
(* The conversion pass of the unknown-opportunity engine                   *)
(* (src/research/unknown_engine.py) with the data service it dispatches to *)
(* (src/research/data_requests.py) and the evidence wakes: work that lacks *)
(* an observable goes to sleep on the name of that observable, and the     *)
(* conversion that indexes it announces the name and wakes the sleepers,   *)
(* one page of them per drain.                                             *)
(*                                                                         *)
(* One task runs the passes and everything from a dispatch to the end of   *)
(* its commit is synchronous, so the passes do not interleave with each    *)
(* other; they do interleave with failures.  Each durable write is a step: *)
(* the catalogue (series and result cache, one file), the pending wakes    *)
(* (another file) and every row of the research queue.  After any of them  *)
(* the write can fail or the process can die.  A lease never lapses inside *)
(* its own pass: the pass acknowledges with the clock it leased with.      *)
(*                                                                         *)
(* Two kinds of work are modelled: OBSERVABLE_SERIES, which carries points *)
(* of observables, and DATA_REQUEST, which needs an observable with        *)
(* min_observations = 1.  Due work fits one pass: limit 8 and a budget of  *)
(* 8 unit-cost jobs.  The catalogue keeps its newest points, and its cache *)
(* of results is shared with every other kind of work, so that any result  *)
(* in it can be the one a new result pushes out.                           *)
(***************************************************************************)
EXTENDS Naturals, FiniteSets, FiniteSetsExt

CONSTANTS
    NumVar,          \* observables, numbered in the order of the changes' names
    NumPoint,        \* points, numbered in the order of observed_at
    Names,           \* the observable of a point
    MaxRefs,         \* ResearchDataService.max_catalogue_refs
    Obs,             \* OBSERVABLE_SERIES jobs
    Carries,         \* points a series job carries
    NumReq,          \* DATA_REQUEST jobs, numbered in the order of their job_id
    Needs,           \* observable a request needs
    Dormant,         \* requests whose coordinate is HIBERNATED_LOW_VOI once they sleep
    Page,            \* jobs woken per change and drain (32)
    DrainMax,        \* pending changes served per drain (8)
    MaxFaults,       \* bound: failures and deaths
    Nothing

Var == 1..NumVar
Point == 1..NumPoint
Req == 1..NumReq
Work == Obs \cup Req

ASSUME ResearchConstants ==
    /\ NumVar \in Nat /\ NumPoint \in Nat /\ NumReq \in Nat /\ Obs \cap Req = {}
    /\ Names \in [Point -> Var] /\ MaxRefs \in Nat
    /\ Carries \in [Obs -> SUBSET Point] /\ Needs \in [Req -> Var] /\ Dormant \subseteq Req
    /\ Page \in Nat \ {0} /\ DrainMax \in Nat \ {0}
    /\ MaxFaults \in Nat /\ Nothing \notin Work \cup Var

VARIABLES
    queue,     \* research queue: state of each row
    sealed,    \* conversion receipts retained: <<job, disposition>>
    kids,      \* jobs whose downstream work is persisted
    wakes,     \* research_evidence_wakes: change -> cursor, or NotPending
    disk,      \* research_data_catalogue_v1: series and cached results
    mem,       \* the service's copy of it
    at,        \* where the pass is
    batch,     \* leased jobs it still has to dispatch
    cur,       \* job in hand
    changes,   \* detail["changes"] of its result
    scan,      \* pages the drain has read
    forgotten, \* changes that may have lost their announcement since the last one
    faults

pvars ==
    <<queue, sealed, kids, wakes, disk, mem, at, batch, cur, changes, scan, forgotten, faults>>

NotPending == NumReq + 1
NoResult == Var \cup {Nothing}  \* not a set of changes
Catalogue == [series: SUBSET Point, cache: [Obs -> (SUBSET Var) \cup {NoResult}]]

\* Every variable has its type.  A cursor is the job_id the next page starts after.
TypeOK ==
    /\ queue \in [Work -> {"NONE", "READY", "RETRY", "LEASED", "HIBERNATED", "ACKED"}]
    /\ sealed \subseteq Work \X {"BLOCKED", "DONE"} /\ kids \subseteq Req
    /\ wakes \in [Var -> 0..NotPending]
    /\ disk \in Catalogue /\ mem \in Catalogue
    /\ at \in {"idle", "save1", "save2", "receipt", "children", "notify", "drain", "wake",
               "lease", "finish", "next"}
    /\ batch \subseteq Work /\ cur \in Work \cup {Nothing}
    /\ changes \subseteq Var /\ scan \in [Var -> SUBSET Req]
    /\ forgotten \subseteq Var /\ faults \in 0..MaxFaults

NoScan == [x \in Var |-> {}]

Init ==
    /\ queue = [j \in Work |-> "NONE"] /\ sealed = {} /\ kids = {}
    /\ wakes = [x \in Var |-> NotPending]
    /\ disk = [series |-> {}, cache |-> [o \in Obs |-> NoResult]] /\ mem = disk
    /\ at = "idle" /\ batch = {} /\ cur = Nothing /\ changes = {} /\ scan = NoScan
    /\ forgotten = {} /\ faults = 0

-----------------------------------------------------------------------------
(***************************************************************************)
(* The queue around the pass.                                              *)
(***************************************************************************)

\* enqueue_work: idempotent by content, so each job arrives once.  Collectors run
\* between the jobs of a pass too.
EnqueueWork(j) ==
    /\ at \in {"idle", "next"} /\ queue[j] = "NONE"
    /\ queue' = [queue EXCEPT ![j] = "READY"]
    /\ UNCHANGED <<sealed, kids, wakes, disk, mem, at, batch, cur, changes, scan, forgotten,
                   faults>>

\* The retry delay, or the lease of an abandoned job, is over: lease_jobs takes
\* the row as due again.
Elapse(j) ==
    /\ queue[j] \in {"RETRY", "LEASED"} /\ j \notin batch \cup {cur}
    /\ queue' = [queue EXCEPT ![j] = "READY"]
    /\ UNCHANGED <<sealed, kids, wakes, disk, mem, at, batch, cur, changes, scan, forgotten,
                   faults>>

-----------------------------------------------------------------------------
(***************************************************************************)
(* Evidence wakes.                                                         *)
(***************************************************************************)
Sleepers(x) == {r \in Req : queue[r] = "HIBERNATED" /\ Needs[r] = x}

\* The first n of a set of job_ids.
First(S, n) == {r \in S : Cardinality({q \in S : q < r}) < n}

\* The changes a drain serves: checkpoints come back sorted by name, and only the
\* first few pending ones are taken.
Served == First({x \in Var : wakes[x] # NotPending}, DrainMax)

\* pending_work(limit=33): one more than a page, to know whether the scan ends.
ScanOf(x) == IF x \notin Served THEN {}
             ELSE First({r \in Sleepers(x) : r > wakes[x]}, Page + 1)

\* _drain_evidence_wakes reads the pending changes and their pages.
DrainRead ==
    /\ at = "drain"
    /\ scan' = [x \in Var |-> ScanOf(x)]
    /\ at' = "wake"
    /\ UNCHANGED <<queue, sealed, kids, wakes, disk, mem, batch, cur, changes, forgotten, faults>>

\* wake_job, one transaction each; jobs of a sleeping coordinate are passed over.
ToWake == (UNION {First(scan[x], Page) : x \in Var}) \ Dormant
DrainWake(r) ==
    /\ at = "wake" /\ r \in ToWake /\ queue[r] = "HIBERNATED"
    /\ queue' = [queue EXCEPT ![r] = "READY"]
    /\ UNCHANGED <<sealed, kids, wakes, disk, mem, at, batch, cur, changes, scan, forgotten,
                   faults>>

\* Mutant: the cursor is the last job read, not the last one handled.
CursorSkips(x) ==
    IF x \notin Served THEN wakes[x]
    ELSE IF Cardinality(scan[x]) <= Page THEN NotPending ELSE Max(scan[x])

\* Mutant: one page is enough.
CursorOnePage(x) == IF x \notin Served THEN wakes[x] ELSE NotPending

\* Of the changes served, a full scan leaves the change pending after the last job
\* handled; a short one removes it.
Cursor(x) ==
    IF x \notin Served THEN wakes[x]
    ELSE IF Cardinality(scan[x]) <= Page THEN NotPending ELSE Max(First(scan[x], Page))

DrainSave ==
    /\ at = "wake" /\ \A r \in ToWake : queue[r] # "HIBERNATED"
    /\ wakes' = [x \in Var |-> Cursor(x)]
    /\ scan' = NoScan
    /\ at' = IF cur = Nothing THEN "lease" ELSE "finish"
    /\ UNCHANGED <<queue, sealed, kids, disk, mem, batch, cur, changes, forgotten, faults>>

\* notify_evidence makes the changes pending from the first job on, then drains.
Notify ==
    /\ at = "notify"
    /\ wakes' = [x \in Var |-> IF x \in changes THEN 0 ELSE wakes[x]]
    /\ forgotten' = forgotten \ changes
    /\ at' = IF changes = {} THEN "finish" ELSE "drain"
    /\ UNCHANGED <<queue, sealed, kids, disk, mem, batch, cur, changes, scan, faults>>

-----------------------------------------------------------------------------
(***************************************************************************)
(* The pass.                                                               *)
(***************************************************************************)

\* _workflow_jobs drains the pending wakes, then leases what is due.
StartPass ==
    /\ at = "idle"
    /\ at' = "drain"
    /\ UNCHANGED <<queue, sealed, kids, wakes, disk, mem, batch, cur, changes, scan, forgotten,
                   faults>>

Lease ==
    /\ at = "lease"
    /\ batch' = {j \in Work : queue[j] = "READY"}
    /\ queue' = [j \in Work |-> IF j \in batch' THEN "LEASED" ELSE queue[j]]
    /\ at' = "next"
    /\ UNCHANGED <<sealed, kids, wakes, disk, mem, cur, changes, scan, forgotten, faults>>

NamesOf(points) == {Names[p] : p \in points}

\* observe drops the oldest references above max_catalogue_refs.
Retained(points) ==
    {p \in points : Cardinality({q \in points : q > p}) < MaxRefs}

\* ResearchDataService.consume of a series: a result in the cache is returned as it
\* is; otherwise observe indexes the points the catalogue does not have yet, and
\* saves only when there are some.
DispatchSeries(o) ==
    /\ at = "next" /\ o \in batch \cap Obs
    /\ batch' = batch \ {o} /\ cur' = o
    /\ IF mem.cache[o] # NoResult
       THEN /\ changes' = mem.cache[o] /\ at' = "receipt"
            /\ UNCHANGED mem
       ELSE /\ changes' = NamesOf(Carries[o] \ mem.series)
            /\ mem' = [mem EXCEPT !.series = Retained(@ \cup Carries[o])]
            /\ at' = IF changes' = {} THEN "save2" ELSE "save1"
    /\ UNCHANGED <<queue, sealed, kids, wakes, disk, scan, forgotten, faults>>

\* consume of a request: _data reads the series; the answer is Blocked(r) or not.
DispatchRequest(r) ==
    /\ at = "next" /\ r \in batch \cap Req
    /\ batch' = batch \ {r} /\ cur' = r
    /\ changes' = {} /\ at' = "save2"
    /\ UNCHANGED <<queue, sealed, kids, wakes, disk, mem, scan, forgotten, faults>>

\* observe saves the series it indexed.
SaveSeries ==
    /\ at = "save1"
    /\ disk' = mem /\ at' = "save2"
    /\ UNCHANGED <<queue, sealed, kids, wakes, mem, batch, cur, changes, scan, forgotten, faults>>

Blocked(j) == j \in Req /\ Needs[j] \notin NamesOf(mem.series)
Disposition(j) == IF Blocked(j) THEN "BLOCKED" ELSE "DONE"

\* consume caches the answer (a blocked one is not cached); above 512 results one
\* is pushed out: the oldest, or after a restart the first by its key.
Pushable == {Nothing} \cup {o \in Obs \ {cur} : mem.cache[o] # NoResult}
Caching(gone) ==
    [mem EXCEPT !.cache = [o \in Obs |-> IF o = cur THEN changes
                                        ELSE IF o = gone THEN NoResult ELSE mem.cache[o]]]
Stored(gone) == IF Blocked(cur) THEN mem ELSE Caching(gone)

\* What a result that is pushed out had still to announce.
Unannounced(gone) ==
    IF gone \in Obs /\ queue[gone] # "ACKED" THEN mem.cache[gone] ELSE {}

\* consume saves again, with the answer in the cache.
SaveResult ==
    /\ at = "save2"
    /\ \E gone \in Pushable :
          /\ mem' = Stored(gone) /\ disk' = mem'
          /\ forgotten' = IF Blocked(cur) THEN forgotten ELSE forgotten \cup Unannounced(gone)
    /\ at' = "receipt"
    /\ UNCHANGED <<queue, sealed, kids, wakes, batch, cur, changes, scan, faults>>

\* _commit_work: the receipt of the result is recorded and retained once ...
RetainReceipt ==
    /\ at = "receipt"
    /\ sealed' = sealed \cup {<<cur, Disposition(cur)>>}
    /\ at' = "children"
    /\ UNCHANGED <<queue, kids, wakes, disk, mem, batch, cur, changes, scan, forgotten, faults>>

\* Mutant: the children are left for later.
NoChildren ==
    /\ at = "children"
    /\ at' = "notify"
    /\ UNCHANGED <<queue, sealed, kids, wakes, disk, mem, batch, cur, changes, scan, forgotten,
                   faults>>

\* ... every child is enqueued (a blocked request asks for a source) ...
EnqueueChildren ==
    /\ at = "children"
    /\ kids' = IF Blocked(cur) THEN kids \cup {cur} ELSE kids
    /\ at' = "notify"
    /\ UNCHANGED <<queue, sealed, wakes, disk, mem, batch, cur, changes, scan, forgotten, faults>>

\* ... the changes are announced (Notify), and only then the job ends: blocked work
\* sleeps on the name of its observable, anything else is acknowledged.
Finish ==
    /\ at = "finish"
    /\ queue' = [queue EXCEPT ![cur] = IF Blocked(cur) THEN "HIBERNATED" ELSE "ACKED"]
    /\ cur' = Nothing /\ changes' = {} /\ at' = "next"
    /\ UNCHANGED <<sealed, kids, wakes, disk, mem, batch, scan, forgotten, faults>>

EndPass ==
    /\ at = "next" /\ batch = {}
    /\ at' = "idle"
    /\ UNCHANGED <<queue, sealed, kids, wakes, disk, mem, batch, cur, changes, scan, forgotten,
                   faults>>

-----------------------------------------------------------------------------
(***************************************************************************)
(* Failures.                                                               *)
(***************************************************************************)
Faulty ==
    /\ at \notin {"idle", "next"} /\ faults < MaxFaults
    /\ faults' = faults + 1

\* A result cached, and one pushed out, before the second save failed stay so in
\* memory; what was in hand during a save of the catalogue may go unannounced.
CatalogueFails ==
    \E gone \in IF at = "save2" THEN Pushable ELSE {Nothing} :
        /\ mem' = IF at = "save2" THEN Stored(gone) ELSE mem
        /\ forgotten' = forgotten \cup (IF at \in {"save1", "save2"} THEN changes ELSE {})
                                  \cup (IF mem' # mem THEN Unannounced(gone) ELSE {})

\* The next write of the job in hand raises: _retry_work reschedules the job and
\* the pass goes on.
StepFails ==
    /\ Faulty /\ cur # Nothing
    /\ queue' = [queue EXCEPT ![cur] = "RETRY"]
    /\ CatalogueFails
    /\ cur' = Nothing /\ changes' = {} /\ scan' = NoScan /\ at' = "next"
    /\ UNCHANGED <<sealed, kids, wakes, disk, batch>>

\* So does retry(), or the drain before the lease: the exception leaves the pass,
\* and what it leased waits for its leases to end.
PassFails ==
    /\ Faulty
    /\ CatalogueFails
    /\ cur' = Nothing /\ changes' = {} /\ scan' = NoScan /\ at' = "idle" /\ batch' = {}
    /\ UNCHANGED <<queue, sealed, kids, wakes, disk>>

\* The process dies and is started again.
Crash ==
    /\ Faulty
    /\ mem' = disk
    /\ forgotten' = IF at \in {"save1", "save2"} THEN forgotten \cup changes ELSE forgotten
    /\ cur' = Nothing /\ changes' = {} /\ scan' = NoScan /\ at' = "idle" /\ batch' = {}
    /\ UNCHANGED <<queue, sealed, kids, wakes, disk>>

PassStep ==
    \/ StartPass \/ DrainRead \/ (\E r \in Req : DrainWake(r)) \/ DrainSave \/ Lease
    \/ (\E o \in Obs : DispatchSeries(o)) \/ (\E r \in Req : DispatchRequest(r))
    \/ SaveSeries \/ SaveResult \/ RetainReceipt \/ EnqueueChildren \/ Notify \/ Finish \/ EndPass

Next ==
    \/ PassStep
    \/ \E j \in Work : EnqueueWork(j) \/ Elapse(j)
    \/ StepFails \/ PassFails \/ Crash

\* The miner's loop runs a pass every ten seconds whatever the last one raised, and
\* time passes for every delayed or abandoned job.
Fairness == WF_pvars(PassStep) /\ \A j \in Work : WF_pvars(Elapse(j))

Spec == Init /\ [][Next]_pvars /\ Fairness

-----------------------------------------------------------------------------
(***************************************************************************)
(* Properties.                                                             *)
(***************************************************************************)

\* A wake for r is still to come: its change is pending and the scan has not passed
\* r, or the conversion that announces the change has not been acknowledged.
Announces(o, x) ==
    /\ queue[o] \notin {"NONE", "ACKED"}
    /\ \/ mem.cache[o] # NoResult /\ x \in mem.cache[o]
       \/ cur = o /\ x \in changes
WakeComing(r) ==
    \/ wakes[Needs[r]] < r
    \/ \E o \in Obs : Announces(o, Needs[r])

Indexed(x) == x \in NamesOf(disk.series)

\* Work asleep on an observable the catalogue has is always about to be woken, whatever
\* failed on the way ("Blocked answers must be reevaluated after their named input
\* changes", src/src/research/data_requests.py:181).  Excepted is an observable whose last
\* announcement existed only in a catalogue write that failed, or in a cached result that
\* 512 others pushed out before the job that announces it was retried.
NoLostWake ==
    \A r \in Req \ Dormant :
        queue[r] = "HIBERNATED" /\ Indexed(Needs[r]) /\ Needs[r] \notin forgotten
            => WakeComing(r)

\* Work that ended, by acknowledgement or by going to sleep, left its receipt and its
\* children behind, however often it was retried ("Persist every downstream child before
\* acknowledging the parent", src/src/research/unknown_engine.py:539).
EndedWorkIsWhole ==
    \A j \in Work :
        /\ queue[j] = "ACKED" => <<j, "DONE">> \in sealed
        /\ queue[j] = "HIBERNATED" => <<j, "BLOCKED">> \in sealed /\ j \in kids

\* A request for an observable the catalogue has is answered in the end: it is woken,
\* page after page and however many names are pending before its own, and converted,
\* unless the catalogue drops the observable again or its announcement was lost.
RequestsAnswered ==
    \A r \in Req \ Dormant :
        queue[r] = "HIBERNATED" /\ Indexed(Needs[r])
            ~> queue[r] = "ACKED" \/ ~Indexed(Needs[r]) \/ Needs[r] \in forgotten
=============================================================================
