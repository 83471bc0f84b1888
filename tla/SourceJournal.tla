--------------------------- MODULE SourceJournal ---------------------------
(***************************************************************************)
(* The durable public-source intake of src/collectors/source_journal.py:   *)
(* one SQLite file holding every accepted observation until the consumer   *)
(* acknowledges it with a canonical research job.                          *)
(*                                                                         *)
(* A database state is a record d:                                         *)
(*   row[i]     the intake row of identity i (see Row);                    *)
(*   ticket[s], pending[s]   the source_service row of source s; a source  *)
(*              without a row behaves exactly like one with ticket 0 and   *)
(*              pending 0, which is how it is represented here;            *)
(*   accepted, acked   the single intake_counts row;                       *)
(*   passed[s][u]   history only: how often u was leased at a moment when  *)
(*              s was due too, since s was last leased.                    *)
(* `db' is what is committed, `tx' the open transaction with its own copy, *)
(* so that rollback and a crash inside a batch lose exactly the copy.      *)
(* Every operation receives its clock as an argument, and the model lets   *)
(* a caller pass any time whatever: callers read the wall clock before     *)
(* they queue for the lock, and that clock may step backwards.             *)
(* SHA-256 is taken to be injective: a body stands for its own digest.     *)
(***************************************************************************)
EXTENDS Integers, FiniteSets, Sequences

CONSTANTS
    Id,        \* row identities (SHA-256 digests)
    Body,      \* encoded events
    Source,    \* source ids, as numbers so that ORDER BY source is <
    Job,       \* canonical research jobs
    IdOf,      \* identity(): equal for re-observations of one onion snapshot
    SourceOf,  \* the source id is part of what identity() digests
    Time,      \* clock readings
    LeaseSecs, \* lease_seconds
    RetryDelay,\* the 5 seconds of retry
    Limit,     \* lease_many's largest batch
    MaxBatch,  \* bound: events per append
    MaxGen,    \* bound: leases of one row
    MaxRot,    \* bound: bodies damaged on disk
    Garbled,   \* a body that no event encodes to
    Null       \* SQL NULL in the body and canonical_job columns

ASSUME JournalConstants ==
    /\ IsFiniteSet(Id)
    /\ Source \subseteq Nat
    /\ Time \subseteq Nat
    /\ IdOf \in [Body -> Id]
    /\ SourceOf \in [Id -> Source]
    /\ LeaseSecs \in Nat \ {0} /\ RetryDelay \in Nat \ {0}
    /\ Limit \in Nat \ {0}
    /\ MaxBatch \in Nat /\ MaxGen \in Nat /\ MaxRot \in Nat
    /\ Garbled \notin Body /\ Null \notin Body /\ Garbled # Null
    /\ Null \notin Job

Never == -1    \* SQL NULL in the first_delivery and acknowledged columns

Row == [body : Body \cup {Garbled, Null},  \* NULL once acknowledged
        hash : Body \cup {Null},           \* body_sha256
        at   : Int,                        \* accepted
        first: Int,                        \* first_delivery
        due  : Int,
        gen  : Nat,                        \* generation
        rid  : Nat,                        \* rowid
        job  : Job \cup {Null},            \* canonical_job
        done : Int]                        \* acknowledged

NoRow == [body |-> Null, hash |-> Null, at |-> Never, first |-> Never,
          due |-> Never, gen |-> 0, rid |-> 0, job |-> Null, done |-> Never]

Database == [row: [Id -> Row], ticket: [Source -> Nat],
             pending: [Source -> Int], accepted: Nat, acked: Nat,
             passed: [Source -> [Source -> Nat]]]

EmptyDatabase == [row |-> [i \in Id |-> NoRow],
                  ticket |-> [s \in Source |-> 0],
                  pending |-> [s \in Source |-> 0],
                  accepted |-> 0, acked |-> 0,
                  passed |-> [s \in Source |-> [u \in Source |-> 0]]]

Present(r) == r.hash # Null
Live(r)    == r.body # Null             \* body IS NOT NULL

(***************************************************************************)
(* append: INSERT OR IGNORE, and the two counters only when a row was      *)
(* really inserted.  Rows are never deleted, so SQLite's next rowid is the *)
(* number of rows plus one.                                                *)
(***************************************************************************)
NewRow(d, b, t) == [NoRow EXCEPT !.body = b, !.hash = b, !.at = t, !.due = t,
                                 !.rid = d.accepted + 1]

\* Mutant: the counters are bumped for an ignored row.
InsertCountsIgnored(d, b, t) ==
    LET i == IdOf[b]
        s == SourceOf[i]
    IN  [d EXCEPT !.row[i] = IF Present(@) THEN @ ELSE NewRow(d, b, t),
                  !.pending[s] = @ + 1,
                  !.accepted = @ + 1]

Insert(d, b, t) ==
    LET i == IdOf[b]
        s == SourceOf[i]
    IN  IF Present(d.row[i])
        THEN d
        ELSE [d EXCEPT !.row[i] = NewRow(d, b, t),
                       !.pending[s] = @ + 1,
                       !.accepted = @ + 1]

(***************************************************************************)
(* _lease_one: the due source with the least (ticket, source), and of it   *)
(* the due row with the least (due, accepted, rowid).                      *)
(***************************************************************************)
Ready(d, i, t) == Live(d.row[i]) /\ d.row[i].due <= t

DueSource(d, s, t) == /\ d.pending[s] > 0
                      /\ \E i \in Id : SourceOf[i] = s /\ Ready(d, i, t)

SourceFirst(d, s, u) == \/ d.ticket[s] < d.ticket[u]
                        \/ d.ticket[s] = d.ticket[u] /\ s <= u

RowFirst(p, q) == \/ p.due < q.due
                  \/ p.due = q.due /\ p.at < q.at
                  \/ p.due = q.due /\ p.at = q.at /\ p.rid <= q.rid

SourceTurn(d, s, t) ==
    /\ DueSource(d, s, t)
    /\ \A u \in Source : DueSource(d, u, t) => SourceFirst(d, s, u)

RowTurn(d, i, s, t) ==
    /\ SourceOf[i] = s /\ Ready(d, i, t)
    /\ \A j \in Id : SourceOf[j] = s /\ Ready(d, j, t)
                        => RowFirst(d.row[i], d.row[j])

Turn(d, i, t) == SourceTurn(d, SourceOf[i], t) /\ RowTurn(d, i, SourceOf[i], t)

Intact(i, r) == r.body = r.hash /\ IdOf[r.hash] = i

TopTicket(d, m) == /\ \A u \in Source : d.ticket[u] <= m
                   /\ \E u \in Source : d.ticket[u] = m

\* Mutants of LeasedRow: every lease restarts the first-delivery clock; the
\* deadline does not advance beyond the clock.
LeasedRowResetsFirst(r, t) == [r EXCEPT !.first = t, !.gen = r.gen + 1, !.due = t + LeaseSecs]

LeasedRowStaysDue(r, t) == [r EXCEPT !.first = IF r.first = Never THEN t ELSE r.first,
                                     !.gen = r.gen + 1,
                                     !.due = t]

LeasedRow(r, t) == [r EXCEPT !.first = IF r.first = Never THEN t ELSE r.first,
                             !.gen = r.gen + 1,
                             !.due = t + LeaseSecs]

\* History: every other source that was due when s got the turn was passed.
Overtake(d, s, t) ==
    [v \in Source |-> [u \in Source |->
        IF v = s THEN 0
        ELSE IF u = s /\ DueSource(d, v, t) THEN d.passed[v][u] + 1
        ELSE d.passed[v][u]]]

\* Mutant: the ticket is not moved to the end of the queue.
LeaseRowKeepsTicket(d, i, t, m) ==
    [d EXCEPT !.row[i] = LeasedRow(d.row[i], t),
              !.passed = Overtake(d, SourceOf[i], t)]

LeaseRow(d, i, t, m) ==
    LET s == SourceOf[i]
    IN  [d EXCEPT !.row[i] = LeasedRow(d.row[i], t),
                  !.ticket[s] = m + 1,
                  !.passed = Overtake(d, s, t)]

Receipt == [id: Id, hash: Body \cup {Null}, at: Int, first: Int, gen: Nat]

\* The receipt of the row that a lease has just produced.
ReceiptOf(i, r) == [id |-> i, hash |-> r.hash, at |-> r.at,
                    first |-> r.first, gen |-> r.gen]

(***************************************************************************)
(* _match, acknowledge and retry.                                          *)
(***************************************************************************)
\* Mutant: the generation is not compared.
MatchAnyGeneration(d, b, r) ==
    /\ IdOf[b] = r.id /\ b = r.hash
    /\ Live(d.row[r.id])
    /\ d.row[r.id].body = r.hash
    /\ d.row[r.id].at = r.at
    /\ d.row[r.id].first = r.first

Match(d, b, r) ==
    /\ IdOf[b] = r.id /\ b = r.hash
    /\ Live(d.row[r.id])
    /\ d.row[r.id].gen = r.gen
    /\ d.row[r.id].body = r.hash
    /\ d.row[r.id].at = r.at
    /\ d.row[r.id].first = r.first

AckedRow(r, j, t) == [r EXCEPT !.body = Null, !.job = j, !.done = t]

AckRow(d, i, j, t) ==
    LET s == SourceOf[i]
    IN  [d EXCEPT !.row[i] = AckedRow(d.row[i], j, t),
                  !.pending[s] = @ - 1,
                  !.acked = @ + 1]

DelayedRow(r, t) == [r EXCEPT !.due = t + RetryDelay]

RetryRow(d, i, t) == [d EXCEPT !.row[i] = DelayedRow(d.row[i], t)]

-----------------------------------------------------------------------------
VARIABLES
    db,      \* the committed database
    tx,      \* the open write transaction, or Idle
    issued,  \* receipts that lease_many has returned to a caller
    rot,     \* number of bodies damaged on disk so far
    open     \* the connection is open (close() has not run)

jvars == <<db, tx, issued, rot, open>>

Idle == [op |-> "idle", d |-> EmptyDatabase, at |-> 0, todo |-> <<>>,
         left |-> 0, out |-> {}]

Transaction == [op: {"idle", "append", "lease"}, d: Database, at: Time \cup {0},
                todo: Seq(Body), left: Nat, out: SUBSET Receipt]

InitJournal == /\ db = EmptyDatabase
               /\ tx = Idle
               /\ issued = {}
               /\ rot = 0
               /\ open = TRUE

(***************************************************************************)
(* append(events, now).  The batch is encoded before the transaction, so   *)
(* an event that cannot be encoded leaves no trace and is not modelled.    *)
(***************************************************************************)
BeginAppend(batch, t) ==
    /\ open /\ tx.op = "idle"
    /\ Len(batch) <= MaxBatch
    /\ tx' = [Idle EXCEPT !.op = "append", !.d = db, !.at = t, !.todo = batch]
    /\ UNCHANGED <<db, issued, rot, open>>

InsertNext ==
    /\ tx.op = "append" /\ tx.todo # <<>>
    /\ tx' = [tx EXCEPT !.d = Insert(tx.d, Head(tx.todo), tx.at),
                        !.todo = Tail(tx.todo)]
    /\ UNCHANGED <<db, issued, rot, open>>

CommitAppend ==
    /\ tx.op = "append" /\ tx.todo = <<>>
    /\ db' = tx.d
    /\ tx' = Idle
    /\ UNCHANGED <<issued, rot, open>>

(***************************************************************************)
(* lease_many(now, limit): _lease_one until the limit or until nothing is  *)
(* due.  A damaged row at the head raises, which leaves RollBack as the    *)
(* only continuation.                                                      *)
(***************************************************************************)
BeginLease(t, limit) ==
    /\ open /\ tx.op = "idle"
    /\ limit \in 1..Limit
    /\ tx' = [Idle EXCEPT !.op = "lease", !.d = db, !.at = t, !.left = limit]
    /\ UNCHANGED <<db, issued, rot, open>>

LeaseOne(i, m) ==
    /\ tx.op = "lease" /\ tx.left > 0
    /\ Turn(tx.d, i, tx.at) /\ TopTicket(tx.d, m)
    /\ Intact(i, tx.d.row[i])
    /\ tx.d.row[i].gen < MaxGen
    /\ LET leased == LeaseRow(tx.d, i, tx.at, m)
       IN  tx' = [tx EXCEPT !.d = leased, !.left = @ - 1,
                            !.out = @ \cup {ReceiptOf(i, leased.row[i])}]
    /\ UNCHANGED <<db, issued, rot, open>>

LeaseEnds == tx.op = "lease" /\ (tx.left = 0 \/ \A i \in Id : ~Turn(tx.d, i, tx.at))

CommitLease ==
    /\ LeaseEnds
    /\ db' = tx.d
    /\ issued' = issued \cup tx.out
    /\ tx' = Idle
    /\ UNCHANGED <<rot, open>>

\* The commit is durable but the process dies before the caller has the rows.
CommitLeaseLost ==
    /\ LeaseEnds
    /\ db' = tx.d
    /\ tx' = Idle
    /\ UNCHANGED <<issued, rot, open>>

\* Any exception inside `with self.db', or a crash: the copy is discarded.
RollBack ==
    /\ tx.op # "idle"
    /\ tx' = Idle
    /\ UNCHANGED <<db, issued, rot, open>>

(***************************************************************************)
(* acknowledge and retry: one row each, so the transaction is one step; a  *)
(* refused or failed call changes nothing.                                 *)
(***************************************************************************)
Acknowledge(b, r, j, t) ==
    /\ open /\ tx.op = "idle"
    /\ t >= r.first
    /\ j \in Job
    /\ Match(db, b, r)
    /\ db' = AckRow(db, r.id, j, t)
    /\ UNCHANGED <<tx, issued, rot, open>>

Retry(b, r, t) ==
    /\ open /\ tx.op = "idle"
    /\ Match(db, b, r)
    /\ db' = RetryRow(db, r.id, t)
    /\ UNCHANGED <<tx, issued, rot, open>>

\* External: a stored body changes on disk.
Rot(i, b) ==
    /\ rot < MaxRot /\ tx.op = "idle"
    /\ Live(db.row[i]) /\ b # db.row[i].body
    /\ db' = [db EXCEPT !.row[i] = [db.row[i] EXCEPT !.body = b]]
    /\ rot' = rot + 1
    /\ UNCHANGED <<tx, issued, open>>

\* close() takes the lock, so it finds no open transaction.
Close ==
    /\ open /\ tx.op = "idle"
    /\ open' = FALSE
    /\ UNCHANGED <<db, tx, issued, rot>>

\* The next process opens the same file; CREATE and INSERT OR IGNORE keep it.
Reopen ==
    /\ ~open
    /\ open' = TRUE
    /\ UNCHANGED <<db, tx, issued, rot>>

NextJournal ==
    \/ \E n \in 0..MaxBatch : \E batch \in [1..n -> Body], t \in Time : BeginAppend(batch, t)
    \/ InsertNext
    \/ CommitAppend
    \/ \E t \in Time, limit \in 1..Limit : BeginLease(t, limit)
    \/ \E i \in Id, u \in Source : LeaseOne(i, tx.d.ticket[u])
    \/ CommitLease
    \/ CommitLeaseLost
    \/ RollBack
    \/ \E b \in Body, r \in issued, j \in Job, t \in Time : Acknowledge(b, r, j, t)
    \/ \E b \in Body, r \in issued, t \in Time : Retry(b, r, t)
    \/ \E i \in Id, b \in Body \cup {Garbled} : Rot(i, b)
    \/ Close
    \/ Reopen

SpecJournal == InitJournal /\ [][NextJournal]_jvars

-----------------------------------------------------------------------------
(***************************************************************************)
(* Properties.                                                             *)
(***************************************************************************)

\* Every variable has its type.
JournalTypeOK == /\ db \in Database
                 /\ tx \in Transaction
                 /\ issued \subseteq Receipt
                 /\ rot \in Nat
                 /\ open \in BOOLEAN

LiveOf(d, s) == {i \in Id : SourceOf[i] = s /\ Live(d.row[i])}

Exact(d) == /\ \A s \in Source : d.pending[s] = Cardinality(LiveOf(d, s))
            /\ d.accepted = Cardinality({i \in Id : Present(d.row[i])})
            /\ d.acked = Cardinality({i \in Id : Present(d.row[i]) /\ ~Live(d.row[i])})

\* The redundant counters (source_service.pending, intake_counts) agree with
\* the rows they summarise, in the committed database and inside every open
\* transaction: _lease_one skips a source whose pending is 0, so a counter that
\* runs low would leave accepted observations undelivered for ever, whatever
\* mix of ignored inserts, rollbacks, crashes and acknowledgements went before.
CountersExact == Exact(db) /\ (tx.op # "idle" => Exact(tx.d))

\* A receipt stays true of its row for ever: re-leases, retries, restarts and
\* damage never move the acceptance clock, the digest or the first-delivery
\* clock that an earlier lease reported, and no receipt is ahead of its row.
ReceiptsTruthful ==
    \A r \in issued : /\ Present(db.row[r.id])
                      /\ r.hash = db.row[r.id].hash
                      /\ r.at = db.row[r.id].at
                      /\ r.first = db.row[r.id].first
                      /\ r.gen <= db.row[r.id].gen

\* accepted <= first_delivery <= acknowledged in every row, although each
\* caller brings its own clock reading and those may run backwards.
ClockOrder ==
    \A i \in Id : LET r == db.row[i]
                  IN  /\ r.first # Never => r.at <= r.first
                      /\ Present(r) /\ ~Live(r) => r.first # Never /\ r.first <= r.done

\* Round robin: between two leases of source s no other source is leased twice
\* while s is due ("Each eligible source receives a turn"); this rests on the
\* ticket update inside the batch and on new sources starting at ticket 0.
BoundedOvertaking ==
    \A s, u \in Source : db.passed[s][u] <= 1

\* Within one lease_many transaction a row is leased at most once, every lease
\* is in the batch that is returned, and only rows whose body still has its
\* digest are: the new deadline lies beyond the clock that selects rows.
OneLeasePerBatch ==
    tx.op = "lease" =>
        /\ \A r \in tx.out : /\ tx.d.row[r.id].gen = r.gen
                             /\ r.gen = db.row[r.id].gen + 1
                             /\ db.row[r.id].body = r.hash
        /\ \A i \in Id : tx.d.row[i].gen # db.row[i].gen => \E r \in tx.out : r.id = i

\* A body leaves the journal only in the hands of a caller that was given the
\* row's latest generation: "old generations cannot remove pending data", also
\* when the latest lease was committed and lost in a crash.
AckFenced ==
    [][\A i \in Id : Live(db.row[i]) /\ ~Live(db'.row[i]) =>
          \E r \in issued : /\ r.id = i /\ r.gen = db.row[i].gen
                            /\ r.hash = db.row[i].body]_jvars

RowKept(p, q) ==
    /\ Present(p) => Present(q) /\ q.hash = p.hash /\ q.at = p.at /\ q.rid = p.rid
    /\ p.first # Never => q.first = p.first
    /\ q.gen >= p.gen
    /\ Present(p) /\ ~Live(p) => q = p

\* At-least-once: no step, crash or re-observation of the same identity evicts
\* or rewrites an accepted observation, and an acknowledged one never returns.
RowsPermanent == [][\A i \in Id : RowKept(db.row[i], db'.row[i])]_jvars

-----------------------------------------------------------------------------
(***************************************************************************)
(* The journal implements IntakeLog: the committed rows, their generations *)
(* and the receipts that were returned.                                    *)
(***************************************************************************)
LogState == [i \in Id |-> IF ~Present(db.row[i]) THEN "absent"
                          ELSE IF Live(db.row[i]) THEN "pending" ELSE "acked"]
LogGen == [i \in Id |-> db.row[i].gen]
LogHolds == {<<r.id, r.gen>> : r \in issued}

Log == INSTANCE IntakeLog WITH Item <- Id, st <- LogState, gen <- LogGen, holds <- LogHolds

\* Every behaviour of the journal is a behaviour of the abstract intake: a whole
\* SQLite batch, with its loop, counters and turns, is one Accept or one Lease.
ImplementsLog == Log!Spec

-----------------------------------------------------------------------------
(***************************************************************************)
(* The inductive invariant behind the invariants above.                    *)
(***************************************************************************)
RowOrdered(r) ==
    /\ Live(r) => Present(r)
    /\ ~Present(r) => r.first = Never /\ r.gen = 0
    /\ r.first # Never => r.at <= r.first
    /\ r.first = Never => r.due = r.at
    /\ Present(r) /\ ~Live(r) => r.first # Never /\ r.first <= r.done

TurnsOrdered(d) ==
    \A s, u \in Source : \/ d.passed[s][u] = 0
                         \/ d.passed[s][u] = 1 /\ d.ticket[s] < d.ticket[u]

Sound(d) == Exact(d) /\ (\A i \in Id : RowOrdered(d.row[i])) /\ TurnsOrdered(d)

\* What the open transaction's copy may differ in from the committed rows.
TxKeepsRows ==
    tx.op # "idle" => \A i \in Id :
        /\ RowKept(db.row[i], tx.d.row[i])
        /\ Live(db.row[i]) => tx.d.row[i].body = db.row[i].body

TrueOf(r, d) == /\ Present(d.row[r.id])
                /\ r.hash = d.row[r.id].hash
                /\ r.at = d.row[r.id].at
                /\ r.first = d.row[r.id].first
                /\ r.first # Never

AppendTx ==
    tx.op = "append" => \A i \in Id :
        \/ tx.d.row[i] = db.row[i]
        \/ /\ ~Present(db.row[i]) /\ Present(tx.d.row[i]) /\ Live(tx.d.row[i])
           /\ tx.d.row[i].gen = db.row[i].gen

LeaseTx ==
    tx.op = "lease" =>
        /\ \A i \in Id :
              \/ tx.d.row[i] = db.row[i]
              \/ /\ tx.d.row[i].gen = db.row[i].gen + 1
                 /\ tx.d.row[i].due > tx.at
                 /\ tx.d.row[i].body = db.row[i].body /\ Live(db.row[i])
                 /\ \E r \in tx.out : r.id = i
        /\ \A r \in tx.out : /\ TrueOf(r, tx.d)
                             /\ r.gen = tx.d.row[r.id].gen
                             /\ r.gen = db.row[r.id].gen + 1
                             /\ db.row[r.id].body = r.hash

\* The inductive invariant: the counters are exact, rows and turns are ordered,
\* and a transaction's copy only ever moves the committed rows forward.
JournalInv ==
    /\ JournalTypeOK
    /\ Sound(db)
    /\ tx.op # "idle" => Sound(tx.d)
    /\ TxKeepsRows
    /\ AppendTx
    /\ LeaseTx
    /\ \A r \in issued : TrueOf(r, db) /\ r.gen <= db.row[r.id].gen
=============================================================================
