--------------------------- MODULE SourceIntake ---------------------------
(***************************************************************************)
(* An observation's way from a source into the canonical research ledger:  *)
(* producers and the prefetching reader of SourceMesh                      *)
(* (src/collectors/event_source.py), the consumer loop of                  *)
(* src/runtime/source_intelligence.py, and the onion outbox delivery of    *)
(* src/collectors/onion_discovery.py and onion_frontier.py, over the       *)
(* durable journal of SourceJournal.                                       *)
(*                                                                         *)
(* The journal appears here with its clocks abstracted: a leased row       *)
(* becomes "ready" again when its deadline passes (Lapse) or when it is    *)
(* retried.  A disk call and the resumption after it are one step: what a  *)
(* crash or a shutdown between them loses is the volatile state, which     *)
(* Crash discards anyway.  The one exception is the lease call, whose      *)
(* result a 120 s timeout can discard while the process lives on.          *)
(***************************************************************************)
EXTENDS Naturals, FiniteSets

CONSTANTS
    Event,      \* observations (journal identities)
    Onion,      \* observed by the onion frontier: outbox and child links
    Directory,  \* observed by an onion directory: outbox, links go first
    Key,        \* content hashes
    KeyOf,      \* content hash of an event
    Batch,      \* journal_batch_size
    MaxFault,   \* bound: failing or timed-out calls
    MaxCrash    \* bound: process deaths

ASSUME IntakeConstants ==
    /\ Onion \subseteq Event /\ Directory \subseteq Event
    /\ Onion \cap Directory = {}
    /\ KeyOf \in [Event -> Key]
    /\ Batch \in Nat \ {0}
    /\ MaxFault \in Nat /\ MaxCrash \in Nat

Outboxed == Onion \cup Directory
Plain == Event \ Outboxed
Producer == {"onion", "plain"}
None == [e |-> "none", g |-> 0]

VARIABLES
    \* durable
    row,       \* journal: "absent", "ready", "leased", "acked"
    gen,       \* journal: generation
    outbox,    \* onion outbox rows
    stored,    \* onion observations ever stored by a crawl
    jobs,      \* events with a canonical research job
    children,  \* events whose links were admitted to the onion frontier
    \* volatile
    up,        \* the process runs
    seen,      \* SourceMesh._seen
    batch,     \* per producer: admitted events that wait for journal.append
    prefetch,  \* SourceMesh._journal_prefetch
    reply,     \* rows committed by lease_many, not yet seen by the reader
    held,      \* the consumer's current event, or None
    leases,    \* SourceMesh._journal_leases
    pc,        \* the consumer's place
    indexed,   \* events in the owner's in-memory index
    faults, crashes

durable == <<row, gen, outbox, stored, jobs, children>>
volatile == <<up, seen, batch, prefetch, reply, held, leases, pc, indexed>>
vars == <<durable, volatile, faults, crashes>>

Lease == [e: Event, g: Nat \ {0}]

\* Every variable has its type.
TypeOK ==
    /\ row \in [Event -> {"absent", "ready", "leased", "acked"}]
    /\ gen \in [Event -> Nat]
    /\ outbox \subseteq Outboxed /\ stored \subseteq Outboxed
    /\ jobs \subseteq Event /\ children \subseteq Event
    /\ up \in BOOLEAN /\ seen \subseteq Key /\ batch \in [Producer -> SUBSET Event]
    /\ prefetch \subseteq Lease /\ reply \subseteq Lease
    /\ held \in Lease \cup {None} /\ leases \subseteq Lease
    /\ held = None <=> pc \in {"read", "leasing"}
    /\ pc \in {"read", "leasing", "record", "deliver", "ackOutbox", "ack", "index",
               "retry", "failed"}
    /\ indexed \subseteq Event
    /\ faults \in 0..MaxFault /\ crashes \in 0..MaxCrash

NoBatch == [p \in Producer |-> {}]

InitVolatile ==
    /\ up = TRUE /\ seen = {} /\ batch = NoBatch /\ prefetch = {} /\ reply = {}
    /\ held = None /\ leases = {} /\ pc = "read" /\ indexed = {}

Init ==
    /\ row = [e \in Event |-> "absent"] /\ gen = [e \in Event |-> 0]
    /\ outbox = {} /\ stored = {} /\ jobs = {} /\ children = {}
    /\ InitVolatile
    /\ faults = 0 /\ crashes = 0

Fault == faults < MaxFault /\ faults' = faults + 1

-----------------------------------------------------------------------------
(***************************************************************************)
(* Producers.                                                              *)
(***************************************************************************)

\* _fetch_one/_store_observation: a changed page goes into the outbox first;
\* the poll that carries it may be cut off by its timeout afterwards.
Crawl(e) ==
    /\ up /\ e \in Outboxed \ stored
    /\ stored' = stored \cup {e}
    /\ outbox' = outbox \cup {e}
    /\ UNCHANGED <<row, gen, jobs, children, volatile, faults, crashes>>

\* Mutant: the dedupe window suppresses outbox events too.
PollOutboxDedupes ==
    /\ up /\ batch["onion"] = {}
    /\ \E e \in outbox :
        /\ KeyOf[e] \notin seen
        /\ batch' = [batch EXCEPT !["onion"] = {e}]
        /\ seen' = seen \cup {KeyOf[e]}
    /\ UNCHANGED <<durable, up, prefetch, reply, held, leases, pc, indexed, faults, crashes>>

\* The outbox is offered again on every poll until it is acknowledged; _admit
\* never suppresses an event with a durable observation id.
PollOutbox ==
    /\ up /\ batch["onion"] = {}
    /\ \E S \in SUBSET outbox : S # {} /\ batch' = [batch EXCEPT !["onion"] = S]
    /\ UNCHANGED <<durable, up, seen, prefetch, reply, held, leases, pc, indexed,
                   faults, crashes>>

\* A poll of an ordinary source: _admit passes one event of each content that is
\* not in the dedupe window.
PollPlain(S) ==
    /\ up /\ batch["plain"] = {}
    /\ \A e \in S : KeyOf[e] \notin seen
    /\ \A e, f \in S : KeyOf[e] = KeyOf[f] => e = f
    /\ batch' = [batch EXCEPT !["plain"] = S]
    /\ seen' = seen \cup {KeyOf[e] : e \in S}
    /\ UNCHANGED <<durable, up, prefetch, reply, held, leases, pc, indexed,
                   faults, crashes>>

\* _expire: the dedupe window of one content ends.
Expire(k) ==
    /\ up /\ k \in seen
    /\ seen' = seen \ {k}
    /\ UNCHANGED <<durable, up, batch, prefetch, reply, held, leases, pc, indexed,
                   faults, crashes>>

\* Mutant: INSERT OR REPLACE revives an acknowledged identity.
PublishBatchReplaces(p) ==
    /\ up /\ batch[p] # {}
    /\ row' = [e \in Event |-> IF e \in batch[p] THEN "ready" ELSE row[e]]
    /\ batch' = [batch EXCEPT ![p] = {}]
    /\ UNCHANGED <<gen, outbox, stored, jobs, children, up, seen, prefetch, reply, held,
                   leases, pc, indexed, faults, crashes>>

\* journal.append commits the whole batch, ignoring known identities; a failing
\* append keeps the batch and is simply tried again.
PublishBatch(p) ==
    /\ up /\ batch[p] # {}
    /\ row' = [e \in Event |-> IF e \in batch[p] /\ row[e] = "absent" THEN "ready" ELSE row[e]]
    /\ batch' = [batch EXCEPT ![p] = {}]
    /\ UNCHANGED <<gen, outbox, stored, jobs, children, up, seen, prefetch, reply, held,
                   leases, pc, indexed, faults, crashes>>

-----------------------------------------------------------------------------
(***************************************************************************)
(* The reader: next_event.                                                 *)
(***************************************************************************)
ReadyRows == {e \in Event : row[e] = "ready"}

\* Mutant: the buffer is refilled before it is empty.
LeaseManyRefills(S) ==
    /\ up /\ pc = "read"
    /\ S # {} /\ S \subseteq ReadyRows /\ Cardinality(S) <= Batch
    /\ row' = [e \in Event |-> IF e \in S THEN "leased" ELSE row[e]]
    /\ gen' = [e \in Event |-> IF e \in S THEN gen[e] + 1 ELSE gen[e]]
    /\ reply' = {[e |-> e, g |-> gen[e] + 1] : e \in S}
    /\ pc' = "leasing"
    /\ UNCHANGED <<outbox, stored, jobs, children, up, seen, batch, prefetch, held, leases,
                   indexed, faults, crashes>>

\* lease_many commits in the worker thread: as many ready rows as fit.
LeaseMany(S) ==
    /\ up /\ pc = "read" /\ prefetch = {}
    /\ S # {} /\ S \subseteq ReadyRows /\ Cardinality(S) <= Batch
    /\ S = ReadyRows \/ Cardinality(S) = Batch
    /\ row' = [e \in Event |-> IF e \in S THEN "leased" ELSE row[e]]
    /\ gen' = [e \in Event |-> IF e \in S THEN gen[e] + 1 ELSE gen[e]]
    /\ reply' = {[e |-> e, g |-> gen[e] + 1] : e \in S}
    /\ pc' = "leasing"
    /\ UNCHANGED <<outbox, stored, jobs, children, up, seen, batch, prefetch, held, leases,
                   indexed, faults, crashes>>

\* The call returns: the prefetch buffer is filled and its first event taken,
\* without giving up the owner loop in between.
LeaseReturns(l) ==
    /\ up /\ pc = "leasing" /\ l \in reply
    /\ prefetch' = reply \ {l}
    /\ reply' = {}
    /\ held' = l
    /\ leases' = leases \cup {l}
    /\ pc' = "record"
    /\ UNCHANGED <<durable, up, seen, batch, indexed, faults, crashes>>

\* asyncio.timeout(120) cancels next_event inside _disk_call: the transaction is
\* drained and its rows are dropped.
LeaseTimesOut ==
    /\ up /\ pc = "leasing" /\ Fault
    /\ reply' = {}
    /\ pc' = "read"
    /\ UNCHANGED <<durable, up, seen, batch, prefetch, held, leases, indexed, crashes>>

\* popleft: a buffered event becomes the consumer's without a disk call.
Take(l) ==
    /\ up /\ pc = "read" /\ l \in prefetch
    /\ prefetch' = prefetch \ {l}
    /\ held' = l
    /\ leases' = leases \cup {l}
    /\ pc' = "record"
    /\ UNCHANGED <<durable, up, seen, batch, reply, indexed, faults, crashes>>

-----------------------------------------------------------------------------
(***************************************************************************)
(* The consumer: _source_consumer_loop.                                    *)
(***************************************************************************)

\* _record_population_narrative_async: the canonical job is durable.
Record ==
    /\ up /\ pc = "record"
    /\ jobs' = jobs \cup {held.e}
    /\ pc' = "deliver"
    /\ UNCHANGED <<row, gen, outbox, stored, children, up, seen, batch, prefetch, reply,
                   held, leases, indexed, faults, crashes>>

\* It returned no job, or it raised, before or after the job was written.
RecordFails ==
    /\ up /\ pc = "record" /\ Fault
    /\ jobs' \in {jobs, jobs \cup {held.e}}
    /\ pc' \in {"retry", "failed"}
    /\ pc' = "retry" => jobs' = jobs
    /\ UNCHANGED <<row, gen, outbox, stored, children, up, seen, batch, prefetch, reply,
                   held, leases, indexed, crashes>>

\* Mutant: the outbox acknowledgement is skipped.
DeliverSkipsOutbox ==
    /\ up /\ pc = "deliver"
    /\ children' = children \cup {held.e}
    /\ pc' = "ack"
    /\ UNCHANGED <<row, gen, outbox, stored, jobs, up, seen, batch, prefetch, reply, held,
                   leases, indexed, faults, crashes>>

\* deliver: a directory's links are admitted before its outbox row goes; an
\* onion page's links are admitted in the transaction that deletes its row.
Deliver ==
    /\ up /\ pc = "deliver"
    /\ children' = IF held.e \in Onion THEN children ELSE children \cup {held.e}
    /\ pc' = IF held.e \in Outboxed THEN "ackOutbox" ELSE "ack"
    /\ UNCHANGED <<row, gen, outbox, stored, jobs, up, seen, batch, prefetch, reply, held,
                   leases, indexed, faults, crashes>>

\* Mutant: the outbox row is deleted without admitting its links.
AckOutboxDropsLinks ==
    /\ up /\ pc = "ackOutbox"
    /\ outbox' = outbox \ {held.e}
    /\ pc' = "ack"
    /\ UNCHANGED <<row, gen, stored, jobs, children, up, seen, batch, prefetch, reply, held,
                   leases, indexed, faults, crashes>>

AckOutbox ==
    /\ up /\ pc = "ackOutbox"
    /\ children' = IF held.e \in outbox THEN children \cup {held.e} ELSE children
    /\ outbox' = outbox \ {held.e}
    /\ pc' = "ack"
    /\ UNCHANGED <<row, gen, stored, jobs, up, seen, batch, prefetch, reply, held, leases,
                   indexed, faults, crashes>>

\* deliver returns False at either of its two writes, or its preparation raises.
DeliverFails ==
    /\ up /\ pc \in {"deliver", "ackOutbox"} /\ Fault
    /\ pc' \in IF pc = "deliver" THEN {"retry", "failed"} ELSE {"retry"}
    /\ UNCHANGED <<durable, up, seen, batch, prefetch, reply, held, leases, indexed, crashes>>

\* journal._match for the lease the consumer holds.
Matches(l) == row[l.e] \in {"ready", "leased"} /\ gen[l.e] = l.g

\* _acknowledge_bound_event: look the job's reference up, then acknowledge.
AcknowledgeEvent ==
    /\ up /\ pc = "ack"
    /\ held.e \in jobs /\ Matches(held)
    /\ row' = [row EXCEPT ![held.e] = "acked"]
    /\ leases' = leases \ {held}
    /\ pc' = "index"
    /\ UNCHANGED <<gen, outbox, stored, jobs, children, up, seen, batch, prefetch, reply,
                   held, indexed, faults, crashes>>

\* No reference, a stale lease, or a failing disk: nothing is written.
AcknowledgeFails ==
    /\ up /\ pc = "ack"
    /\ (held.e \in jobs /\ Matches(held)) => faults < MaxFault
    /\ faults' = IF held.e \in jobs /\ Matches(held) THEN faults + 1 ELSE faults
    /\ pc' = "failed"
    /\ UNCHANGED <<durable, up, seen, batch, prefetch, reply, held, leases, indexed, crashes>>

\* _index_source_event; if it raises, the receipt is gone and nothing is retried.
Index ==
    /\ up /\ pc = "index"
    /\ indexed' = indexed \cup {held.e}
    /\ held' = None /\ pc' = "read"
    /\ UNCHANGED <<durable, up, seen, batch, prefetch, reply, leases, faults, crashes>>

IndexFails ==
    /\ up /\ pc = "index" /\ Fault
    /\ held' = None /\ pc' = "read"
    /\ UNCHANGED <<durable, up, seen, batch, prefetch, reply, leases, indexed, crashes>>

\* retry_event, from the loop body or from its except clause.
RetryEvent ==
    /\ up /\ pc \in {"retry", "failed"} /\ Matches(held)
    /\ row' = [row EXCEPT ![held.e] = "ready"]
    /\ leases' = leases \ {held}
    /\ held' = None /\ pc' = "read"
    /\ UNCHANGED <<gen, outbox, stored, jobs, children, up, seen, batch, prefetch, reply,
                   indexed, faults, crashes>>

\* A retry that raises is tried once more by the except clause, then the event
\* is left to the expiry of its lease; its entry in _journal_leases stays.
RetryFails ==
    /\ up /\ pc \in {"retry", "failed"}
    /\ Matches(held) => faults < MaxFault
    /\ faults' = IF Matches(held) THEN faults + 1 ELSE faults
    /\ pc' = IF pc = "retry" THEN "failed" ELSE "read"
    /\ held' = IF pc = "retry" THEN held ELSE None
    /\ UNCHANGED <<durable, up, seen, batch, prefetch, reply, leases, indexed, crashes>>

-----------------------------------------------------------------------------
\* Mutant: deadlines live in the process that leased, not in the row.
LapseInMemory(e) ==
    /\ row[e] = "leased" /\ \E l \in leases : l.e = e
    /\ row' = [row EXCEPT ![e] = "ready"]
    /\ UNCHANGED <<gen, outbox, stored, jobs, children, volatile, faults, crashes>>

\* A lease deadline passes.
Lapse(e) ==
    /\ row[e] = "leased"
    /\ row' = [row EXCEPT ![e] = "ready"]
    /\ UNCHANGED <<gen, outbox, stored, jobs, children, volatile, faults, crashes>>

\* The process dies, or is stopped and drains its disk calls.
Crash ==
    /\ up /\ crashes < MaxCrash
    /\ crashes' = crashes + 1
    /\ up' = FALSE /\ seen' = {} /\ batch' = NoBatch /\ prefetch' = {} /\ reply' = {}
    /\ held' = None /\ leases' = {} /\ pc' = "read" /\ indexed' = {}
    /\ UNCHANGED <<durable, faults>>

Restart ==
    /\ ~up
    /\ up' = TRUE
    /\ UNCHANGED <<durable, seen, batch, prefetch, reply, held, leases, pc, indexed,
                   faults, crashes>>

Next ==
    \/ \E e \in Event : Crawl(e)
    \/ PollOutbox
    \/ \E S \in SUBSET Plain : S # {} /\ PollPlain(S)
    \/ \E k \in Key : Expire(k)
    \/ \E p \in Producer : PublishBatch(p)
    \/ \E S \in SUBSET Event : LeaseMany(S)
    \/ \E l \in reply : LeaseReturns(l)
    \/ LeaseTimesOut
    \/ \E l \in prefetch : Take(l)
    \/ Record \/ RecordFails
    \/ Deliver \/ AckOutbox \/ DeliverFails
    \/ AcknowledgeEvent \/ AcknowledgeFails
    \/ Index \/ IndexFails
    \/ RetryEvent \/ RetryFails
    \/ \E e \in Event : Lapse(e)
    \/ Crash \/ Restart

(***************************************************************************)
(* Fairness: asyncio runs every ready task and the thread pool every       *)
(* dispatched call, deadlines pass, and the supervisor restarts a dead     *)
(* process.  Nothing is assumed of sources, crawls, faults or crashes.     *)
(***************************************************************************)
Reader == \/ \E S \in SUBSET Event : LeaseMany(S)
          \/ \E l \in reply : LeaseReturns(l)
          \/ \E l \in prefetch : Take(l)
Consumer == Record \/ Deliver \/ AckOutbox \/ AcknowledgeEvent \/ Index \/ RetryEvent
            \/ AcknowledgeFails \/ RetryFails

Spec == Init /\ [][Next]_vars

FairSpec ==
    /\ Spec
    /\ WF_vars(PollOutbox)
    /\ \A p \in Producer : WF_vars(PublishBatch(p))
    /\ WF_vars(Reader)
    /\ WF_vars(Consumer)
    /\ \A e \in Event : WF_vars(Lapse(e))
    /\ WF_vars(Restart)

-----------------------------------------------------------------------------
(***************************************************************************)
(* Properties.                                                             *)
(***************************************************************************)

\* What the journal has forgotten, the rest of the system has: an acknowledged
\* observation has its canonical job, its links were admitted, and its outbox
\* row is gone.  INSERT OR IGNORE drops any later offer of that identity, so an
\* outbox row left behind would be offered for ever and block the crawl.
AckedIsCanonical ==
    \A e \in Event : row[e] = "acked" => e \in jobs /\ e \in children /\ e \notin outbox

\* An onion observation leaves the outbox only once its canonical job exists and
\* its child links are admitted ("New children cannot be fetched until their
\* parent's observation exists in the canonical ledger").
OutboxUntilCanonical ==
    /\ stored \ outbox \subseteq jobs \cap children
    /\ Onion \cap children \subseteq jobs

\* With one consumer and a buffer that is refilled only when it is empty, the
\* event in hand is always the latest lease of its row, although its lease may
\* have lapsed while it sat in the prefetch buffer.
HeldIsCurrent ==
    /\ pc \in {"record", "deliver", "ackOutbox", "ack", "retry", "failed"} => Matches(held)
    /\ \A l \in prefetch \cup reply : Matches(l) /\ l # held
    /\ \A l, m \in prefetch \cup reply : l.e = m.e => l = m

\* An observation is delivered again only because of a fault or a crash, never
\* because the consumer is slow.
RedeliveryNeedsFault ==
    \A e \in Event : gen[e] <= 1 + faults + crashes

\* "No owner index mutation precedes the durable ACK."
IndexAfterAck == \A e \in indexed : row[e] = "acked"

-----------------------------------------------------------------------------
(***************************************************************************)
(* The inductive invariant.                                                *)
(***************************************************************************)

\* The consumer works on a leased event that is not acknowledged yet.
Working == {"record", "deliver", "ackOutbox", "ack", "retry", "failed"}

\* Leases are in one place only, and the consumer's is registered.
Custody ==
    /\ HeldIsCurrent
    /\ pc = "leasing" => prefetch = {}
    /\ reply # {} => pc = "leasing"
    /\ pc \in Working => held \in leases

\* Whatever carries an onion observation got it from the outbox.
Provenance ==
    /\ outbox \subseteq stored
    /\ batch["onion"] \subseteq stored
    /\ batch["plain"] \subseteq Plain
    /\ \A e \in Outboxed : row[e] # "absent" => e \in stored

\* How much of the delivery is durable at each place of the consumer.
Staged ==
    /\ AckedIsCanonical
    /\ OutboxUntilCanonical
    /\ pc \in {"deliver", "ackOutbox", "ack"} => held.e \in jobs
    /\ pc = "ackOutbox" => held.e \in Outboxed
    /\ pc = "ackOutbox" /\ held.e \in Directory => held.e \in children
    /\ pc = "ack" => held.e \in children \ outbox
    /\ pc = "index" => row[held.e] = "acked"

\* Some part of the process will still work on e.
Owned(e) == \/ \E l \in prefetch \cup reply : l.e = e
            \/ pc \in Working /\ held.e = e

\* A row nobody owns has been leased at most once per fault or crash.
LeaseBudget ==
    /\ RedeliveryNeedsFault
    /\ \A e \in Event : row[e] # "acked" /\ ~Owned(e) => gen[e] <= faults + crashes
    /\ pc \in {"retry", "failed"} => gen[held.e] <= faults + crashes

\* IntakeInv holds initially and is preserved by every step; the properties above
\* follow from it.  It adds to them where each lease is, which steps of a delivery
\* are durable at each place of the consumer, and what a redelivery costs.
IntakeInv == TypeOK /\ Custody /\ Provenance /\ Staged /\ LeaseBudget /\ IndexAfterAck

\* The mesh with its consumer implements the abstract intake.
EventLogState == [e \in Event |-> IF row[e] \in {"ready", "leased"} THEN "pending" ELSE row[e]]
Carried == prefetch \cup reply \cup leases
EventLogHolds == {<<l.e, l.g>> : l \in Carried}

EventLog == INSTANCE IntakeLog WITH Item <- Event, st <- EventLogState, gen <- gen,
                                    holds <- EventLogHolds

\* Every behaviour of the intake path is one of IntakeLog: prefetching, timeouts,
\* retries and restarts only ever forget leases.
MeshImplementsLog == EventLog!Spec

\* Every committed observation is eventually acknowledged, after any finite
\* number of faults, timeouts and crashes.
AcceptedIsAcked ==
    \A e \in Event : row[e] \in {"ready", "leased"} ~> row[e] = "acked"

\* Every stored onion observation eventually leaves the outbox, so the crawl,
\* which serves the outbox first, is not blocked for ever.
OutboxDrains == \A e \in Outboxed : e \in outbox ~> e \notin outbox
=============================================================================
