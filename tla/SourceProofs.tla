----------------------------- MODULE SourceProofs ----------------------------
(***************************************************************************)
(* Proofs about the durable source path, for every value of the constants: *)
(* the journal (SourceJournal, invariant JournalInv) and the way of an     *)
(* observation over it (SourceIntake, invariant IntakeInv).  Both          *)
(* implement IntakeLog.  The two are proved apart: no variable is shared.  *)
(***************************************************************************)
EXTENDS SourceJournal, SourceIntake, FiniteSetTheorems, TLAPS

\* Adding an identity to a set of identities adds one to its cardinality.
LEMMA AddOne ==
    ASSUME NEW S \in SUBSET Id, NEW x \in Id, x \notin S
    PROVE  /\ Cardinality(S) \in Nat
           /\ Cardinality(S \cup {x}) = Cardinality(S) + 1
  <1>1. IsFiniteSet(S)
    BY FS_Subset, JournalConstants
  <1> QED
    BY <1>1, FS_AddElement, FS_CardinalityType

\* Removing a member of a set of identities takes one from its cardinality.
LEMMA DropOne ==
    ASSUME NEW S \in SUBSET Id, NEW x \in S
    PROVE  /\ Cardinality(S) \in Nat
           /\ Cardinality(S \ {x}) = Cardinality(S) - 1
  <1>1. IsFiniteSet(S)
    BY FS_Subset, JournalConstants
  <1> QED
    BY <1>1, FS_RemoveElement, FS_CardinalityType

\* The row that append writes is a live, present row in clock order.
LEMMA NewRowOrdered ==
    ASSUME NEW d \in Database, NEW b \in Body, NEW t \in Nat
    PROVE  LET r == NewRow(d, b, t)
           IN  r \in Row /\ Live(r) /\ Present(r) /\ RowOrdered(r) /\ r.gen = 0
  <1> DEFINE n == d.accepted + 1
             r == [NoRow EXCEPT !.body = b, !.hash = b, !.at = t, !.due = t, !.rid = n]
  <1>1. NoRow \in Row
    BY JournalConstants DEF NoRow, Row, Never
  <1>2. n \in Nat /\ t \in Int
    BY DEF Database
  <1> HIDE DEF n
  <1>3. r \in Row
    BY <1>1, <1>2 DEF Row
  <1>4. /\ r.body = b /\ r.hash = b /\ r.at = t /\ r.due = t
        /\ r.first = Never /\ r.gen = 0
    BY DEF NoRow
  <1>5. NewRow(d, b, t) = r
    BY DEF NewRow, n
  <1> HIDE DEF r
  <1> QED
    BY <1>3, <1>4, <1>5, JournalConstants DEF Live, Present, RowOrdered, Never

\* The row that a lease writes.
LEMMA LeasedRowOrdered ==
    ASSUME NEW p \in Row, NEW t \in Nat, RowOrdered(p), Live(p), p.due <= t
    PROVE  LET r == LeasedRow(p, t)
           IN  /\ r \in Row /\ RowOrdered(r) /\ RowKept(p, r)
               /\ r.body = p.body /\ r.hash = p.hash /\ r.at = p.at
               /\ r.gen = p.gen + 1 /\ r.due > t /\ r.first # Never
  <1> DEFINE f == IF p.first = Never THEN t ELSE p.first
             g == p.gen + 1
             u == t + LeaseSecs
             r == [p EXCEPT !.first = f, !.gen = g, !.due = u]
  <1>1. f \in Int /\ g \in Nat /\ u \in Int /\ u > t /\ f # Never
    BY JournalConstants DEF Row, Never
  <1>2. p.at <= f /\ (p.first # Never => f = p.first)
    BY DEF Row, RowOrdered
  <1>3. LeasedRow(p, t) = r
    BY DEF LeasedRow
  <1> HIDE DEF f, g, u
  <1>4. r \in Row
    BY <1>1 DEF Row
  <1>5. /\ r.body = p.body /\ r.hash = p.hash /\ r.at = p.at /\ r.rid = p.rid
        /\ r.gen = g /\ r.first = f /\ r.due = u /\ r.done = p.done
    BY DEF Row
  <1> HIDE DEF r
  <1>6. RowOrdered(r)
    BY <1>1, <1>2, <1>5 DEF RowOrdered, Live, Present
  <1>7. g = p.gen + 1 /\ g >= p.gen
    BY DEF g, Row
  <1>8. RowKept(p, r)
    BY <1>2, <1>5, <1>7 DEF RowKept, Live, Present
  <1> QED
    BY <1>1, <1>3, <1>4, <1>5, <1>6, <1>7, <1>8

\* The row that an acknowledgement at or after first delivery writes.
LEMMA AckedRowOrdered ==
    ASSUME NEW p \in Row, NEW t \in Nat, NEW j \in Job,
           RowOrdered(p), Live(p), p.first # Never, p.first <= t
    PROVE  LET r == AckedRow(p, j, t)
           IN  /\ r \in Row /\ RowOrdered(r) /\ RowKept(p, r)
               /\ ~Live(r) /\ Present(r) /\ r.hash = p.hash
               /\ r.at = p.at /\ r.first = p.first /\ r.gen = p.gen
  <1> DEFINE r == [p EXCEPT !.body = Null, !.job = j, !.done = t]
  <1>1. r \in Row
    <2>1. t \in Int
      OBVIOUS
    <2> QED
      BY <2>1 DEF Row
  <1>2. /\ r.body = Null /\ r.hash = p.hash /\ r.at = p.at /\ r.rid = p.rid
        /\ r.gen = p.gen /\ r.first = p.first /\ r.due = p.due /\ r.done = t
    BY DEF Row
  <1>3. AckedRow(p, j, t) = r
    BY DEF AckedRow
  <1> HIDE DEF r
  <1>4. RowOrdered(r) /\ ~Live(r) /\ Present(r)
    BY <1>2 DEF RowOrdered, Live, Present
  <1>5. RowKept(p, r)
    BY <1>2, <1>4 DEF RowKept, Live, Present, Row
  <1> QED
    BY <1>1, <1>2, <1>3, <1>4, <1>5

\* The row that a retry writes; only delivered rows are retried.
LEMMA DelayedRowOrdered ==
    ASSUME NEW p \in Row, NEW t \in Nat, RowOrdered(p), Live(p), p.first # Never
    PROVE  LET r == DelayedRow(p, t)
           IN  /\ r \in Row /\ RowOrdered(r) /\ RowKept(p, r)
               /\ r.body = p.body /\ r.hash = p.hash
               /\ r.at = p.at /\ r.first = p.first /\ r.gen = p.gen
  <1> DEFINE u == t + RetryDelay
             r == [p EXCEPT !.due = u]
  <1>1. u \in Int
    BY JournalConstants
  <1>2. DelayedRow(p, t) = r
    BY DEF DelayedRow
  <1> HIDE DEF u
  <1>3. r \in Row
    BY <1>1 DEF Row
  <1>4. /\ r.body = p.body /\ r.hash = p.hash /\ r.at = p.at /\ r.rid = p.rid
        /\ r.gen = p.gen /\ r.first = p.first /\ r.due = u /\ r.done = p.done
    BY DEF Row
  <1> HIDE DEF r
  <1>5. RowOrdered(r)
    BY <1>4 DEF RowOrdered, Live, Present
  <1>6. RowKept(p, r)
    BY <1>4 DEF RowKept, Live, Present, Row
  <1> QED
    BY <1>2, <1>3, <1>4, <1>5, <1>6

\* A damaged row keeps everything but its body.
LEMMA RottenRowOrdered ==
    ASSUME NEW p \in Row, NEW b \in Body \cup {Garbled}, RowOrdered(p), Live(p)
    PROVE  LET r == [p EXCEPT !.body = b]
           IN  /\ r \in Row /\ RowOrdered(r) /\ RowKept(p, r) /\ Live(r)
               /\ r.hash = p.hash /\ r.at = p.at /\ r.first = p.first /\ r.gen = p.gen
  <1> DEFINE r == [p EXCEPT !.body = b]
  <1>1. r \in Row
    BY DEF Row
  <1>2. /\ r.body = b /\ r.hash = p.hash /\ r.at = p.at /\ r.rid = p.rid
        /\ r.gen = p.gen /\ r.first = p.first /\ r.due = p.due /\ r.done = p.done
    BY DEF Row
  <1> HIDE DEF r
  <1>3. RowOrdered(r) /\ Live(r)
    BY <1>2, JournalConstants DEF RowOrdered, Live, Present
  <1>4. RowKept(p, r)
    BY <1>2 DEF RowKept, Live, Present, Row
  <1> QED
    BY <1>1, <1>2, <1>3, <1>4 DEF r

-----------------------------------------------------------------------------
\* A write that replaces one row by one equally present and equally live
\* leaves the counters exact and the rows ordered.
LEMMA SameLivenessExact ==
    ASSUME NEW d \in Database, NEW e \in Database, NEW k \in Id, NEW r \in Row,
           Exact(d), \A i \in Id : RowOrdered(d.row[i]), RowOrdered(r),
           e.row = [d.row EXCEPT ![k] = r],
           e.pending = d.pending, e.accepted = d.accepted, e.acked = d.acked,
           Live(r) <=> Live(d.row[k]), Present(r) <=> Present(d.row[k])
    PROVE  Exact(e) /\ \A i \in Id : RowOrdered(e.row[i])
  <1>1. e.row[k] = r /\ \A i \in Id : i # k => e.row[i] = d.row[i]
    BY DEF Database
  <1>2. \A i \in Id : /\ Live(e.row[i]) <=> Live(d.row[i])
                      /\ Present(e.row[i]) <=> Present(d.row[i])
    BY <1>1
  <1>3. \A s \in Source : LiveOf(e, s) = LiveOf(d, s)
    BY <1>2 DEF LiveOf
  <1>4. {i \in Id : Present(e.row[i])} = {i \in Id : Present(d.row[i])}
    BY <1>2
  <1>5. {i \in Id : Present(e.row[i]) /\ ~Live(e.row[i])}
          = {i \in Id : Present(d.row[i]) /\ ~Live(d.row[i])}
    BY <1>2
  <1> QED
    BY <1>1, <1>3, <1>4, <1>5 DEF Exact

\* An empty database is sound.
LEMMA EmptyDatabaseSound ==
    EmptyDatabase \in Database /\ Sound(EmptyDatabase)
  <1>1. NoRow \in Row /\ ~Live(NoRow) /\ ~Present(NoRow) /\ RowOrdered(NoRow)
    BY JournalConstants DEF NoRow, Row, Never, Live, Present, RowOrdered
  <1>2. EmptyDatabase \in Database
    BY <1>1 DEF EmptyDatabase, Database
  <1>3. \A i \in Id : EmptyDatabase.row[i] = NoRow
    BY DEF EmptyDatabase
  <1>4. /\ \A s \in Source : LiveOf(EmptyDatabase, s) = {}
        /\ {i \in Id : Present(EmptyDatabase.row[i])} = {}
        /\ {i \in Id : Present(EmptyDatabase.row[i]) /\ ~Live(EmptyDatabase.row[i])} = {}
    BY <1>1, <1>3 DEF LiveOf
  <1>5. Exact(EmptyDatabase)
    BY <1>4, FS_EmptySet DEF Exact, EmptyDatabase
  <1>6. TurnsOrdered(EmptyDatabase)
    BY DEF TurnsOrdered, EmptyDatabase
  <1> QED
    BY <1>1, <1>2, <1>3, <1>5, <1>6 DEF Sound

\* The rows of e are those of d, and fresh rows where d had none.
OnlyInserted(d, e) ==
    \A i \in Id : \/ e.row[i] = d.row[i]
                 \/ /\ ~Present(d.row[i]) /\ Present(e.row[i])
                    /\ Live(e.row[i]) /\ e.row[i].gen = 0

\* INSERT OR IGNORE with its two counters keeps the database sound and every
\* row that was there; without the rowcount test it would not.
LEMMA InsertSound ==
    ASSUME NEW d \in Database, Sound(d), NEW b \in Body, NEW t \in Nat
    PROVE  LET e == Insert(d, b, t)
           IN  /\ e \in Database /\ Sound(e)
               /\ OnlyInserted(d, e)
  <1> DEFINE k == IdOf[b]
             src == SourceOf[k]
             e == Insert(d, b, t)
  <1>1. k \in Id /\ src \in Source
    BY JournalConstants
  <1>2. CASE Present(d.row[k])
    <2>1. e = d
      BY <1>2 DEF Insert
    <2>2. OnlyInserted(d, d)
      BY DEF OnlyInserted
    <2> QED
      BY <2>1, <2>2
  <1>3. CASE ~Present(d.row[k])
    <2> DEFINE nr == NewRow(d, b, t)
               rows == [d.row EXCEPT ![k] = nr]
               pend == [d.pending EXCEPT ![src] = d.pending[src] + 1]
               acc == d.accepted + 1
    <2>1. nr \in Row /\ Live(nr) /\ Present(nr) /\ RowOrdered(nr) /\ nr.gen = 0
      BY NewRowOrdered
    <2>2. e = [d EXCEPT !.row = rows, !.pending = pend, !.accepted = acc]
      BY <1>3 DEF Insert, Database
    <2> HIDE DEF nr
    <2>3. rows \in [Id -> Row] /\ pend \in [Source -> Int] /\ acc \in Nat
      BY <1>1, <2>1 DEF Database
    <2> HIDE DEF rows, pend, acc
    <2>4. e \in Database
      BY <2>2, <2>3 DEF Database
    <2>5. /\ e.row = rows /\ e.pending = pend /\ e.accepted = acc
          /\ e.ticket = d.ticket /\ e.passed = d.passed /\ e.acked = d.acked
      BY <2>2 DEF Database
    <2> HIDE DEF e
    <2>6. e.row[k] = nr /\ \A i \in Id : i # k => e.row[i] = d.row[i]
      BY <1>1, <2>5 DEF rows, Database
    <2>7. ~Live(d.row[k])
      BY <1>1, <1>3 DEF Sound, RowOrdered
    <2>8. \A s \in Source : e.pending[s] = Cardinality(LiveOf(e, s))
      <3>1. LiveOf(e, src) = LiveOf(d, src) \cup {k} /\ k \notin LiveOf(d, src)
        BY <1>1, <2>1, <2>6, <2>7 DEF LiveOf
      <3>2. \A s \in Source : s # src => LiveOf(e, s) = LiveOf(d, s)
        BY <1>1, <2>6 DEF LiveOf
      <3>3. Cardinality(LiveOf(e, src)) = Cardinality(LiveOf(d, src)) + 1
        BY <1>1, <3>1, AddOne DEF LiveOf
      <3>4. e.pending[src] = d.pending[src] + 1
            /\ \A s \in Source : s # src => e.pending[s] = d.pending[s]
        BY <1>1, <2>5 DEF pend, Database
      <3> QED
        BY <1>1, <3>2, <3>3, <3>4 DEF Sound, Exact
    <2>9. e.accepted = Cardinality({i \in Id : Present(e.row[i])})
      <3>1. {i \in Id : Present(e.row[i])} = {i \in Id : Present(d.row[i])} \cup {k}
        BY <1>1, <2>1, <2>6
      <3>2. {i \in Id : Present(d.row[i])} \in SUBSET Id
            /\ k \notin {i \in Id : Present(d.row[i])}
        BY <1>3
      <3> QED
        BY <1>1, <2>5, <3>1, <3>2, AddOne DEF Sound, Exact, acc
    <2>10. {i \in Id : Present(e.row[i]) /\ ~Live(e.row[i])}
             = {i \in Id : Present(d.row[i]) /\ ~Live(d.row[i])}
      BY <1>1, <1>3, <2>1, <2>6
    <2>11. Exact(e)
      BY <2>5, <2>8, <2>9, <2>10 DEF Sound, Exact
    <2>12. \A i \in Id : RowOrdered(e.row[i])
      BY <2>1, <2>6 DEF Sound
    <2>13. TurnsOrdered(e)
      BY <2>5 DEF Sound, TurnsOrdered
    <2>14. OnlyInserted(d, e)
      BY <1>3, <2>1, <2>6 DEF OnlyInserted
    <2> QED
      BY <2>4, <2>11, <2>12, <2>13, <2>14 DEF Sound, e
  <1> QED
    BY <1>2, <1>3

\* One lease inside a batch: the row moves forward, the ticket goes to the end
\* of the queue, and nobody is passed twice.
LEMMA LeaseRowSound ==
    ASSUME NEW d \in Database, Sound(d), NEW i \in Id, NEW t \in Nat, NEW m \in Nat,
           Turn(d, i, t), TopTicket(d, m)
    PROVE  LET e == LeaseRow(d, i, t, m)
           IN  /\ e \in Database /\ Sound(e)
               /\ e.row[i] = LeasedRow(d.row[i], t)
               /\ \A j \in Id : j # i => e.row[j] = d.row[j]
  <1> DEFINE src == SourceOf[i]
             e == LeaseRow(d, i, t, m)
             nr == LeasedRow(d.row[i], t)
             rows == [d.row EXCEPT ![i] = nr]
             tick == [d.ticket EXCEPT ![src] = m + 1]
             pass == Overtake(d, src, t)
  <1>1. src \in Source
    BY JournalConstants
  <1>2. Live(d.row[i]) /\ d.row[i].due <= t /\ d.row[i] \in Row /\ RowOrdered(d.row[i])
    BY DEF Turn, RowTurn, Ready, Database, Sound
  <1>3. /\ nr \in Row /\ RowOrdered(nr)
        /\ (Live(nr) <=> Live(d.row[i])) /\ (Present(nr) <=> Present(d.row[i]))
    BY <1>2, LeasedRowOrdered DEF Live, Present
  <1>4. e = [d EXCEPT !.row = rows, !.ticket = tick, !.passed = pass]
    BY DEF LeaseRow, Database
  <1> HIDE DEF nr
  <1>5. pass \in [Source -> [Source -> Nat]]
    BY DEF Overtake, Database
  <1>6. rows \in [Id -> Row] /\ tick \in [Source -> Nat]
    BY <1>1, <1>3 DEF Database
  <1> HIDE DEF rows, tick, pass
  <1>7. e \in Database
    BY <1>4, <1>5, <1>6 DEF Database
  <1>8. /\ e.row = rows /\ e.ticket = tick /\ e.passed = pass
        /\ e.pending = d.pending /\ e.accepted = d.accepted /\ e.acked = d.acked
    BY <1>4 DEF Database
  <1> HIDE DEF e
  <1>9. e.row[i] = nr /\ \A j \in Id : j # i => e.row[j] = d.row[j]
    BY <1>8 DEF rows, Database
  <1>10. Exact(e) /\ \A j \in Id : RowOrdered(e.row[j])
    BY <1>3, <1>7, <1>8, SameLivenessExact DEF Sound, rows
  <1>11. TurnsOrdered(e)
    <2> SUFFICES ASSUME NEW v \in Source, NEW u \in Source
                 PROVE  \/ e.passed[v][u] = 0
                        \/ e.passed[v][u] = 1 /\ e.ticket[v] < e.ticket[u]
      BY DEF TurnsOrdered
    <2>1. e.passed[v][u] = IF v = src THEN 0
                           ELSE IF u = src /\ DueSource(d, v, t) THEN d.passed[v][u] + 1
                           ELSE d.passed[v][u]
      BY <1>8 DEF pass, Overtake
    <2>2. /\ e.ticket[src] = m + 1
          /\ \A w \in Source : w # src => e.ticket[w] = d.ticket[w]
      BY <1>1, <1>8 DEF tick, Database
    <2>3. \A w \in Source : d.ticket[w] <= m /\ d.ticket[w] \in Nat
      BY DEF TopTicket, Database
    <2>4. \/ d.passed[v][u] = 0
          \/ d.passed[v][u] = 1 /\ d.ticket[v] < d.ticket[u]
      BY DEF Sound, TurnsOrdered
    <2>5. CASE v = src
      BY <2>1, <2>5
    <2>6. CASE v # src /\ u = src
      <3>1. DueSource(d, v, t) => d.ticket[src] <= d.ticket[v]
        BY <1>1, <2>3 DEF Turn, SourceTurn, SourceFirst
      <3>2. d.passed[v][u] \in Nat
        BY DEF Database
      <3> QED
        BY <1>1, <2>1, <2>2, <2>3, <2>4, <2>6, <3>1, <3>2
    <2>7. CASE v # src /\ u # src
      BY <2>1, <2>2, <2>4, <2>7
    <2> QED
      BY <2>5, <2>6, <2>7
  <1> QED
    BY <1>7, <1>9, <1>10, <1>11 DEF Sound, e, nr

\* Removing a body with its counters keeps the database sound.
LEMMA AckRowSound ==
    ASSUME NEW d \in Database, Sound(d), NEW i \in Id, NEW t \in Nat, NEW j \in Job,
           Live(d.row[i]), d.row[i].first # Never, d.row[i].first <= t
    PROVE  LET e == AckRow(d, i, j, t)
           IN  /\ e \in Database /\ Sound(e)
               /\ e.row[i] = AckedRow(d.row[i], j, t)
               /\ \A k \in Id : k # i => e.row[k] = d.row[k]
  <1> DEFINE src == SourceOf[i]
             e == AckRow(d, i, j, t)
             nr == AckedRow(d.row[i], j, t)
             rows == [d.row EXCEPT ![i] = nr]
             pend == [d.pending EXCEPT ![src] = d.pending[src] - 1]
             ackd == d.acked + 1
  <1>1. src \in Source
    BY JournalConstants
  <1>2. d.row[i] \in Row /\ RowOrdered(d.row[i])
    BY DEF Database, Sound
  <1>3. nr \in Row /\ RowOrdered(nr) /\ ~Live(nr) /\ Present(nr)
    BY <1>2, AckedRowOrdered
  <1>4. e = [d EXCEPT !.row = rows, !.pending = pend, !.acked = ackd]
    BY DEF AckRow, Database
  <1> HIDE DEF nr
  <1>5. rows \in [Id -> Row] /\ pend \in [Source -> Int] /\ ackd \in Nat
    BY <1>1, <1>3 DEF Database
  <1> HIDE DEF rows, pend, ackd
  <1>6. e \in Database
    BY <1>4, <1>5 DEF Database
  <1>7. /\ e.row = rows /\ e.pending = pend /\ e.acked = ackd
        /\ e.ticket = d.ticket /\ e.passed = d.passed /\ e.accepted = d.accepted
    BY <1>4 DEF Database
  <1> HIDE DEF e
  <1>8. e.row[i] = nr /\ \A k \in Id : k # i => e.row[k] = d.row[k]
    BY <1>7 DEF rows, Database
  <1>9. \A s \in Source : e.pending[s] = Cardinality(LiveOf(e, s))
    <2>1. LiveOf(e, src) = LiveOf(d, src) \ {i} /\ i \in LiveOf(d, src)
      BY <1>3, <1>8 DEF LiveOf
    <2>2. \A s \in Source : s # src => LiveOf(e, s) = LiveOf(d, s)
      BY <1>8 DEF LiveOf
    <2>3. Cardinality(LiveOf(e, src)) = Cardinality(LiveOf(d, src)) - 1
      BY <2>1, DropOne DEF LiveOf
    <2>4. e.pending[src] = d.pending[src] - 1
          /\ \A s \in Source : s # src => e.pending[s] = d.pending[s]
      BY <1>1, <1>7 DEF pend, Database
    <2> QED
      BY <1>1, <2>2, <2>3, <2>4 DEF Sound, Exact
  <1>10. {k \in Id : Present(e.row[k])} = {k \in Id : Present(d.row[k])}
    BY <1>2, <1>3, <1>8 DEF RowOrdered
  <1>11. e.acked = Cardinality({k \in Id : Present(e.row[k]) /\ ~Live(e.row[k])})
    <2> DEFINE S == {k \in Id : Present(d.row[k]) /\ ~Live(d.row[k])}
    <2>1. {k \in Id : Present(e.row[k]) /\ ~Live(e.row[k])} = S \cup {i}
      BY <1>2, <1>3, <1>8 DEF RowOrdered
    <2>2. S \in SUBSET Id /\ i \notin S
      OBVIOUS
    <2>3. d.acked = Cardinality(S)
      BY DEF Sound, Exact
    <2> HIDE DEF S
    <2> QED
      BY <1>7, <2>1, <2>2, <2>3, AddOne DEF ackd
  <1>12. Exact(e)
    BY <1>7, <1>9, <1>10, <1>11 DEF Sound, Exact
  <1>13. (\A k \in Id : RowOrdered(e.row[k])) /\ TurnsOrdered(e)
    BY <1>3, <1>7, <1>8 DEF Sound, TurnsOrdered
  <1> QED
    BY <1>6, <1>8, <1>12, <1>13 DEF Sound, e, nr

\* Replacing one live row by a live row of the same identity keeps the database
\* sound: this is what retry does, and damage on disk.
LEMMA ReplaceRowSound ==
    ASSUME NEW d \in Database, Sound(d), NEW i \in Id, NEW r \in Row,
           Live(d.row[i]), Live(r), RowOrdered(r)
    PROVE  LET e == [d EXCEPT !.row[i] = r]
           IN  /\ e \in Database /\ Sound(e) /\ e.row[i] = r
               /\ \A k \in Id : k # i => e.row[k] = d.row[k]
  <1> DEFINE rows == [d.row EXCEPT ![i] = r]
             e == [d EXCEPT !.row = rows]
  <1>1. rows \in [Id -> Row]
    BY DEF Database
  <1>2. [d EXCEPT !.row[i] = r] = e
    BY DEF Database
  <1> HIDE DEF rows
  <1>3. e \in Database
    BY <1>1 DEF Database
  <1>4. /\ e.row = rows /\ e.pending = d.pending /\ e.accepted = d.accepted
        /\ e.ticket = d.ticket /\ e.passed = d.passed /\ e.acked = d.acked
    BY DEF Database
  <1> HIDE DEF e
  <1>5. e.row[i] = r /\ \A k \in Id : k # i => e.row[k] = d.row[k]
    BY <1>4 DEF rows, Database
  <1>6. Present(r) /\ Present(d.row[i])
    BY DEF Sound, RowOrdered
  <1>7. Exact(e) /\ \A k \in Id : RowOrdered(e.row[k])
    BY <1>3, <1>4, <1>6, SameLivenessExact DEF Sound, rows
  <1>8. TurnsOrdered(e)
    BY <1>4 DEF Sound, TurnsOrdered
  <1> QED
    BY <1>2, <1>3, <1>5, <1>7, <1>8 DEF Sound

-----------------------------------------------------------------------------
\* Rows are kept by doing nothing, and from step to step.
LEMMA RowKeptReflexive ==
    ASSUME NEW p \in Row
    PROVE  RowKept(p, p)
  BY DEF RowKept, Row

\* What a transaction keeps of a row is kept by two of them in a row.
LEMMA RowKeptTransitive ==
    ASSUME NEW p \in Row, NEW q \in Row, NEW r \in Row, RowKept(p, q), RowKept(q, r)
    PROVE  RowKept(p, r)
  BY DEF RowKept, Row, Present, Live

\* A receipt that was true of its row stays true when rows are kept.
LEMMA TrueOfKept ==
    ASSUME NEW d \in Database, NEW e \in Database, NEW r \in Receipt,
           RowKept(d.row[r.id], e.row[r.id]), TrueOf(r, d), r.gen <= d.row[r.id].gen
    PROVE  TrueOf(r, e) /\ r.gen <= e.row[r.id].gen
  <1>1. r.id \in Id /\ r.gen \in Nat
    BY DEF Receipt
  <1>2. d.row[r.id] \in Row /\ e.row[r.id] \in Row
    BY <1>1 DEF Database
  <1> QED
    BY <1>1, <1>2 DEF TrueOf, RowKept, Row

\* The initial state satisfies the inductive invariant.
LEMMA JournalInit ==
    InitJournal => JournalInv
  <1> SUFFICES ASSUME InitJournal PROVE JournalInv
    OBVIOUS
  <1>1. Idle \in Transaction
    BY EmptyDatabaseSound DEF Idle, Transaction
  <1>2. JournalTypeOK
    BY <1>1, EmptyDatabaseSound DEF InitJournal, JournalTypeOK
  <1>3. tx.op = "idle"
    BY DEF InitJournal, Idle
  <1> QED
    BY <1>2, <1>3, EmptyDatabaseSound
       DEF InitJournal, JournalInv, TxKeepsRows, AppendTx, LeaseTx

\* The idle transaction is a transaction.
LEMMA IdleType ==
    Idle \in Transaction /\ Idle.op = "idle"
  BY EmptyDatabaseSound DEF Idle, Transaction

\* A step that ends with no open transaction and with a committed database that
\* is sound and keeps all rows preserves the invariant.
LEMMA CommitStep ==
    ASSUME JournalInv, tx' \in Transaction, tx'.op = "idle", issued' \subseteq Receipt,
           db' \in Database, Sound(db'), rot' \in Nat, open' \in BOOLEAN,
           \A i \in Id : RowKept(db.row[i], db'.row[i]),
           \A r \in issued' \ issued : TrueOf(r, db') /\ r.gen <= db'.row[r.id].gen
    PROVE  JournalInv'
  <1>1. \A r \in issued : TrueOf(r, db') /\ r.gen <= db'.row[r.id].gen
    <2> SUFFICES ASSUME NEW r \in issued
                 PROVE  TrueOf(r, db') /\ r.gen <= db'.row[r.id].gen
      OBVIOUS
    <2>1. r \in Receipt /\ db \in Database /\ TrueOf(r, db) /\ r.gen <= db.row[r.id].gen
      BY DEF JournalInv, JournalTypeOK
    <2>2. RowKept(db.row[r.id], db'.row[r.id])
      BY <2>1 DEF Receipt
    <2> QED
      BY <2>1, <2>2, TrueOfKept
  <1> QED
    BY <1>1
       DEF JournalInv, JournalTypeOK, TxKeepsRows, AppendTx, LeaseTx, TrueOf, Sound, Exact,
           LiveOf, TurnsOrdered

\* A step of an open transaction touches nothing committed.
LEMMA OpenStep ==
    ASSUME JournalInv, UNCHANGED <<db, issued, rot, open>>,
           tx' \in Transaction, Sound(tx'.d), TxKeepsRows', AppendTx', LeaseTx'
    PROVE  JournalInv'
  BY DEF JournalInv, JournalTypeOK, TrueOf, Sound, Exact, LiveOf, TurnsOrdered

\* The transaction that an operation opens starts from the committed rows.
LEMMA BeginStep ==
    ASSUME JournalInv, UNCHANGED <<db, issued, rot, open>>,
           tx' \in Transaction, tx'.d = db, tx'.out = {}
    PROVE  JournalInv'
  <1>1. db \in Database /\ Sound(db)
    BY DEF JournalInv, JournalTypeOK
  <1>2. TxKeepsRows'
    <2>1. \A i \in Id : RowKept(db.row[i], db.row[i])
      BY <1>1, RowKeptReflexive DEF Database
    <2> QED
      BY <2>1 DEF TxKeepsRows
  <1>3. AppendTx' /\ LeaseTx'
    BY DEF AppendTx, LeaseTx
  <1> QED
    BY <1>1, <1>2, <1>3, OpenStep

\* append opens its transaction without touching a row.
LEMMA BeginAppendStep ==
    ASSUME JournalInv, NEW n \in 0..MaxBatch, NEW bodies \in [1..n -> Body], NEW t \in Time,
           BeginAppend(bodies, t)
    PROVE  JournalInv'
  <1> DEFINE new == [Idle EXCEPT !.op = "append", !.d = db, !.at = t, !.todo = bodies]
  <1>1. bodies \in Seq(Body)
    BY JournalConstants
  <1>2. db \in Database
    BY DEF JournalInv, JournalTypeOK
  <1>3. new \in Transaction
    BY <1>1, <1>2, IdleType DEF Transaction
  <1>4. new.d = db /\ new.out = {}
    BY DEF Idle
  <1> QED
    BY <1>3, <1>4, BeginStep DEF BeginAppend

\* lease_many opens its transaction without touching a row.
LEMMA BeginLeaseStep ==
    ASSUME JournalInv, NEW t \in Time, NEW limit \in 1..Limit, BeginLease(t, limit)
    PROVE  JournalInv'
  <1> DEFINE new == [Idle EXCEPT !.op = "lease", !.d = db, !.at = t, !.left = limit]
  <1>1. limit \in Nat
    BY JournalConstants
  <1>2. db \in Database
    BY DEF JournalInv, JournalTypeOK
  <1>3. new \in Transaction
    BY <1>1, <1>2, IdleType DEF Transaction
  <1>4. new.d = db /\ new.out = {}
    BY DEF Idle
  <1> QED
    BY <1>3, <1>4, BeginStep DEF BeginLease

\* One row of an append: the counters move exactly when the row is new.
LEMMA InsertNextStep ==
    ASSUME JournalInv, InsertNext
    PROVE  JournalInv'
  <1> DEFINE e == Insert(tx.d, Head(tx.todo), tx.at)
             rest == Tail(tx.todo)
  <1>1. /\ tx \in Transaction /\ tx.op = "append" /\ tx.d \in Database /\ Sound(tx.d)
        /\ db \in Database /\ Sound(db)
    BY DEF JournalInv, JournalTypeOK, InsertNext, Transaction
  <1>2. Head(tx.todo) \in Body /\ rest \in Seq(Body) /\ tx.at \in Nat
    BY <1>1, JournalConstants DEF InsertNext, Transaction
  <1>3. /\ e \in Database /\ Sound(e)
        /\ OnlyInserted(tx.d, e)
    BY <1>1, <1>2, InsertSound
  <1>4. tx' = [tx EXCEPT !.d = e, !.todo = rest]
    BY DEF InsertNext
  <1> HIDE DEF e, rest
  <1>5. tx' \in Transaction
    BY <1>1, <1>2, <1>3, <1>4 DEF Transaction
  <1>6. tx'.op = "append" /\ tx'.d = e
    BY <1>1, <1>4 DEF Transaction
  <1>7. TxKeepsRows'
    <2> SUFFICES ASSUME NEW i \in Id
                 PROVE  /\ RowKept(db.row[i], e.row[i])
                        /\ Live(db.row[i]) => e.row[i].body = db.row[i].body
      BY <1>6 DEF TxKeepsRows, InsertNext
    <2>1. /\ RowKept(db.row[i], tx.d.row[i])
          /\ Live(db.row[i]) => tx.d.row[i].body = db.row[i].body
      BY <1>1 DEF JournalInv, TxKeepsRows
    <2>2. CASE e.row[i] = tx.d.row[i]
      BY <2>1, <2>2
    <2>3. CASE ~Present(tx.d.row[i])
      <3>1. ~Present(db.row[i])
        BY <2>1, <2>3 DEF RowKept
      <3>2. RowOrdered(db.row[i]) /\ db.row[i] \in Row /\ e.row[i] \in Row
        BY <1>1, <1>3 DEF Sound, Database
      <3>3. ~Live(db.row[i]) /\ db.row[i].first = Never /\ db.row[i].gen = 0
        BY <3>1, <3>2 DEF RowOrdered
      <3> QED
        BY <3>1, <3>2, <3>3 DEF RowKept, Row
    <2> QED
      BY <1>3, <2>2, <2>3 DEF OnlyInserted
  <1>8. LeaseTx'
    BY <1>6 DEF LeaseTx
  <1>9. AppendTx'
    <2> SUFFICES ASSUME NEW i \in Id
                 PROVE  \/ e.row[i] = db.row[i]
                        \/ /\ ~Present(db.row[i]) /\ Present(e.row[i]) /\ Live(e.row[i])
                           /\ e.row[i].gen = db.row[i].gen
      BY <1>6 DEF AppendTx, InsertNext
    <2>1. \/ tx.d.row[i] = db.row[i]
          \/ /\ ~Present(db.row[i]) /\ Present(tx.d.row[i]) /\ Live(tx.d.row[i])
             /\ tx.d.row[i].gen = db.row[i].gen
      BY <1>1 DEF JournalInv, AppendTx
    <2>2. ~Present(db.row[i]) => db.row[i].gen = 0
      BY <1>1 DEF Sound, RowOrdered
    <2> QED
      BY <1>3, <2>1, <2>2 DEF OnlyInserted
  <1> QED
    BY <1>3, <1>5, <1>6, <1>7, <1>8, <1>9, OpenStep DEF InsertNext

\* One turn of _lease_one: the row, its source's ticket and the batch stay in step.
LEMMA LeaseOneStep ==
    ASSUME JournalInv, NEW i \in Id, NEW u \in Source, LeaseOne(i, tx.d.ticket[u])
    PROVE  JournalInv'
  <1> DEFINE m == tx.d.ticket[u]
             e == LeaseRow(tx.d, i, tx.at, m)
             new == ReceiptOf(i, e.row[i])
             lft == tx.left - 1
             outs == tx.out \cup {new}
  <1>1. /\ tx \in Transaction /\ tx.op = "lease" /\ tx.d \in Database /\ Sound(tx.d)
        /\ db \in Database /\ Sound(db) /\ tx.left \in Nat /\ tx.left > 0
        /\ tx.at \in Nat /\ m \in Nat
    <2>1. /\ tx \in Transaction /\ tx.op = "lease" /\ db \in Database
          /\ tx.left > 0 /\ Sound(db) /\ Sound(tx.d)
      BY DEF JournalInv, JournalTypeOK, LeaseOne
    <2>2. tx.d \in Database /\ tx.left \in Nat /\ tx.at \in Time \cup {0}
      BY <2>1 DEF Transaction
    <2>3. m \in Nat
      BY <2>2 DEF Database
    <2>4. tx.at \in Nat
      <3>1. Time \cup {0} \subseteq Nat
        BY JournalConstants
      <3> QED
        BY <2>2, <3>1
    <2> QED
      BY <2>1, <2>2, <2>3, <2>4
  <1>2. Turn(tx.d, i, tx.at) /\ TopTicket(tx.d, m) /\ Intact(i, tx.d.row[i])
    BY DEF LeaseOne
  <1>3. /\ e \in Database /\ Sound(e)
        /\ e.row[i] = LeasedRow(tx.d.row[i], tx.at)
        /\ \A j \in Id : j # i => e.row[j] = tx.d.row[j]
    BY <1>1, <1>2, LeaseRowSound
  <1>4. tx' = [tx EXCEPT !.d = e, !.left = lft, !.out = outs]
    BY DEF LeaseOne
  <1>5. /\ Live(tx.d.row[i]) /\ tx.d.row[i].due <= tx.at
        /\ tx.d.row[i] \in Row /\ RowOrdered(tx.d.row[i])
    BY <1>1, <1>2 DEF Turn, RowTurn, Ready, Database, Sound
  <1>6. /\ e.row[i] \in Row /\ RowOrdered(e.row[i]) /\ RowKept(tx.d.row[i], e.row[i])
        /\ e.row[i].body = tx.d.row[i].body /\ e.row[i].hash = tx.d.row[i].hash
        /\ e.row[i].gen = tx.d.row[i].gen + 1 /\ e.row[i].due > tx.at
        /\ e.row[i].first # Never
    BY <1>1, <1>3, <1>5, LeasedRowOrdered
  <1> HIDE DEF e, m
  <1>7. /\ new \in Receipt /\ new.id = i /\ new.hash = e.row[i].hash
        /\ new.at = e.row[i].at /\ new.first = e.row[i].first /\ new.gen = e.row[i].gen
    BY <1>6 DEF ReceiptOf, Receipt, Row
  <1> HIDE DEF new
  <1>8. lft \in Nat /\ outs \in SUBSET Receipt
    BY <1>1, <1>7 DEF Transaction
  <1> HIDE DEF lft
  <1>9. tx' \in Transaction
    <2> HIDE DEF outs
    <2> QED
      BY <1>1, <1>3, <1>4, <1>8 DEF Transaction
  <1>10. tx'.op = "lease" /\ tx'.d = e /\ tx'.out = outs /\ tx'.at = tx.at
    BY <1>1, <1>4 DEF Transaction
  <1>11. db' = db
    BY DEF LeaseOne
  <1>12. \A j \in Id : tx.d.row[j] \in Row /\ db.row[j] \in Row /\ e.row[j] \in Row
    BY <1>1, <1>3 DEF Database
  <1>13. TxKeepsRows'
    <2> SUFFICES ASSUME NEW j \in Id
                 PROVE  /\ RowKept(db.row[j], e.row[j])
                        /\ Live(db.row[j]) => e.row[j].body = db.row[j].body
      BY <1>10, <1>11 DEF TxKeepsRows
    <2>1. /\ RowKept(db.row[j], tx.d.row[j])
          /\ Live(db.row[j]) => tx.d.row[j].body = db.row[j].body
      BY <1>1 DEF JournalInv, TxKeepsRows
    <2>2. CASE j = i
      BY <1>6, <1>12, <2>1, <2>2, RowKeptTransitive
    <2>3. CASE j # i
      BY <1>3, <2>1, <2>3
    <2> QED
      BY <2>2, <2>3
  <1>14. tx.d.row[i] = db.row[i]
    BY <1>1, <1>5 DEF JournalInv, LeaseTx, Row
  <1>15. \A r \in tx.out : r.id # i /\ r.id \in Id
    <2> SUFFICES ASSUME NEW r \in tx.out PROVE r.id # i /\ r.id \in Id
      OBVIOUS
    <2>1. r \in Receipt
      BY <1>1 DEF Transaction
    <2>2. r.gen = tx.d.row[r.id].gen /\ r.gen = db.row[r.id].gen + 1
      BY <1>1 DEF JournalInv, LeaseTx
    <2>3. db.row[i].gen \in Nat
      BY <1>12 DEF Row
    <2>4. r.id \in Id
      BY <2>1 DEF Receipt
    <2>5. ASSUME r.id = i PROVE FALSE
      <3>1. db.row[i].gen = db.row[i].gen + 1
        BY <1>14, <2>2, <2>5
      <3> QED
        BY <2>3, <3>1
    <2> QED
      BY <2>4, <2>5
  <1>16. LeaseTx'
    <2>1. ASSUME NEW j \in Id
          PROVE  \/ e.row[j] = db.row[j]
                 \/ /\ e.row[j].gen = db.row[j].gen + 1
                    /\ e.row[j].due > tx.at
                    /\ e.row[j].body = db.row[j].body /\ Live(db.row[j])
                    /\ \E r \in outs : r.id = j
      <3>1. CASE j = i
        BY <1>5, <1>6, <1>7, <1>14, <3>1
      <3>2. CASE j # i
        BY <1>1, <1>3, <3>2 DEF JournalInv, LeaseTx
      <3> QED
        BY <3>1, <3>2
    <2>2. ASSUME NEW r \in outs
          PROVE  /\ TrueOf(r, e)
                 /\ r.gen = e.row[r.id].gen
                 /\ r.gen = db.row[r.id].gen + 1
                 /\ db.row[r.id].body = r.hash
      <3>1. CASE r = new
        <4>1. e.row[i].hash # Null
          BY <1>5, <1>6 DEF RowOrdered, Present
        <4> QED
          BY <1>2, <1>6, <1>7, <1>14, <3>1, <4>1 DEF TrueOf, Present, Intact
      <3>2. CASE r \in tx.out
        <4>1. r.id # i /\ r.id \in Id
          BY <1>15, <3>2
        <4> QED
          BY <1>1, <1>3, <3>2, <4>1 DEF JournalInv, LeaseTx, TrueOf
      <3> QED
        BY <3>1, <3>2
    <2> QED
      BY <1>10, <1>11, <2>1, <2>2 DEF LeaseTx, TrueOf
  <1>17. AppendTx'
    BY <1>10 DEF AppendTx
  <1> QED
    BY <1>3, <1>9, <1>10, <1>13, <1>16, <1>17, OpenStep DEF LeaseOne

\* A commit publishes the transaction's rows, whether or not the caller hears of it.
LEMMA CommitTxStep ==
    ASSUME JournalInv, tx.op # "idle", db' = tx.d, tx' = Idle,
           UNCHANGED <<rot, open>>,
           \/ issued' = issued
           \/ tx.op = "lease" /\ issued' = issued \cup tx.out
    PROVE  JournalInv'
  <1>1. /\ tx \in Transaction /\ tx.d \in Database /\ Sound(tx.d) /\ db \in Database
        /\ issued \subseteq Receipt /\ tx.out \subseteq Receipt
    BY DEF JournalInv, JournalTypeOK, Transaction
  <1>2. \A i \in Id : RowKept(db.row[i], tx.d.row[i])
    BY DEF JournalInv, TxKeepsRows
  <1>3. ASSUME NEW r \in issued' \ issued
        PROVE  TrueOf(r, db') /\ r.gen <= db'.row[r.id].gen
    <2>1. r \in tx.out /\ tx.op = "lease"
      BY <1>3
    <2>2. TrueOf(r, tx.d) /\ r.gen = tx.d.row[r.id].gen
      BY <2>1 DEF JournalInv, LeaseTx
    <2>3. r.gen \in Nat
      BY <1>1, <2>1 DEF Receipt
    <2>4. r.gen <= tx.d.row[r.id].gen
      BY <2>2, <2>3
    <2> QED
      BY <2>2, <2>4 DEF TrueOf
  <1>4. rot' \in Nat /\ open' \in BOOLEAN /\ issued' \subseteq Receipt
    BY <1>1 DEF JournalInv, JournalTypeOK
  <1>5. Sound(db')
    BY <1>1 DEF Sound, Exact, LiveOf, TurnsOrdered
  <1> QED
    BY <1>1, <1>2, <1>3, <1>4, <1>5, IdleType, CommitStep

\* A rollback, by an exception or a crash, restores the committed rows.
LEMMA RollBackStep ==
    ASSUME JournalInv, RollBack
    PROVE  JournalInv'
  <1>1. /\ db \in Database /\ Sound(db)
        /\ \A i \in Id : RowKept(db.row[i], db.row[i])
    BY RowKeptReflexive DEF JournalInv, JournalTypeOK, Database
  <1>2. tx' = Idle /\ db' = db /\ issued' = issued /\ rot' = rot /\ open' = open
    BY DEF RollBack
  <1>3. Sound(db')
    BY <1>1, <1>2 DEF Sound, Exact, LiveOf, TurnsOrdered
  <1> QED
    BY <1>1, <1>2, <1>3, IdleType, CommitStep DEF JournalInv, JournalTypeOK

\* What a matching receipt says of the row it is matched with.
LEMMA MatchedRow ==
    ASSUME JournalInv, NEW b \in Body, NEW r \in issued, Match(db, b, r)
    PROVE  /\ r.id \in Id /\ db.row[r.id] \in Row /\ RowOrdered(db.row[r.id])
           /\ Live(db.row[r.id]) /\ db.row[r.id].first # Never
           /\ db.row[r.id].first = r.first
  <1>1. r \in Receipt /\ TrueOf(r, db) /\ db \in Database /\ Sound(db)
    BY DEF JournalInv, JournalTypeOK
  <1>2. r.id \in Id
    BY <1>1 DEF Receipt
  <1> QED
    BY <1>1, <1>2 DEF Match, TrueOf, Database, Sound

\* acknowledge removes one body and counts it once.
LEMMA AcknowledgeStep ==
    ASSUME JournalInv, NEW b \in Body, NEW r \in issued, NEW j \in Job, NEW t \in Time,
           Acknowledge(b, r, j, t)
    PROVE  JournalInv'
  <1> DEFINE i == r.id
             e == AckRow(db, i, j, t)
  <1>1. /\ db \in Database /\ Sound(db) /\ t \in Nat
        /\ tx \in Transaction /\ tx.op = "idle"
        /\ rot \in Nat /\ open \in BOOLEAN /\ issued \subseteq Receipt
    BY JournalConstants DEF JournalInv, JournalTypeOK, Acknowledge
  <1>2. /\ i \in Id /\ db.row[i] \in Row /\ RowOrdered(db.row[i]) /\ Live(db.row[i])
        /\ db.row[i].first # Never /\ db.row[i].first <= t
    <2>1. r.first <= t
      <3>1. r.first \in Int /\ t >= r.first
        BY DEF Acknowledge, JournalInv, JournalTypeOK, Receipt
      <3> QED
        BY <1>1, <3>1
    <2> QED
      BY <2>1, MatchedRow DEF Acknowledge
  <1>3. /\ e \in Database /\ Sound(e) /\ e.row[i] = AckedRow(db.row[i], j, t)
        /\ \A k \in Id : k # i => e.row[k] = db.row[k]
    BY <1>1, <1>2, AckRowSound
  <1>4. RowKept(db.row[i], e.row[i])
    BY <1>1, <1>2, <1>3, AckedRowOrdered
  <1>5. db' = e /\ tx' = tx /\ issued' = issued /\ rot' = rot /\ open' = open
    BY DEF Acknowledge
  <1> HIDE DEF e, i
  <1>6. \A k \in Id : RowKept(db.row[k], e.row[k])
    BY <1>1, <1>3, <1>4, RowKeptReflexive DEF Database
  <1>7. Sound(db')
    BY <1>3, <1>5 DEF Sound, Exact, LiveOf, TurnsOrdered
  <1> QED
    BY <1>1, <1>3, <1>5, <1>6, <1>7, CommitStep

\* retry moves only the due time of the row.
LEMMA RetryStep ==
    ASSUME JournalInv, NEW b \in Body, NEW r \in issued, NEW t \in Time, Retry(b, r, t)
    PROVE  JournalInv'
  <1> DEFINE i == r.id
             nr == DelayedRow(db.row[i], t)
             e == [db EXCEPT !.row[i] = nr]
  <1>1. /\ db \in Database /\ Sound(db) /\ t \in Nat
        /\ tx \in Transaction /\ tx.op = "idle"
        /\ rot \in Nat /\ open \in BOOLEAN /\ issued \subseteq Receipt
    BY JournalConstants DEF JournalInv, JournalTypeOK, Retry
  <1>2. /\ i \in Id /\ db.row[i] \in Row /\ RowOrdered(db.row[i]) /\ Live(db.row[i])
        /\ db.row[i].first # Never
    BY MatchedRow DEF Retry
  <1>3. nr \in Row /\ RowOrdered(nr) /\ RowKept(db.row[i], nr) /\ Live(nr)
    BY <1>1, <1>2, DelayedRowOrdered DEF Live
  <1>4. db' = e /\ tx' = tx /\ issued' = issued /\ rot' = rot /\ open' = open
    BY DEF Retry, RetryRow
  <1> HIDE DEF i, nr
  <1>5. /\ e \in Database /\ Sound(e) /\ e.row[i] = nr
        /\ \A k \in Id : k # i => e.row[k] = db.row[k]
    BY <1>1, <1>2, <1>3, ReplaceRowSound
  <1> HIDE DEF e
  <1>6. \A k \in Id : RowKept(db.row[k], e.row[k])
    BY <1>1, <1>3, <1>5, RowKeptReflexive DEF Database
  <1>7. Sound(db')
    BY <1>4, <1>5 DEF Sound, Exact, LiveOf, TurnsOrdered
  <1> QED
    BY <1>1, <1>4, <1>5, <1>6, <1>7, CommitStep

\* Damage to a stored body changes nothing the invariant speaks of but the body.
LEMMA RotStep ==
    ASSUME JournalInv, NEW i \in Id, NEW b \in Body \cup {Garbled}, Rot(i, b)
    PROVE  JournalInv'
  <1> DEFINE nr == [db.row[i] EXCEPT !.body = b]
             e == [db EXCEPT !.row[i] = nr]
  <1>1. /\ db \in Database /\ Sound(db) /\ Live(db.row[i])
        /\ db.row[i] \in Row /\ RowOrdered(db.row[i])
        /\ tx \in Transaction /\ tx.op = "idle"
        /\ rot \in Nat /\ open \in BOOLEAN /\ issued \subseteq Receipt
    BY DEF JournalInv, JournalTypeOK, Rot, Database, Sound
  <1>2. nr \in Row /\ RowOrdered(nr) /\ RowKept(db.row[i], nr) /\ Live(nr)
    BY <1>1, RottenRowOrdered
  <1>3. db' = e /\ tx' = tx /\ issued' = issued /\ rot' = rot + 1 /\ open' = open
    BY DEF Rot
  <1> HIDE DEF nr
  <1>4. /\ e \in Database /\ Sound(e) /\ e.row[i] = nr
        /\ \A k \in Id : k # i => e.row[k] = db.row[k]
    BY <1>1, <1>2, ReplaceRowSound
  <1> HIDE DEF e
  <1>5. \A k \in Id : RowKept(db.row[k], e.row[k])
    BY <1>1, <1>2, <1>4, RowKeptReflexive DEF Database
  <1>6. Sound(db')
    BY <1>3, <1>4 DEF Sound, Exact, LiveOf, TurnsOrdered
  <1> QED
    BY <1>1, <1>3, <1>4, <1>5, <1>6, CommitStep

\* A step that changes nothing but whether the connection is open.
LEMMA OpenCloseStep ==
    ASSUME JournalInv, open' \in BOOLEAN, UNCHANGED <<db, tx, issued, rot>>
    PROVE  JournalInv'
  BY DEF JournalInv, JournalTypeOK, TxKeepsRows, AppendTx, LeaseTx, TrueOf, Sound, Exact,
         LiveOf, TurnsOrdered

\* Every step of the journal preserves the inductive invariant.
LEMMA JournalStep ==
    JournalInv /\ [NextJournal]_jvars => JournalInv'
  <1> SUFFICES ASSUME JournalInv, [NextJournal]_jvars PROVE JournalInv'
    OBVIOUS
  <1>1. ASSUME NEW n \in 0..MaxBatch, NEW bodies \in [1..n -> Body], NEW t \in Time,
               BeginAppend(bodies, t)
        PROVE  JournalInv'
    BY <1>1, BeginAppendStep
  <1>2. CASE InsertNext
    BY <1>2, InsertNextStep
  <1>3. CASE CommitAppend
    BY <1>3, CommitTxStep DEF CommitAppend
  <1>4. ASSUME NEW t \in Time, NEW limit \in 1..Limit, BeginLease(t, limit)
        PROVE  JournalInv'
    BY <1>4, BeginLeaseStep
  <1>5. ASSUME NEW i \in Id, NEW u \in Source, LeaseOne(i, tx.d.ticket[u])
        PROVE  JournalInv'
    BY <1>5, LeaseOneStep
  <1>6. CASE CommitLease
    BY <1>6, CommitTxStep DEF CommitLease, LeaseEnds
  <1>7. CASE CommitLeaseLost
    BY <1>7, CommitTxStep DEF CommitLeaseLost, LeaseEnds
  <1>8. CASE RollBack
    BY <1>8, RollBackStep
  <1>9. ASSUME NEW b \in Body, NEW r \in issued, NEW j \in Job, NEW t \in Time,
               Acknowledge(b, r, j, t)
        PROVE  JournalInv'
    BY <1>9, AcknowledgeStep
  <1>10. ASSUME NEW b \in Body, NEW r \in issued, NEW t \in Time, Retry(b, r, t)
         PROVE  JournalInv'
    BY <1>10, RetryStep
  <1>11. ASSUME NEW i \in Id, NEW b \in Body \cup {Garbled}, Rot(i, b)
         PROVE  JournalInv'
    BY <1>11, RotStep
  <1>12. CASE Close
    BY <1>12, OpenCloseStep DEF Close
  <1>13. CASE Reopen
    BY <1>13, OpenCloseStep DEF Reopen
  <1>14. CASE UNCHANGED jvars
    BY <1>14, OpenCloseStep DEF jvars, JournalInv, JournalTypeOK
  <1> QED
    BY <1>1, <1>2, <1>3, <1>4, <1>5, <1>6, <1>7, <1>8, <1>9, <1>10, <1>11, <1>12, <1>13,
       <1>14 DEF NextJournal

\* The inductive invariant holds in every reachable state.
THEOREM JournalInvariant == SpecJournal => []JournalInv
  BY JournalInit, JournalStep, PTL DEF SpecJournal

-----------------------------------------------------------------------------
\* Type correctness of the journal.
THEOREM TypeCorrect == SpecJournal => []JournalTypeOK
  <1>1. JournalInv => JournalTypeOK
    BY DEF JournalInv
  <1> QED
    BY <1>1, JournalInvariant, PTL

\* The redundant counters agree with the rows, committed and in flight: a source
\* with an undelivered row is never skipped because its pending count ran low.
THEOREM CountersAlwaysExact == SpecJournal => []CountersExact
  <1>1. JournalInv => CountersExact
    BY DEF JournalInv, CountersExact, Sound
  <1> QED
    BY <1>1, JournalInvariant, PTL

\* What a lease once reported of a row stays true of it.
THEOREM ReceiptsStayTruthful == SpecJournal => []ReceiptsTruthful
  <1>1. JournalInv => ReceiptsTruthful
    BY DEF JournalInv, ReceiptsTruthful, TrueOf
  <1> QED
    BY <1>1, JournalInvariant, PTL

\* Acceptance, first delivery and acknowledgement are in clock order.
THEOREM ClocksOrdered == SpecJournal => []ClockOrder
  <1>1. JournalInv => ClockOrder
    BY DEF JournalInv, ClockOrder, Sound, RowOrdered
  <1> QED
    BY <1>1, JournalInvariant, PTL

\* Round robin: a due source is passed at most once by each other source.
THEOREM OvertakingBounded == SpecJournal => []BoundedOvertaking
  <1>1. JournalInv => BoundedOvertaking
    BY DEF JournalInv, BoundedOvertaking, Sound, TurnsOrdered
  <1> QED
    BY <1>1, JournalInvariant, PTL

\* A batch leases each row at most once and returns every row it leased.
THEOREM BatchLeasesOnce == SpecJournal => []OneLeasePerBatch
  <1>1. JournalInv => OneLeasePerBatch
    <2> SUFFICES ASSUME JournalInv, tx.op = "lease"
                 PROVE  /\ \A r \in tx.out : /\ tx.d.row[r.id].gen = r.gen
                                             /\ r.gen = db.row[r.id].gen + 1
                                             /\ db.row[r.id].body = r.hash
                        /\ \A i \in Id : tx.d.row[i].gen # db.row[i].gen
                                            => \E r \in tx.out : r.id = i
      BY DEF OneLeasePerBatch
    <2>1. \A r \in tx.out : /\ tx.d.row[r.id].gen = r.gen
                            /\ r.gen = db.row[r.id].gen + 1
                            /\ db.row[r.id].body = r.hash
      BY DEF JournalInv, LeaseTx
    <2>2. \A i \in Id : tx.d.row[i].gen # db.row[i].gen => \E r \in tx.out : r.id = i
      BY DEF JournalInv, LeaseTx
    <2> QED
      BY <2>1, <2>2
  <1> QED
    BY <1>1, JournalInvariant, PTL

\* The steps that commit something, and what they do to the rows.
LEMMA RowStep ==
    ASSUME JournalInv, [NextJournal]_jvars, NEW i \in Id
    PROVE  /\ RowKept(db.row[i], db'.row[i])
           /\ Live(db.row[i]) /\ ~Live(db'.row[i]) =>
                 \E r \in issued : /\ r.id = i /\ r.gen = db.row[i].gen
                                   /\ r.hash = db.row[i].body
  <1>1. /\ db \in Database /\ Sound(db) /\ tx \in Transaction
        /\ db.row[i] \in Row /\ RowOrdered(db.row[i]) /\ RowKept(db.row[i], db.row[i])
    <2>1. db \in Database /\ Sound(db) /\ tx \in Transaction
      BY DEF JournalInv, JournalTypeOK
    <2> QED
      BY <2>1, RowKeptReflexive DEF Database, Sound
  <1>2. CASE db' = db
    BY <1>1, <1>2
  <1>3. ASSUME tx.op # "idle", db' = tx.d
        PROVE  RowKept(db.row[i], db'.row[i]) /\ (Live(db.row[i]) => Live(db'.row[i]))
    BY <1>3 DEF JournalInv, TxKeepsRows, Live
  <1>4. ASSUME NEW b \in Body, NEW r \in issued, NEW j \in Job, NEW t \in Time,
               Acknowledge(b, r, j, t)
        PROVE  /\ RowKept(db.row[i], db'.row[i])
               /\ ~Live(db'.row[i]) /\ Live(db.row[i]) =>
                     r.id = i /\ r.gen = db.row[i].gen /\ r.hash = db.row[i].body
    <2>1. /\ r.id \in Id /\ db.row[r.id] \in Row /\ RowOrdered(db.row[r.id])
          /\ Live(db.row[r.id]) /\ db.row[r.id].first # Never
          /\ db.row[r.id].first = r.first
      BY <1>4, MatchedRow DEF Acknowledge
    <2>2. t \in Nat /\ r.first <= t
      <3>1. r.first \in Int /\ t >= r.first
        BY <1>4 DEF Acknowledge, JournalInv, JournalTypeOK, Receipt
      <3>2. t \in Nat
        BY JournalConstants
      <3> QED
        BY <3>1, <3>2
    <2>3. /\ db'.row[r.id] = AckedRow(db.row[r.id], j, t)
          /\ \A k \in Id : k # r.id => db'.row[k] = db.row[k]
      BY <1>1, <1>4, <2>1, <2>2, AckRowSound DEF Acknowledge
    <2>4. RowKept(db.row[r.id], db'.row[r.id])
      BY <2>1, <2>2, <2>3, AckedRowOrdered
    <2>5. r.gen = db.row[r.id].gen /\ r.hash = db.row[r.id].body
      BY <1>4 DEF Acknowledge, Match
    <2> QED
      BY <1>1, <2>3, <2>4, <2>5
  <1>5. ASSUME NEW b \in Body, NEW r \in issued, NEW t \in Time, Retry(b, r, t)
        PROVE  RowKept(db.row[i], db'.row[i]) /\ (Live(db.row[i]) => Live(db'.row[i]))
    <2>1. /\ r.id \in Id /\ db.row[r.id] \in Row /\ RowOrdered(db.row[r.id])
          /\ Live(db.row[r.id]) /\ db.row[r.id].first # Never
      BY <1>5, MatchedRow DEF Retry
    <2> DEFINE nr == DelayedRow(db.row[r.id], t)
    <2>2. nr \in Row /\ RowOrdered(nr) /\ RowKept(db.row[r.id], nr) /\ Live(nr)
      BY <2>1, DelayedRowOrdered, JournalConstants DEF Live
    <2>3. db' = [db EXCEPT !.row[r.id] = nr]
      BY <1>5 DEF Retry, RetryRow
    <2> HIDE DEF nr
    <2>4. db'.row[r.id] = nr /\ \A k \in Id : k # r.id => db'.row[k] = db.row[k]
      BY <1>1, <2>1, <2>2, <2>3, ReplaceRowSound
    <2> QED
      BY <1>1, <2>2, <2>4
  <1>6. ASSUME NEW k \in Id, NEW b \in Body \cup {Garbled}, Rot(k, b)
        PROVE  RowKept(db.row[i], db'.row[i]) /\ (Live(db.row[i]) => Live(db'.row[i]))
    <2> DEFINE nr == [db.row[k] EXCEPT !.body = b]
    <2>1. db.row[k] \in Row /\ RowOrdered(db.row[k]) /\ Live(db.row[k])
      BY <1>1, <1>6 DEF Rot, Database, Sound
    <2>2. nr \in Row /\ RowOrdered(nr) /\ RowKept(db.row[k], nr) /\ Live(nr)
      BY <2>1, RottenRowOrdered
    <2>3. db' = [db EXCEPT !.row[k] = nr]
      BY <1>6 DEF Rot
    <2> HIDE DEF nr
    <2>4. db'.row[k] = nr /\ \A q \in Id : q # k => db'.row[q] = db.row[q]
      BY <1>1, <2>1, <2>2, <2>3, ReplaceRowSound
    <2> QED
      BY <1>1, <2>2, <2>4
  <1>7. \/ db' = db
        \/ tx.op # "idle" /\ db' = tx.d
        \/ \E b \in Body, r \in issued, j \in Job, t \in Time : Acknowledge(b, r, j, t)
        \/ \E b \in Body, r \in issued, t \in Time : Retry(b, r, t)
        \/ \E k \in Id, b \in Body \cup {Garbled} : Rot(k, b)
    BY DEF NextJournal, jvars, BeginAppend, InsertNext, CommitAppend, BeginLease, LeaseOne,
           CommitLease, CommitLeaseLost, LeaseEnds, RollBack, Close, Reopen
  <1> QED
    BY <1>2, <1>3, <1>4, <1>5, <1>6, <1>7

\* Only the holder of a row's latest generation can take its body away.
THEOREM AckAlwaysFenced == SpecJournal => AckFenced
  <1>1. JournalInv /\ [NextJournal]_jvars =>
          [\A i \in Id : Live(db.row[i]) /\ ~Live(db'.row[i]) =>
             \E r \in issued : /\ r.id = i /\ r.gen = db.row[i].gen
                               /\ r.hash = db.row[i].body]_jvars
    BY RowStep
  <1> QED
    BY <1>1, JournalInvariant, PTL DEF SpecJournal, AckFenced

\* Accepted observations are never evicted or rewritten, acknowledged ones never
\* come back.
THEOREM RowsArePermanent == SpecJournal => RowsPermanent
  <1>1. JournalInv /\ [NextJournal]_jvars =>
          [\A i \in Id : RowKept(db.row[i], db'.row[i])]_jvars
    BY RowStep
  <1> QED
    BY <1>1, JournalInvariant, PTL DEF SpecJournal, RowsPermanent

-----------------------------------------------------------------------------
(***************************************************************************)
(* The journal implements IntakeLog.                                       *)
(***************************************************************************)

\* A committed append is one Accept.
LEMMA AppendIsAccept ==
    ASSUME JournalInv, CommitAppend
    PROVE  \E S \in SUBSET Id : Log!Accept(S)
  <1> DEFINE S == {i \in Id : tx.d.row[i] # db.row[i]}
  <1>1. \A i \in Id : \/ tx.d.row[i] = db.row[i]
                      \/ /\ ~Present(db.row[i]) /\ Present(tx.d.row[i]) /\ Live(tx.d.row[i])
                         /\ tx.d.row[i].gen = db.row[i].gen
    BY DEF JournalInv, AppendTx, CommitAppend
  <1>2. db' = tx.d /\ issued' = issued
    BY DEF CommitAppend
  <1>3. \A i \in S : LogState[i] = "absent"
    BY <1>1 DEF LogState
  <1>4. LogState' = [i \in Id |-> IF i \in S THEN "pending" ELSE LogState[i]]
    BY <1>1, <1>2 DEF LogState
  <1>5. LogGen' = LogGen
    BY <1>1, <1>2 DEF LogGen
  <1>6. LogHolds' = LogHolds
    BY <1>2 DEF LogHolds
  <1>7. Log!Accept(S)
    BY <1>3, <1>4, <1>5, <1>6 DEF Log!Accept
  <1> QED
    BY <1>7

\* A committed batch of leases, returned or lost, is one Lease.
LEMMA LeaseIsLease ==
    ASSUME JournalInv, CommitLease \/ CommitLeaseLost
    PROVE  \E S \in SUBSET Id : Log!Lease(S)
  <1> DEFINE S == {i \in Id : tx.d.row[i].gen # db.row[i].gen}
  <1>1. tx.op = "lease" /\ db' = tx.d
    BY DEF CommitLease, CommitLeaseLost, LeaseEnds
  <1>2. db \in Database /\ tx.d \in Database /\ tx.out \subseteq Receipt
    BY DEF JournalInv, JournalTypeOK, Transaction
  <1>3. \A i \in Id : db.row[i].gen \in Nat
    BY <1>2 DEF Database, Row
  <1>4. \A i \in Id :
           \/ tx.d.row[i] = db.row[i]
           \/ /\ tx.d.row[i].gen = db.row[i].gen + 1
              /\ tx.d.row[i].body = db.row[i].body /\ Live(db.row[i])
              /\ \E r \in tx.out : r.id = i
    BY <1>1 DEF JournalInv, LeaseTx
  <1>5. \A r \in tx.out : /\ r.id \in Id /\ r.gen = tx.d.row[r.id].gen
                          /\ r.gen = db.row[r.id].gen + 1
    BY <1>1, <1>2 DEF JournalInv, LeaseTx, Receipt
  <1>6. \A i \in Id : Present(db.row[i]) => Present(tx.d.row[i])
    BY <1>1 DEF JournalInv, TxKeepsRows, RowKept
  <1>7. \A i \in Id : Live(db.row[i]) => Present(db.row[i])
    BY DEF JournalInv, Sound, RowOrdered
  <1>8. \A i \in S : LogState[i] = "pending"
    BY <1>4, <1>7 DEF LogState
  <1>9. LogState' = LogState
    <2>1. \A i \in Id : /\ Present(tx.d.row[i]) <=> Present(db.row[i])
                        /\ Live(tx.d.row[i]) <=> Live(db.row[i])
      BY <1>4, <1>6, <1>7 DEF Live
    <2> QED
      BY <1>1, <2>1 DEF LogState
  <1>10. \A i \in Id :
           tx.d.row[i].gen = IF i \in S THEN db.row[i].gen + 1 ELSE db.row[i].gen
    BY <1>4
  <1>11. LogGen' = [i \in Id |-> IF i \in S THEN LogGen[i] + 1 ELSE LogGen[i]]
    BY <1>1, <1>10 DEF LogGen
  <1>12. LogHolds' \in {LogHolds, LogHolds \cup {<<i, LogGen[i] + 1>> : i \in S}}
    <2>1. CASE CommitLeaseLost
      BY <2>1 DEF CommitLeaseLost, LogHolds
    <2>2. CASE CommitLease
      <3>1. {<<r.id, r.gen>> : r \in tx.out} = {<<i, LogGen[i] + 1>> : i \in S}
        <4>1. ASSUME NEW r \in tx.out
              PROVE  r.id \in S /\ <<r.id, r.gen>> = <<r.id, LogGen[r.id] + 1>>
          <5>1. r.id \in Id /\ r.gen = tx.d.row[r.id].gen /\ r.gen = db.row[r.id].gen + 1
            BY <1>5
          <5>2. tx.d.row[r.id].gen # db.row[r.id].gen
            BY <1>3, <5>1
          <5> QED
            BY <5>1, <5>2 DEF LogGen
        <4>2. ASSUME NEW i \in S
              PROVE  \E r \in tx.out : <<r.id, r.gen>> = <<i, LogGen[i] + 1>>
          BY <1>4, <1>5 DEF LogGen
        <4> QED
          BY <4>1, <4>2
      <3>2. LogHolds' = LogHolds \cup {<<r.id, r.gen>> : r \in tx.out}
        BY <2>2 DEF CommitLease, LogHolds
      <3> QED
        BY <3>1, <3>2
    <2> QED
      BY <2>1, <2>2
  <1>13. Log!Lease(S)
    BY <1>8, <1>9, <1>11, <1>12 DEF Log!Lease
  <1> QED
    BY <1>13

\* An acknowledgement is one Ack.
LEMMA AcknowledgeIsAck ==
    ASSUME JournalInv, NEW b \in Body, NEW r \in issued, NEW j \in Job, NEW t \in Time,
           Acknowledge(b, r, j, t)
    PROVE  \E i \in Id : Log!Ack(i)
  <1>1. /\ r.id \in Id /\ db.row[r.id] \in Row /\ RowOrdered(db.row[r.id])
        /\ Live(db.row[r.id]) /\ db.row[r.id].first # Never
        /\ db.row[r.id].first = r.first
    BY MatchedRow DEF Acknowledge
  <1>2. t \in Nat /\ r.first <= t
    <2>1. r.first \in Int /\ t >= r.first
      BY DEF Acknowledge, JournalInv, JournalTypeOK, Receipt
    <2>2. t \in Nat
      BY JournalConstants
    <2> QED
      BY <2>1, <2>2
  <1>3. db \in Database /\ Sound(db)
    BY DEF JournalInv, JournalTypeOK
  <1>4. /\ db'.row[r.id] = AckedRow(db.row[r.id], j, t)
        /\ \A k \in Id : k # r.id => db'.row[k] = db.row[k]
    BY <1>1, <1>2, <1>3, AckRowSound DEF Acknowledge
  <1>5. /\ ~Live(db'.row[r.id]) /\ Present(db'.row[r.id])
        /\ db'.row[r.id].gen = db.row[r.id].gen
    BY <1>1, <1>2, <1>4, AckedRowOrdered
  <1>6. Present(db.row[r.id])
    BY <1>1 DEF RowOrdered
  <1>7. LogState[r.id] = "pending"
    BY <1>1, <1>6 DEF LogState
  <1>8. LogState' = [LogState EXCEPT ![r.id] = "acked"]
    BY <1>1, <1>4, <1>5 DEF LogState
  <1>9. LogGen' = LogGen
    BY <1>4, <1>5 DEF LogGen
  <1>10. issued' = issued /\ r.gen = db.row[r.id].gen
    BY DEF Acknowledge, Match
  <1>11. LogHolds' = LogHolds /\ <<r.id, LogGen[r.id]>> \in LogHolds
    BY <1>1, <1>10 DEF LogHolds, LogGen
  <1>12. Log!Ack(r.id)
    BY <1>7, <1>8, <1>9, <1>11 DEF Log!Ack
  <1> QED
    BY <1>1, <1>12

\* A step that keeps presence, liveness and generation of every row, and the
\* receipts, is invisible in IntakeLog.
LEMMA InvisibleStep ==
    ASSUME issued' = issued,
           \A i \in Id : /\ Present(db'.row[i]) <=> Present(db.row[i])
                         /\ Live(db'.row[i]) <=> Live(db.row[i])
                         /\ db'.row[i].gen = db.row[i].gen
    PROVE  UNCHANGED <<LogState, LogGen, LogHolds>>
  <1>1. LogState' = LogState
    BY DEF LogState
  <1>2. LogGen' = LogGen
    BY DEF LogGen
  <1>3. LogHolds' = LogHolds
    BY DEF LogHolds
  <1> QED
    BY <1>1, <1>2, <1>3

\* Every step of the journal is a step of IntakeLog or invisible there.
LEMMA JournalStepIsLogStep ==
    ASSUME JournalInv, [NextJournal]_jvars
    PROVE  [Log!Next]_(Log!logvars)
  <1>1. CASE db' = db /\ issued' = issued
    BY <1>1, InvisibleStep DEF Log!logvars
  <1>2. CASE CommitAppend
    BY <1>2, AppendIsAccept DEF Log!Next
  <1>3. CASE CommitLease \/ CommitLeaseLost
    BY <1>3, LeaseIsLease DEF Log!Next
  <1>4. ASSUME NEW b \in Body, NEW r \in issued, NEW j \in Job, NEW t \in Time,
               Acknowledge(b, r, j, t)
        PROVE  Log!Next
    BY <1>4, AcknowledgeIsAck DEF Log!Next
  <1>5. db \in Database /\ Sound(db)
    BY DEF JournalInv, JournalTypeOK
  <1>6. ASSUME NEW b \in Body, NEW r \in issued, NEW t \in Time, Retry(b, r, t)
        PROVE  UNCHANGED <<LogState, LogGen, LogHolds>>
    <2>1. /\ r.id \in Id /\ db.row[r.id] \in Row /\ RowOrdered(db.row[r.id])
          /\ Live(db.row[r.id]) /\ db.row[r.id].first # Never
      BY <1>6, MatchedRow DEF Retry
    <2> DEFINE nr == DelayedRow(db.row[r.id], t)
    <2>2. /\ nr \in Row /\ RowOrdered(nr) /\ nr.body = db.row[r.id].body
          /\ nr.hash = db.row[r.id].hash /\ nr.gen = db.row[r.id].gen
      BY <2>1, DelayedRowOrdered, JournalConstants
    <2>3. db' = [db EXCEPT !.row[r.id] = nr] /\ issued' = issued
      BY <1>6 DEF Retry, RetryRow
    <2> HIDE DEF nr
    <2>4. Live(nr)
      BY <2>1, <2>2 DEF Live
    <2>5. db'.row[r.id] = nr /\ \A k \in Id : k # r.id => db'.row[k] = db.row[k]
      BY <1>5, <2>1, <2>2, <2>3, <2>4, ReplaceRowSound
    <2> QED
      BY <2>1, <2>2, <2>3, <2>4, <2>5, InvisibleStep DEF Present, Live
  <1>7. ASSUME NEW k \in Id, NEW b \in Body \cup {Garbled}, Rot(k, b)
        PROVE  UNCHANGED <<LogState, LogGen, LogHolds>>
    <2> DEFINE nr == [db.row[k] EXCEPT !.body = b]
    <2>1. db.row[k] \in Row /\ RowOrdered(db.row[k]) /\ Live(db.row[k])
      BY <1>5, <1>7 DEF Rot, Database, Sound
    <2>2. /\ nr \in Row /\ RowOrdered(nr) /\ Live(nr)
          /\ nr.hash = db.row[k].hash /\ nr.gen = db.row[k].gen
      BY <2>1, RottenRowOrdered
    <2>3. db' = [db EXCEPT !.row[k] = nr] /\ issued' = issued
      BY <1>7 DEF Rot
    <2> HIDE DEF nr
    <2>4. db'.row[k] = nr /\ \A q \in Id : q # k => db'.row[q] = db.row[q]
      BY <1>5, <2>1, <2>2, <2>3, ReplaceRowSound
    <2> QED
      BY <2>1, <2>2, <2>3, <2>4, InvisibleStep DEF Present
  <1>8. \/ db' = db /\ issued' = issued
        \/ CommitAppend
        \/ CommitLease \/ CommitLeaseLost
        \/ \E b \in Body, r \in issued, j \in Job, t \in Time : Acknowledge(b, r, j, t)
        \/ \E b \in Body, r \in issued, t \in Time : Retry(b, r, t)
        \/ \E k \in Id, b \in Body \cup {Garbled} : Rot(k, b)
    BY DEF NextJournal, jvars, BeginAppend, InsertNext, BeginLease, LeaseOne,
           RollBack, Close, Reopen
  <1> QED
    BY <1>1, <1>2, <1>3, <1>4, <1>6, <1>7, <1>8 DEF Log!logvars

\* The journal, with its transactions, counters, tickets and clocks, implements
\* the fenced at-least-once intake.
THEOREM JournalImplementsLog == SpecJournal => ImplementsLog
  <1>1. InitJournal => Log!Init
    <2> SUFFICES ASSUME InitJournal PROVE Log!Init
      OBVIOUS
    <2>1. \A i \in Id : db.row[i] = NoRow
      BY DEF InitJournal, EmptyDatabase
    <2>2. LogState = [i \in Id |-> "absent"]
      BY <2>1 DEF LogState, NoRow, Present
    <2>3. LogGen = [i \in Id |-> 0]
      BY <2>1 DEF LogGen, NoRow
    <2>4. LogHolds = {}
      BY DEF InitJournal, LogHolds
    <2> QED
      BY <2>2, <2>3, <2>4 DEF Log!Init
  <1>2. JournalInv /\ [NextJournal]_jvars => [Log!Next]_(Log!logvars)
    BY JournalStepIsLogStep
  <1> QED
    BY <1>1, <1>2, JournalInvariant, PTL DEF SpecJournal, ImplementsLog, Log!Spec

-----------------------------------------------------------------------------
(***************************************************************************)
(* The intake path.  IntakeInv is inductive; one lemma per conjunct shows  *)
(* that every step preserves it.                                           *)
(***************************************************************************)

\* Every step keeps the types.
LEMMA TypeStep ==
  ASSUME TypeOK, [Next]_vars
  PROVE  TypeOK'
<1>1. ASSUME NEW e \in Event, Crawl(e) PROVE TypeOK'
  BY <1>1, IntakeConstants
     DEF Crawl, TypeOK, durable, volatile, Lease, None, NoBatch, Producer, Plain, Outboxed
<1>2. CASE PollOutbox
  BY <1>2, IntakeConstants
     DEF PollOutbox, TypeOK, durable, volatile, Lease, None, NoBatch, Producer, Plain,
         Outboxed
<1>3. ASSUME NEW S \in SUBSET Plain, PollPlain(S) PROVE TypeOK'
  BY <1>3, IntakeConstants
     DEF PollPlain, TypeOK, durable, volatile, Lease, None, NoBatch, Producer, Plain,
         Outboxed
<1>4. ASSUME NEW k \in Key, Expire(k) PROVE TypeOK'
  BY <1>4, IntakeConstants
     DEF Expire, TypeOK, durable, volatile, Lease, None, NoBatch, Producer, Plain, Outboxed
<1>5. ASSUME NEW p \in Producer, PublishBatch(p) PROVE TypeOK'
  BY <1>5, IntakeConstants
     DEF PublishBatch, TypeOK, durable, volatile, Lease, None, NoBatch, Producer, Plain,
         Outboxed
<1>6. ASSUME NEW S \in SUBSET Event, LeaseMany(S) PROVE TypeOK'
  BY <1>6, IntakeConstants
     DEF LeaseMany, TypeOK, durable, volatile, Lease, None, NoBatch, Producer, Plain,
         Outboxed
<1>7. ASSUME NEW l \in reply, LeaseReturns(l) PROVE TypeOK'
  BY <1>7, IntakeConstants
     DEF LeaseReturns, TypeOK, durable, volatile, Lease, None, NoBatch, Producer, Plain,
         Outboxed
<1>8. CASE LeaseTimesOut
  BY <1>8, IntakeConstants
     DEF LeaseTimesOut, Fault, TypeOK, durable, volatile, Lease, None, NoBatch, Producer,
         Plain, Outboxed
<1>9. ASSUME NEW l \in prefetch, Take(l) PROVE TypeOK'
  BY <1>9, IntakeConstants
     DEF Take, TypeOK, durable, volatile, Lease, None, NoBatch, Producer, Plain, Outboxed
<1>10. CASE Record
  BY <1>10, IntakeConstants
     DEF Record, TypeOK, durable, volatile, Lease, None, NoBatch, Producer, Plain, Outboxed
<1>11. CASE RecordFails
  BY <1>11, IntakeConstants
     DEF RecordFails, Fault, TypeOK, durable, volatile, Lease, None, NoBatch, Producer,
         Plain, Outboxed
<1>12. CASE Deliver
  BY <1>12, IntakeConstants
     DEF Deliver, TypeOK, durable, volatile, Lease, None, NoBatch, Producer, Plain, Outboxed
<1>13. CASE AckOutbox
  BY <1>13, IntakeConstants
     DEF AckOutbox, TypeOK, durable, volatile, Lease, None, NoBatch, Producer, Plain,
         Outboxed
<1>14. CASE DeliverFails
  BY <1>14, IntakeConstants
     DEF DeliverFails, Fault, TypeOK, durable, volatile, Lease, None, NoBatch, Producer,
         Plain, Outboxed
<1>15. CASE AcknowledgeEvent
  BY <1>15, IntakeConstants
     DEF AcknowledgeEvent, TypeOK, durable, volatile, Lease, None, NoBatch, Producer, Plain,
         Outboxed
<1>16. CASE AcknowledgeFails
  BY <1>16, IntakeConstants
     DEF AcknowledgeFails, Fault, TypeOK, durable, volatile, Lease, None, NoBatch, Producer,
         Plain, Outboxed
<1>17. CASE Index
  BY <1>17, IntakeConstants
     DEF Index, TypeOK, durable, volatile, Lease, None, NoBatch, Producer, Plain, Outboxed
<1>18. CASE IndexFails
  BY <1>18, IntakeConstants
     DEF IndexFails, Fault, TypeOK, durable, volatile, Lease, None, NoBatch, Producer,
         Plain, Outboxed
<1>19. CASE RetryEvent
  BY <1>19, IntakeConstants
     DEF RetryEvent, TypeOK, durable, volatile, Lease, None, NoBatch, Producer, Plain,
         Outboxed
<1>20. CASE RetryFails
  BY <1>20, IntakeConstants
     DEF RetryFails, Fault, TypeOK, durable, volatile, Lease, None, NoBatch, Producer,
         Plain, Outboxed
<1>21. ASSUME NEW e \in Event, Lapse(e) PROVE TypeOK'
  BY <1>21, IntakeConstants
     DEF Lapse, TypeOK, durable, volatile, Lease, None, NoBatch, Producer, Plain, Outboxed
<1>22. CASE Crash
  <2>1. NoBatch \in [Producer -> SUBSET Event]
    BY DEF NoBatch
  <2>2. crashes' \in 0..MaxCrash
    BY <1>22, IntakeConstants DEF Crash, TypeOK
  <2>3. QED
    BY <1>22, <2>1, <2>2 DEF Crash, TypeOK, durable
<1>23. CASE Restart
  BY <1>23, IntakeConstants
     DEF Restart, TypeOK, durable, volatile, Lease, None, NoBatch, Producer, Plain, Outboxed
<1>24. CASE UNCHANGED vars
  BY <1>24, IntakeConstants
     DEF vars, durable, volatile, TypeOK, durable, volatile, Lease, None, NoBatch, Producer,
         Plain, Outboxed
<1>25. QED
  BY <1>1, <1>2, <1>3, <1>4, <1>5, <1>6, <1>7, <1>8, <1>9, <1>10, <1>11, <1>12, <1>13,
     <1>14, <1>15, <1>16, <1>17, <1>18, <1>19, <1>20, <1>21, <1>22, <1>23, <1>24
     DEF Next

\* Every step keeps each live lease in one place: the buffer, the reply or the
\* consumer's hand.
LEMMA CustodyStep ==
  ASSUME TypeOK, Custody, [Next]_vars
  PROVE  Custody'
<1>1. ASSUME NEW e \in Event, Crawl(e) PROVE Custody'
  BY <1>1
     DEF Crawl, TypeOK, durable, volatile, Custody, HeldIsCurrent, Matches, Working, Lease,
         None
<1>2. CASE PollOutbox
  BY <1>2
     DEF PollOutbox, TypeOK, durable, volatile, Custody, HeldIsCurrent, Matches, Working,
         Lease, None
<1>3. ASSUME NEW S \in SUBSET Plain, PollPlain(S) PROVE Custody'
  BY <1>3
     DEF PollPlain, TypeOK, durable, volatile, Custody, HeldIsCurrent, Matches, Working,
         Lease, None
<1>4. ASSUME NEW k \in Key, Expire(k) PROVE Custody'
  BY <1>4
     DEF Expire, TypeOK, durable, volatile, Custody, HeldIsCurrent, Matches, Working, Lease,
         None
<1>5. ASSUME NEW p \in Producer, PublishBatch(p) PROVE Custody'
  BY <1>5
     DEF PublishBatch, TypeOK, durable, volatile, Custody, HeldIsCurrent, Matches, Working,
         Lease, None
<1>6. ASSUME NEW S \in SUBSET Event, LeaseMany(S) PROVE Custody'
  BY <1>6
     DEF LeaseMany, TypeOK, durable, volatile, Custody, HeldIsCurrent, Matches, Working,
         Lease, None
<1>7. ASSUME NEW l \in reply, LeaseReturns(l) PROVE Custody'
  BY <1>7
     DEF LeaseReturns, TypeOK, durable, volatile, Custody, HeldIsCurrent, Matches, Working,
         Lease, None
<1>8. CASE LeaseTimesOut
  BY <1>8
     DEF LeaseTimesOut, Fault, TypeOK, durable, volatile, Custody, HeldIsCurrent, Matches,
         Working, Lease, None
<1>9. ASSUME NEW l \in prefetch, Take(l) PROVE Custody'
  BY <1>9
     DEF Take, TypeOK, durable, volatile, Custody, HeldIsCurrent, Matches, Working, Lease,
         None
<1>10. CASE Record
  BY <1>10
     DEF Record, TypeOK, durable, volatile, Custody, HeldIsCurrent, Matches, Working, Lease,
         None
<1>11. CASE RecordFails
  BY <1>11
     DEF RecordFails, Fault, TypeOK, durable, volatile, Custody, HeldIsCurrent, Matches,
         Working, Lease, None
<1>12. CASE Deliver
  BY <1>12
     DEF Deliver, TypeOK, durable, volatile, Custody, HeldIsCurrent, Matches, Working,
         Lease, None
<1>13. CASE AckOutbox
  BY <1>13
     DEF AckOutbox, TypeOK, durable, volatile, Custody, HeldIsCurrent, Matches, Working,
         Lease, None
<1>14. CASE DeliverFails
  BY <1>14
     DEF DeliverFails, Fault, TypeOK, durable, volatile, Custody, HeldIsCurrent, Matches,
         Working, Lease, None
<1>15. CASE AcknowledgeEvent
  BY <1>15
     DEF AcknowledgeEvent, TypeOK, durable, volatile, Custody, HeldIsCurrent, Matches,
         Working, Lease, None
<1>16. CASE AcknowledgeFails
  BY <1>16
     DEF AcknowledgeFails, Fault, TypeOK, durable, volatile, Custody, HeldIsCurrent,
         Matches, Working, Lease, None
<1>17. CASE Index
  BY <1>17
     DEF Index, TypeOK, durable, volatile, Custody, HeldIsCurrent, Matches, Working, Lease,
         None
<1>18. CASE IndexFails
  BY <1>18
     DEF IndexFails, Fault, TypeOK, durable, volatile, Custody, HeldIsCurrent, Matches,
         Working, Lease, None
<1>19. CASE RetryEvent
  BY <1>19
     DEF RetryEvent, TypeOK, durable, volatile, Custody, HeldIsCurrent, Matches, Working,
         Lease, None
<1>20. CASE RetryFails
  BY <1>20
     DEF RetryFails, Fault, TypeOK, durable, volatile, Custody, HeldIsCurrent, Matches,
         Working, Lease, None
<1>21. ASSUME NEW e \in Event, Lapse(e) PROVE Custody'
  BY <1>21
     DEF Lapse, TypeOK, durable, volatile, Custody, HeldIsCurrent, Matches, Working, Lease,
         None
<1>22. CASE Crash
  BY <1>22
     DEF Crash, TypeOK, durable, volatile, Custody, HeldIsCurrent, Matches, Working, Lease,
         None
<1>23. CASE Restart
  BY <1>23
     DEF Restart, TypeOK, durable, volatile, Custody, HeldIsCurrent, Matches, Working,
         Lease, None
<1>24. CASE UNCHANGED vars
  BY <1>24
     DEF vars, durable, volatile, TypeOK, durable, volatile, Custody, HeldIsCurrent,
         Matches, Working, Lease, None
<1>25. QED
  BY <1>1, <1>2, <1>3, <1>4, <1>5, <1>6, <1>7, <1>8, <1>9, <1>10, <1>11, <1>12, <1>13,
     <1>14, <1>15, <1>16, <1>17, <1>18, <1>19, <1>20, <1>21, <1>22, <1>23, <1>24
     DEF Next

\* Every step keeps the origin of onion observations.
LEMMA ProvenanceStep ==
  ASSUME TypeOK, Custody, Provenance, [Next]_vars
  PROVE  Provenance'
<1>1. ASSUME NEW e \in Event, Crawl(e) PROVE Provenance'
  BY <1>1
     DEF Crawl, TypeOK, durable, volatile, Provenance, Custody, HeldIsCurrent, Matches,
         Working, Lease, Plain, Outboxed, Producer, NoBatch, ReadyRows
<1>2. CASE PollOutbox
  BY <1>2
     DEF PollOutbox, TypeOK, durable, volatile, Provenance, Custody, HeldIsCurrent, Matches,
         Working, Lease, Plain, Outboxed, Producer, NoBatch, ReadyRows
<1>3. ASSUME NEW S \in SUBSET Plain, PollPlain(S) PROVE Provenance'
  BY <1>3
     DEF PollPlain, TypeOK, durable, volatile, Provenance, Custody, HeldIsCurrent, Matches,
         Working, Lease, Plain, Outboxed, Producer, NoBatch, ReadyRows
<1>4. ASSUME NEW k \in Key, Expire(k) PROVE Provenance'
  BY <1>4
     DEF Expire, TypeOK, durable, volatile, Provenance, Custody, HeldIsCurrent, Matches,
         Working, Lease, Plain, Outboxed, Producer, NoBatch, ReadyRows
<1>5. ASSUME NEW p \in Producer, PublishBatch(p) PROVE Provenance'
  <2>1. \A q \in Producer : batch'[q] \subseteq batch[q]
    BY <1>5 DEF PublishBatch, TypeOK
  <2>2. batch'["onion"] \subseteq stored' /\ batch'["plain"] \subseteq Plain
    BY <1>5, <2>1 DEF PublishBatch, Provenance, Producer
  <2>3. batch[p] \cap Outboxed \subseteq stored
    BY DEF Provenance, Producer, Plain
  <2>4. ASSUME NEW e \in Outboxed, row'[e] # "absent" PROVE e \in stored'
    BY <1>5, <2>3, <2>4, IntakeConstants DEF PublishBatch, Provenance, TypeOK, Outboxed
  <2>5. QED
    BY <1>5, <2>2, <2>4 DEF PublishBatch, Provenance
<1>6. ASSUME NEW S \in SUBSET Event, LeaseMany(S) PROVE Provenance'
  <2>1. ASSUME NEW e \in Outboxed, row'[e] # "absent" PROVE row[e] # "absent"
    BY <1>6, <2>1, IntakeConstants DEF LeaseMany, TypeOK, ReadyRows, Outboxed
  <2>2. QED
    BY <1>6, <2>1 DEF LeaseMany, Provenance
<1>7. ASSUME NEW l \in reply, LeaseReturns(l) PROVE Provenance'
  BY <1>7
     DEF LeaseReturns, TypeOK, durable, volatile, Provenance, Custody, HeldIsCurrent,
         Matches, Working, Lease, Plain, Outboxed, Producer, NoBatch, ReadyRows
<1>8. CASE LeaseTimesOut
  BY <1>8
     DEF LeaseTimesOut, Fault, TypeOK, durable, volatile, Provenance, Custody,
         HeldIsCurrent, Matches, Working, Lease, Plain, Outboxed, Producer, NoBatch,
         ReadyRows
<1>9. ASSUME NEW l \in prefetch, Take(l) PROVE Provenance'
  BY <1>9
     DEF Take, TypeOK, durable, volatile, Provenance, Custody, HeldIsCurrent, Matches,
         Working, Lease, Plain, Outboxed, Producer, NoBatch, ReadyRows
<1>10. CASE Record
  BY <1>10
     DEF Record, TypeOK, durable, volatile, Provenance, Custody, HeldIsCurrent, Matches,
         Working, Lease, Plain, Outboxed, Producer, NoBatch, ReadyRows
<1>11. CASE RecordFails
  BY <1>11
     DEF RecordFails, Fault, TypeOK, durable, volatile, Provenance, Custody, HeldIsCurrent,
         Matches, Working, Lease, Plain, Outboxed, Producer, NoBatch, ReadyRows
<1>12. CASE Deliver
  BY <1>12
     DEF Deliver, TypeOK, durable, volatile, Provenance, Custody, HeldIsCurrent, Matches,
         Working, Lease, Plain, Outboxed, Producer, NoBatch, ReadyRows
<1>13. CASE AckOutbox
  BY <1>13
     DEF AckOutbox, TypeOK, durable, volatile, Provenance, Custody, HeldIsCurrent, Matches,
         Working, Lease, Plain, Outboxed, Producer, NoBatch, ReadyRows
<1>14. CASE DeliverFails
  BY <1>14
     DEF DeliverFails, Fault, TypeOK, durable, volatile, Provenance, Custody, HeldIsCurrent,
         Matches, Working, Lease, Plain, Outboxed, Producer, NoBatch, ReadyRows
<1>15. CASE AcknowledgeEvent
  BY <1>15
     DEF AcknowledgeEvent, TypeOK, durable, volatile, Provenance, Custody, HeldIsCurrent,
         Matches, Working, Lease, Plain, Outboxed, Producer, NoBatch, ReadyRows
<1>16. CASE AcknowledgeFails
  BY <1>16
     DEF AcknowledgeFails, Fault, TypeOK, durable, volatile, Provenance, Custody,
         HeldIsCurrent, Matches, Working, Lease, Plain, Outboxed, Producer, NoBatch,
         ReadyRows
<1>17. CASE Index
  BY <1>17
     DEF Index, TypeOK, durable, volatile, Provenance, Custody, HeldIsCurrent, Matches,
         Working, Lease, Plain, Outboxed, Producer, NoBatch, ReadyRows
<1>18. CASE IndexFails
  BY <1>18
     DEF IndexFails, Fault, TypeOK, durable, volatile, Provenance, Custody, HeldIsCurrent,
         Matches, Working, Lease, Plain, Outboxed, Producer, NoBatch, ReadyRows
<1>19. CASE RetryEvent
  BY <1>19
     DEF RetryEvent, TypeOK, durable, volatile, Provenance, Custody, HeldIsCurrent, Matches,
         Working, Lease, Plain, Outboxed, Producer, NoBatch, ReadyRows
<1>20. CASE RetryFails
  BY <1>20
     DEF RetryFails, Fault, TypeOK, durable, volatile, Provenance, Custody, HeldIsCurrent,
         Matches, Working, Lease, Plain, Outboxed, Producer, NoBatch, ReadyRows
<1>21. ASSUME NEW e \in Event, Lapse(e) PROVE Provenance'
  BY <1>21
     DEF Lapse, TypeOK, durable, volatile, Provenance, Custody, HeldIsCurrent, Matches,
         Working, Lease, Plain, Outboxed, Producer, NoBatch, ReadyRows
<1>22. CASE Crash
  BY <1>22
     DEF Crash, TypeOK, durable, volatile, Provenance, Custody, HeldIsCurrent, Matches,
         Working, Lease, Plain, Outboxed, Producer, NoBatch, ReadyRows
<1>23. CASE Restart
  BY <1>23
     DEF Restart, TypeOK, durable, volatile, Provenance, Custody, HeldIsCurrent, Matches,
         Working, Lease, Plain, Outboxed, Producer, NoBatch, ReadyRows
<1>24. CASE UNCHANGED vars
  BY <1>24
     DEF vars, durable, volatile, TypeOK, durable, volatile, Provenance, Custody,
         HeldIsCurrent, Matches, Working, Lease, Plain, Outboxed, Producer, NoBatch,
         ReadyRows
<1>25. QED
  BY <1>1, <1>2, <1>3, <1>4, <1>5, <1>6, <1>7, <1>8, <1>9, <1>10, <1>11, <1>12, <1>13,
     <1>14, <1>15, <1>16, <1>17, <1>18, <1>19, <1>20, <1>21, <1>22, <1>23, <1>24
     DEF Next

\* Every step keeps the order of the durable writes of a delivery.
LEMMA StagedStep ==
  ASSUME TypeOK, Custody, Provenance, Staged, [Next]_vars
  PROVE  Staged'
<1>1. ASSUME NEW e \in Event, Crawl(e) PROVE Staged'
  BY <1>1, IntakeConstants
     DEF Crawl, TypeOK, durable, volatile, Staged, AckedIsCanonical, OutboxUntilCanonical,
         Provenance, Custody, HeldIsCurrent, Matches, Working, Lease, None, Plain, Outboxed,
         Producer, ReadyRows
<1>2. CASE PollOutbox
  BY <1>2, IntakeConstants
     DEF PollOutbox, TypeOK, durable, volatile, Staged, AckedIsCanonical,
         OutboxUntilCanonical, Provenance, Custody, HeldIsCurrent, Matches, Working, Lease,
         None, Plain, Outboxed, Producer, ReadyRows
<1>3. ASSUME NEW S \in SUBSET Plain, PollPlain(S) PROVE Staged'
  BY <1>3, IntakeConstants
     DEF PollPlain, TypeOK, durable, volatile, Staged, AckedIsCanonical,
         OutboxUntilCanonical, Provenance, Custody, HeldIsCurrent, Matches, Working, Lease,
         None, Plain, Outboxed, Producer, ReadyRows
<1>4. ASSUME NEW k \in Key, Expire(k) PROVE Staged'
  BY <1>4, IntakeConstants
     DEF Expire, TypeOK, durable, volatile, Staged, AckedIsCanonical, OutboxUntilCanonical,
         Provenance, Custody, HeldIsCurrent, Matches, Working, Lease, None, Plain, Outboxed,
         Producer, ReadyRows
<1>5. ASSUME NEW p \in Producer, PublishBatch(p) PROVE Staged'
  BY <1>5, IntakeConstants
     DEF PublishBatch, TypeOK, durable, volatile, Staged, AckedIsCanonical,
         OutboxUntilCanonical, Provenance, Custody, HeldIsCurrent, Matches, Working, Lease,
         None, Plain, Outboxed, Producer, ReadyRows
<1>6. ASSUME NEW S \in SUBSET Event, LeaseMany(S) PROVE Staged'
  BY <1>6, IntakeConstants
     DEF LeaseMany, TypeOK, durable, volatile, Staged, AckedIsCanonical,
         OutboxUntilCanonical, Provenance, Custody, HeldIsCurrent, Matches, Working, Lease,
         None, Plain, Outboxed, Producer, ReadyRows
<1>7. ASSUME NEW l \in reply, LeaseReturns(l) PROVE Staged'
  BY <1>7, IntakeConstants
     DEF LeaseReturns, TypeOK, durable, volatile, Staged, AckedIsCanonical,
         OutboxUntilCanonical, Provenance, Custody, HeldIsCurrent, Matches, Working, Lease,
         None, Plain, Outboxed, Producer, ReadyRows
<1>8. CASE LeaseTimesOut
  BY <1>8, IntakeConstants
     DEF LeaseTimesOut, Fault, TypeOK, durable, volatile, Staged, AckedIsCanonical,
         OutboxUntilCanonical, Provenance, Custody, HeldIsCurrent, Matches, Working, Lease,
         None, Plain, Outboxed, Producer, ReadyRows
<1>9. ASSUME NEW l \in prefetch, Take(l) PROVE Staged'
  BY <1>9, IntakeConstants
     DEF Take, TypeOK, durable, volatile, Staged, AckedIsCanonical, OutboxUntilCanonical,
         Provenance, Custody, HeldIsCurrent, Matches, Working, Lease, None, Plain, Outboxed,
         Producer, ReadyRows
<1>10. CASE Record
  BY <1>10, IntakeConstants
     DEF Record, TypeOK, durable, volatile, Staged, AckedIsCanonical, OutboxUntilCanonical,
         Provenance, Custody, HeldIsCurrent, Matches, Working, Lease, None, Plain, Outboxed,
         Producer, ReadyRows
<1>11. CASE RecordFails
  BY <1>11, IntakeConstants
     DEF RecordFails, Fault, TypeOK, durable, volatile, Staged, AckedIsCanonical,
         OutboxUntilCanonical, Provenance, Custody, HeldIsCurrent, Matches, Working, Lease,
         None, Plain, Outboxed, Producer, ReadyRows
<1>12. CASE Deliver
  BY <1>12, IntakeConstants
     DEF Deliver, TypeOK, durable, volatile, Staged, AckedIsCanonical, OutboxUntilCanonical,
         Provenance, Custody, HeldIsCurrent, Matches, Working, Lease, None, Plain, Outboxed,
         Producer, ReadyRows
<1>13. CASE AckOutbox
  BY <1>13, IntakeConstants
     DEF AckOutbox, TypeOK, durable, volatile, Staged, AckedIsCanonical,
         OutboxUntilCanonical, Provenance, Custody, HeldIsCurrent, Matches, Working, Lease,
         None, Plain, Outboxed, Producer, ReadyRows
<1>14. CASE DeliverFails
  BY <1>14, IntakeConstants
     DEF DeliverFails, Fault, TypeOK, durable, volatile, Staged, AckedIsCanonical,
         OutboxUntilCanonical, Provenance, Custody, HeldIsCurrent, Matches, Working, Lease,
         None, Plain, Outboxed, Producer, ReadyRows
<1>15. CASE AcknowledgeEvent
  BY <1>15, IntakeConstants
     DEF AcknowledgeEvent, TypeOK, durable, volatile, Staged, AckedIsCanonical,
         OutboxUntilCanonical, Provenance, Custody, HeldIsCurrent, Matches, Working, Lease,
         None, Plain, Outboxed, Producer, ReadyRows
<1>16. CASE AcknowledgeFails
  BY <1>16, IntakeConstants
     DEF AcknowledgeFails, Fault, TypeOK, durable, volatile, Staged, AckedIsCanonical,
         OutboxUntilCanonical, Provenance, Custody, HeldIsCurrent, Matches, Working, Lease,
         None, Plain, Outboxed, Producer, ReadyRows
<1>17. CASE Index
  BY <1>17, IntakeConstants
     DEF Index, TypeOK, durable, volatile, Staged, AckedIsCanonical, OutboxUntilCanonical,
         Provenance, Custody, HeldIsCurrent, Matches, Working, Lease, None, Plain, Outboxed,
         Producer, ReadyRows
<1>18. CASE IndexFails
  BY <1>18, IntakeConstants
     DEF IndexFails, Fault, TypeOK, durable, volatile, Staged, AckedIsCanonical,
         OutboxUntilCanonical, Provenance, Custody, HeldIsCurrent, Matches, Working, Lease,
         None, Plain, Outboxed, Producer, ReadyRows
<1>19. CASE RetryEvent
  BY <1>19, IntakeConstants
     DEF RetryEvent, TypeOK, durable, volatile, Staged, AckedIsCanonical,
         OutboxUntilCanonical, Provenance, Custody, HeldIsCurrent, Matches, Working, Lease,
         None, Plain, Outboxed, Producer, ReadyRows
<1>20. CASE RetryFails
  BY <1>20, IntakeConstants
     DEF RetryFails, Fault, TypeOK, durable, volatile, Staged, AckedIsCanonical,
         OutboxUntilCanonical, Provenance, Custody, HeldIsCurrent, Matches, Working, Lease,
         None, Plain, Outboxed, Producer, ReadyRows
<1>21. ASSUME NEW e \in Event, Lapse(e) PROVE Staged'
  BY <1>21, IntakeConstants
     DEF Lapse, TypeOK, durable, volatile, Staged, AckedIsCanonical, OutboxUntilCanonical,
         Provenance, Custody, HeldIsCurrent, Matches, Working, Lease, None, Plain, Outboxed,
         Producer, ReadyRows
<1>22. CASE Crash
  BY <1>22, IntakeConstants
     DEF Crash, TypeOK, durable, volatile, Staged, AckedIsCanonical, OutboxUntilCanonical,
         Provenance, Custody, HeldIsCurrent, Matches, Working, Lease, None, Plain, Outboxed,
         Producer, ReadyRows
<1>23. CASE Restart
  BY <1>23, IntakeConstants
     DEF Restart, TypeOK, durable, volatile, Staged, AckedIsCanonical, OutboxUntilCanonical,
         Provenance, Custody, HeldIsCurrent, Matches, Working, Lease, None, Plain, Outboxed,
         Producer, ReadyRows
<1>24. CASE UNCHANGED vars
  BY <1>24, IntakeConstants
     DEF vars, durable, volatile, TypeOK, durable, volatile, Staged, AckedIsCanonical,
         OutboxUntilCanonical, Provenance, Custody, HeldIsCurrent, Matches, Working, Lease,
         None, Plain, Outboxed, Producer, ReadyRows
<1>25. QED
  BY <1>1, <1>2, <1>3, <1>4, <1>5, <1>6, <1>7, <1>8, <1>9, <1>10, <1>11, <1>12, <1>13,
     <1>14, <1>15, <1>16, <1>17, <1>18, <1>19, <1>20, <1>21, <1>22, <1>23, <1>24
     DEF Next

\* Every redelivery is paid for by a fault or a crash.
LEMMA BudgetStep ==
  ASSUME TypeOK, Custody, Staged, LeaseBudget, [Next]_vars
  PROVE  LeaseBudget'
<1>1. ASSUME NEW e \in Event, Crawl(e) PROVE LeaseBudget'
  BY <1>1
     DEF Crawl, TypeOK, durable, volatile, LeaseBudget, RedeliveryNeedsFault, Owned, Staged,
         Custody, HeldIsCurrent, Matches, Working, Lease, None, ReadyRows
<1>2. CASE PollOutbox
  BY <1>2
     DEF PollOutbox, TypeOK, durable, volatile, LeaseBudget, RedeliveryNeedsFault, Owned,
         Staged, Custody, HeldIsCurrent, Matches, Working, Lease, None, ReadyRows
<1>3. ASSUME NEW S \in SUBSET Plain, PollPlain(S) PROVE LeaseBudget'
  BY <1>3
     DEF PollPlain, TypeOK, durable, volatile, LeaseBudget, RedeliveryNeedsFault, Owned,
         Staged, Custody, HeldIsCurrent, Matches, Working, Lease, None, ReadyRows
<1>4. ASSUME NEW k \in Key, Expire(k) PROVE LeaseBudget'
  BY <1>4
     DEF Expire, TypeOK, durable, volatile, LeaseBudget, RedeliveryNeedsFault, Owned,
         Staged, Custody, HeldIsCurrent, Matches, Working, Lease, None, ReadyRows
<1>5. ASSUME NEW p \in Producer, PublishBatch(p) PROVE LeaseBudget'
  BY <1>5
     DEF PublishBatch, TypeOK, durable, volatile, LeaseBudget, RedeliveryNeedsFault, Owned,
         Staged, Custody, HeldIsCurrent, Matches, Working, Lease, None, ReadyRows
<1>6. ASSUME NEW S \in SUBSET Event, LeaseMany(S) PROVE LeaseBudget'
  <2>1. ASSUME NEW e \in Event PROVE ~Owned(e)
    BY <1>6 DEF LeaseMany, Owned, Custody, Working
  <2>2. ASSUME NEW e \in S PROVE gen[e] <= faults + crashes
    BY <1>6, <2>1, <2>2 DEF LeaseMany, LeaseBudget, ReadyRows
  <2>3. ASSUME NEW e \in S PROVE gen'[e] <= 1 + faults + crashes
    BY <1>6, <2>2, <2>3 DEF LeaseMany, TypeOK
  <2>4. ASSUME NEW e \in Event \ S PROVE gen'[e] = gen[e] /\ row'[e] = row[e]
    BY <1>6, <2>4 DEF LeaseMany, TypeOK
  <2>5. RedeliveryNeedsFault'
    BY <1>6, <2>3, <2>4 DEF LeaseMany, LeaseBudget, RedeliveryNeedsFault
  <2>6. ASSUME NEW e \in S PROVE Owned(e)'
    <3>1. [e |-> e, g |-> gen[e] + 1] \in reply'
      BY <1>6, <2>6 DEF LeaseMany
    <3>2. QED
      BY <3>1 DEF Owned
  <2>7. ASSUME NEW e \in Event, row'[e] # "acked", ~Owned(e)'
        PROVE  gen'[e] <= faults' + crashes'
    BY <1>6, <2>1, <2>4, <2>6, <2>7 DEF LeaseMany, LeaseBudget
  <2>8. QED
    BY <1>6, <2>5, <2>7 DEF LeaseMany, LeaseBudget
<1>7. ASSUME NEW l \in reply, LeaseReturns(l) PROVE LeaseBudget'
  BY <1>7
     DEF LeaseReturns, TypeOK, durable, volatile, LeaseBudget, RedeliveryNeedsFault, Owned,
         Staged, Custody, HeldIsCurrent, Matches, Working, Lease, None, ReadyRows
<1>8. CASE LeaseTimesOut
  BY <1>8
     DEF LeaseTimesOut, Fault, TypeOK, durable, volatile, LeaseBudget, RedeliveryNeedsFault,
         Owned, Staged, Custody, HeldIsCurrent, Matches, Working, Lease, None, ReadyRows
<1>9. ASSUME NEW l \in prefetch, Take(l) PROVE LeaseBudget'
  BY <1>9
     DEF Take, TypeOK, durable, volatile, LeaseBudget, RedeliveryNeedsFault, Owned, Staged,
         Custody, HeldIsCurrent, Matches, Working, Lease, None, ReadyRows
<1>10. CASE Record
  BY <1>10
     DEF Record, TypeOK, durable, volatile, LeaseBudget, RedeliveryNeedsFault, Owned,
         Staged, Custody, HeldIsCurrent, Matches, Working, Lease, None, ReadyRows
<1>11. CASE RecordFails
  BY <1>11
     DEF RecordFails, Fault, TypeOK, durable, volatile, LeaseBudget, RedeliveryNeedsFault,
         Owned, Staged, Custody, HeldIsCurrent, Matches, Working, Lease, None, ReadyRows
<1>12. CASE Deliver
  BY <1>12
     DEF Deliver, TypeOK, durable, volatile, LeaseBudget, RedeliveryNeedsFault, Owned,
         Staged, Custody, HeldIsCurrent, Matches, Working, Lease, None, ReadyRows
<1>13. CASE AckOutbox
  BY <1>13
     DEF AckOutbox, TypeOK, durable, volatile, LeaseBudget, RedeliveryNeedsFault, Owned,
         Staged, Custody, HeldIsCurrent, Matches, Working, Lease, None, ReadyRows
<1>14. CASE DeliverFails
  BY <1>14
     DEF DeliverFails, Fault, TypeOK, durable, volatile, LeaseBudget, RedeliveryNeedsFault,
         Owned, Staged, Custody, HeldIsCurrent, Matches, Working, Lease, None, ReadyRows
<1>15. CASE AcknowledgeEvent
  BY <1>15
     DEF AcknowledgeEvent, TypeOK, durable, volatile, LeaseBudget, RedeliveryNeedsFault,
         Owned, Staged, Custody, HeldIsCurrent, Matches, Working, Lease, None, ReadyRows
<1>16. CASE AcknowledgeFails
  BY <1>16
     DEF AcknowledgeFails, Fault, TypeOK, durable, volatile, LeaseBudget,
         RedeliveryNeedsFault, Owned, Staged, Custody, HeldIsCurrent, Matches, Working,
         Lease, None, ReadyRows
<1>17. CASE Index
  BY <1>17
     DEF Index, TypeOK, durable, volatile, LeaseBudget, RedeliveryNeedsFault, Owned, Staged,
         Custody, HeldIsCurrent, Matches, Working, Lease, None, ReadyRows
<1>18. CASE IndexFails
  BY <1>18
     DEF IndexFails, Fault, TypeOK, durable, volatile, LeaseBudget, RedeliveryNeedsFault,
         Owned, Staged, Custody, HeldIsCurrent, Matches, Working, Lease, None, ReadyRows
<1>19. CASE RetryEvent
  BY <1>19
     DEF RetryEvent, TypeOK, durable, volatile, LeaseBudget, RedeliveryNeedsFault, Owned,
         Staged, Custody, HeldIsCurrent, Matches, Working, Lease, None, ReadyRows
<1>20. CASE RetryFails
  BY <1>20
     DEF RetryFails, Fault, TypeOK, durable, volatile, LeaseBudget, RedeliveryNeedsFault,
         Owned, Staged, Custody, HeldIsCurrent, Matches, Working, Lease, None, ReadyRows
<1>21. ASSUME NEW e \in Event, Lapse(e) PROVE LeaseBudget'
  BY <1>21
     DEF Lapse, TypeOK, durable, volatile, LeaseBudget, RedeliveryNeedsFault, Owned, Staged,
         Custody, HeldIsCurrent, Matches, Working, Lease, None, ReadyRows
<1>22. CASE Crash
  BY <1>22
     DEF Crash, TypeOK, durable, volatile, LeaseBudget, RedeliveryNeedsFault, Owned, Staged,
         Custody, HeldIsCurrent, Matches, Working, Lease, None, ReadyRows
<1>23. CASE Restart
  BY <1>23
     DEF Restart, TypeOK, durable, volatile, LeaseBudget, RedeliveryNeedsFault, Owned,
         Staged, Custody, HeldIsCurrent, Matches, Working, Lease, None, ReadyRows
<1>24. CASE UNCHANGED vars
  BY <1>24
     DEF vars, durable, volatile, TypeOK, durable, volatile, LeaseBudget,
         RedeliveryNeedsFault, Owned, Staged, Custody, HeldIsCurrent, Matches, Working,
         Lease, None, ReadyRows
<1>25. QED
  BY <1>1, <1>2, <1>3, <1>4, <1>5, <1>6, <1>7, <1>8, <1>9, <1>10, <1>11, <1>12, <1>13,
     <1>14, <1>15, <1>16, <1>17, <1>18, <1>19, <1>20, <1>21, <1>22, <1>23, <1>24
     DEF Next

\* Every step indexes acknowledged observations only.
LEMMA IndexStep ==
  ASSUME TypeOK, Custody, Staged, IndexAfterAck, [Next]_vars
  PROVE  IndexAfterAck'
<1>1. ASSUME NEW e \in Event, Crawl(e) PROVE IndexAfterAck'
  BY <1>1
     DEF Crawl, TypeOK, durable, volatile, IndexAfterAck, Staged, Custody, HeldIsCurrent,
         Matches, Working, Lease, ReadyRows
<1>2. CASE PollOutbox
  BY <1>2
     DEF PollOutbox, TypeOK, durable, volatile, IndexAfterAck, Staged, Custody,
         HeldIsCurrent, Matches, Working, Lease, ReadyRows
<1>3. ASSUME NEW S \in SUBSET Plain, PollPlain(S) PROVE IndexAfterAck'
  BY <1>3
     DEF PollPlain, TypeOK, durable, volatile, IndexAfterAck, Staged, Custody,
         HeldIsCurrent, Matches, Working, Lease, ReadyRows
<1>4. ASSUME NEW k \in Key, Expire(k) PROVE IndexAfterAck'
  BY <1>4
     DEF Expire, TypeOK, durable, volatile, IndexAfterAck, Staged, Custody, HeldIsCurrent,
         Matches, Working, Lease, ReadyRows
<1>5. ASSUME NEW p \in Producer, PublishBatch(p) PROVE IndexAfterAck'
  BY <1>5
     DEF PublishBatch, TypeOK, durable, volatile, IndexAfterAck, Staged, Custody,
         HeldIsCurrent, Matches, Working, Lease, ReadyRows
<1>6. ASSUME NEW S \in SUBSET Event, LeaseMany(S) PROVE IndexAfterAck'
  BY <1>6
     DEF LeaseMany, TypeOK, durable, volatile, IndexAfterAck, Staged, Custody,
         HeldIsCurrent, Matches, Working, Lease, ReadyRows
<1>7. ASSUME NEW l \in reply, LeaseReturns(l) PROVE IndexAfterAck'
  BY <1>7
     DEF LeaseReturns, TypeOK, durable, volatile, IndexAfterAck, Staged, Custody,
         HeldIsCurrent, Matches, Working, Lease, ReadyRows
<1>8. CASE LeaseTimesOut
  BY <1>8
     DEF LeaseTimesOut, Fault, TypeOK, durable, volatile, IndexAfterAck, Staged, Custody,
         HeldIsCurrent, Matches, Working, Lease, ReadyRows
<1>9. ASSUME NEW l \in prefetch, Take(l) PROVE IndexAfterAck'
  BY <1>9
     DEF Take, TypeOK, durable, volatile, IndexAfterAck, Staged, Custody, HeldIsCurrent,
         Matches, Working, Lease, ReadyRows
<1>10. CASE Record
  BY <1>10
     DEF Record, TypeOK, durable, volatile, IndexAfterAck, Staged, Custody, HeldIsCurrent,
         Matches, Working, Lease, ReadyRows
<1>11. CASE RecordFails
  BY <1>11
     DEF RecordFails, Fault, TypeOK, durable, volatile, IndexAfterAck, Staged, Custody,
         HeldIsCurrent, Matches, Working, Lease, ReadyRows
<1>12. CASE Deliver
  BY <1>12
     DEF Deliver, TypeOK, durable, volatile, IndexAfterAck, Staged, Custody, HeldIsCurrent,
         Matches, Working, Lease, ReadyRows
<1>13. CASE AckOutbox
  BY <1>13
     DEF AckOutbox, TypeOK, durable, volatile, IndexAfterAck, Staged, Custody,
         HeldIsCurrent, Matches, Working, Lease, ReadyRows
<1>14. CASE DeliverFails
  BY <1>14
     DEF DeliverFails, Fault, TypeOK, durable, volatile, IndexAfterAck, Staged, Custody,
         HeldIsCurrent, Matches, Working, Lease, ReadyRows
<1>15. CASE AcknowledgeEvent
  BY <1>15
     DEF AcknowledgeEvent, TypeOK, durable, volatile, IndexAfterAck, Staged, Custody,
         HeldIsCurrent, Matches, Working, Lease, ReadyRows
<1>16. CASE AcknowledgeFails
  BY <1>16
     DEF AcknowledgeFails, Fault, TypeOK, durable, volatile, IndexAfterAck, Staged, Custody,
         HeldIsCurrent, Matches, Working, Lease, ReadyRows
<1>17. CASE Index
  BY <1>17
     DEF Index, TypeOK, durable, volatile, IndexAfterAck, Staged, Custody, HeldIsCurrent,
         Matches, Working, Lease, ReadyRows
<1>18. CASE IndexFails
  BY <1>18
     DEF IndexFails, Fault, TypeOK, durable, volatile, IndexAfterAck, Staged, Custody,
         HeldIsCurrent, Matches, Working, Lease, ReadyRows
<1>19. CASE RetryEvent
  BY <1>19
     DEF RetryEvent, TypeOK, durable, volatile, IndexAfterAck, Staged, Custody,
         HeldIsCurrent, Matches, Working, Lease, ReadyRows
<1>20. CASE RetryFails
  BY <1>20
     DEF RetryFails, Fault, TypeOK, durable, volatile, IndexAfterAck, Staged, Custody,
         HeldIsCurrent, Matches, Working, Lease, ReadyRows
<1>21. ASSUME NEW e \in Event, Lapse(e) PROVE IndexAfterAck'
  BY <1>21
     DEF Lapse, TypeOK, durable, volatile, IndexAfterAck, Staged, Custody, HeldIsCurrent,
         Matches, Working, Lease, ReadyRows
<1>22. CASE Crash
  BY <1>22
     DEF Crash, TypeOK, durable, volatile, IndexAfterAck, Staged, Custody, HeldIsCurrent,
         Matches, Working, Lease, ReadyRows
<1>23. CASE Restart
  BY <1>23
     DEF Restart, TypeOK, durable, volatile, IndexAfterAck, Staged, Custody, HeldIsCurrent,
         Matches, Working, Lease, ReadyRows
<1>24. CASE UNCHANGED vars
  BY <1>24
     DEF vars, durable, volatile, TypeOK, durable, volatile, IndexAfterAck, Staged, Custody,
         HeldIsCurrent, Matches, Working, Lease, ReadyRows
<1>25. QED
  BY <1>1, <1>2, <1>3, <1>4, <1>5, <1>6, <1>7, <1>8, <1>9, <1>10, <1>11, <1>12, <1>13,
     <1>14, <1>15, <1>16, <1>17, <1>18, <1>19, <1>20, <1>21, <1>22, <1>23, <1>24
     DEF Next

\* The empty system satisfies the invariant.
LEMMA InitHolds == Init => IntakeInv
<1> SUFFICES ASSUME Init PROVE IntakeInv
  OBVIOUS
<1>1. NoBatch \in [Producer -> SUBSET Event]
  BY DEF NoBatch
<1>2. TypeOK
  BY <1>1, IntakeConstants DEF Init, InitVolatile, TypeOK, None
<1>3. Custody
  BY DEF Init, InitVolatile, Custody, HeldIsCurrent, Working
<1>4. Provenance
  BY IntakeConstants DEF Init, InitVolatile, Provenance, Outboxed, NoBatch, Producer
<1>5. Staged
  BY DEF Init, InitVolatile, Staged, AckedIsCanonical, OutboxUntilCanonical
<1>6. LeaseBudget
  BY DEF Init, InitVolatile, LeaseBudget, RedeliveryNeedsFault
<1>7. IndexAfterAck
  BY DEF Init, InitVolatile, IndexAfterAck
<1>8. QED
  BY <1>2, <1>3, <1>4, <1>5, <1>6, <1>7 DEF IntakeInv

\* The invariant of the intake path: where each lease is, which writes of a
\* delivery are durable at each place of _source_consumer_loop, and what a
\* redelivery costs.
THEOREM IntakeInvariant == Spec => []IntakeInv
<1>1. IntakeInv /\ [Next]_vars => IntakeInv'
  BY TypeStep, CustodyStep, ProvenanceStep, StagedStep, BudgetStep, IndexStep DEF IntakeInv
<1>2. QED
  BY InitHolds, <1>1, PTL DEF Spec

\* Rows, outbox, leases and the consumer's place keep their types, through faults
\* and crashes.
THEOREM IntakeTyped == Spec => []TypeOK
<1>1. IntakeInv => TypeOK
  BY DEF IntakeInv
<1>2. QED
  BY IntakeInvariant, <1>1, PTL

\* An observation the journal has forgotten is canonical, its links are admitted
\* and its outbox row is gone, whatever failed on the way.
THEOREM AckedAlwaysCanonical == Spec => []AckedIsCanonical
<1>1. IntakeInv => AckedIsCanonical
  BY DEF IntakeInv, Staged
<1>2. QED
  BY IntakeInvariant, <1>1, PTL

\* The onion outbox keeps an observation until its canonical job exists and its
\* children are admitted, and no child is admitted before its parent's job.
THEOREM OutboxKeepsUntilCanonical == Spec => []OutboxUntilCanonical
<1>1. IntakeInv => OutboxUntilCanonical
  BY DEF IntakeInv, Staged
<1>2. QED
  BY IntakeInvariant, <1>1, PTL

\* The consumer never works on a superseded lease, although leases lapse while
\* they sit in the prefetch buffer.
THEOREM HeldAlwaysCurrent == Spec => []HeldIsCurrent
<1>1. IntakeInv => HeldIsCurrent
  BY DEF IntakeInv, Custody
<1>2. QED
  BY IntakeInvariant, <1>1, PTL

\* Slow consumption alone never delivers an observation twice.
THEOREM RedeliveryIsPaidFor == Spec => []RedeliveryNeedsFault
<1>1. IntakeInv => RedeliveryNeedsFault
  BY DEF IntakeInv, LeaseBudget
<1>2. QED
  BY IntakeInvariant, <1>1, PTL

\* The owner's index never runs ahead of the durable acknowledgement.
THEOREM IndexFollowsAck == Spec => []IndexAfterAck
<1>1. IntakeInv => IndexAfterAck
  BY DEF IntakeInv
<1>2. QED
  BY IntakeInvariant, <1>1, PTL

\* A step that accepts and acknowledges nothing and whose leases are among the
\* old ones is a Forget of IntakeLog.
LEMMA ShrinkIsForget ==
  ASSUME EventLogState' = EventLogState, gen' = gen, Carried' \subseteq Carried
  PROVE  \E H \in SUBSET EventLogHolds : EventLog!Forget(H)
<1>1. EventLogHolds' \subseteq EventLogHolds
  BY DEF EventLogHolds
<1>2. EventLogHolds' = EventLogHolds \ (EventLogHolds \ EventLogHolds')
  BY <1>1
<1>3. EventLog!Forget(EventLogHolds \ EventLogHolds')
  BY <1>2 DEF EventLog!Forget
<1>4. QED
  BY <1>3

\* A committed append is one Accept of the identities the journal did not know.
LEMMA PublishIsAccept ==
  ASSUME TypeOK, NEW p \in Producer, PublishBatch(p)
  PROVE  \E S \in SUBSET Event : EventLog!Accept(S)
<1> DEFINE S == {e \in batch[p] : row[e] = "absent"}
<1>1. S \in SUBSET Event
  BY DEF TypeOK
<1>2. \A e \in Event : row'[e] = IF e \in S THEN "ready" ELSE row[e]
  BY DEF PublishBatch, TypeOK
<1>3. EventLogState' = [e \in Event |-> IF e \in S THEN "pending" ELSE EventLogState[e]]
  BY <1>2 DEF EventLogState
<1>4. \A e \in S : EventLogState[e] = "absent"
  BY <1>1 DEF EventLogState
<1>5. UNCHANGED <<gen, EventLogHolds>>
  BY DEF PublishBatch, EventLogHolds, Carried
<1>6. EventLog!Accept(S)
  BY <1>3, <1>4, <1>5 DEF EventLog!Accept
<1>7. QED
  BY <1>1, <1>6

\* A committed lease batch is one Lease.
LEMMA LeaseManyIsLease ==
  ASSUME TypeOK, Custody, NEW S \in SUBSET Event, LeaseMany(S)
  PROVE  EventLog!Lease(S)
<1>1. \A e \in S : row[e] = "ready" /\ row'[e] = "leased"
  BY DEF LeaseMany, ReadyRows, TypeOK
<1>2. \A e \in Event \ S : row'[e] = row[e]
  BY DEF LeaseMany, TypeOK
<1>3. (\A e \in S : EventLogState[e] = "pending") /\ EventLogState' = EventLogState
  BY <1>1, <1>2 DEF EventLogState
<1>4. gen' = [e \in Event |-> IF e \in S THEN gen[e] + 1 ELSE gen[e]]
  BY DEF LeaseMany
<1>5. Carried' = Carried \cup {[e |-> e, g |-> gen[e] + 1] : e \in S}
  BY DEF LeaseMany, Carried, Custody
<1>6. EventLogHolds' = EventLogHolds \cup {<<e, gen[e] + 1>> : e \in S}
  <2> DEFINE N == {[e |-> e, g |-> gen[e] + 1] : e \in S}
  <2>1. {<<l.e, l.g>> : l \in N} = {<<e, gen[e] + 1>> : e \in S}
    <3>1. ASSUME NEW l \in N PROVE <<l.e, l.g>> \in {<<e, gen[e] + 1>> : e \in S}
      OBVIOUS
    <3>2. ASSUME NEW e \in S PROVE \E l \in N : <<e, gen[e] + 1>> = <<l.e, l.g>>
      <4>1. [e |-> e, g |-> gen[e] + 1] \in N
        OBVIOUS
      <4>2. QED
        BY <4>1
    <3>3. QED
      BY <3>1, <3>2
  <2> HIDE DEF N
  <2>2. EventLogHolds' = {<<l.e, l.g>> : l \in Carried \cup N}
    BY <1>5 DEF EventLogHolds, N
  <2>3. EventLogHolds' = EventLogHolds \cup {<<l.e, l.g>> : l \in N}
    BY <2>2 DEF EventLogHolds
  <2>4. QED
    BY <2>1, <2>3
<1>7. QED
  BY <1>3, <1>4, <1>6 DEF EventLog!Lease

\* An acknowledgement by the consumer is one Ack that drops the lease.
LEMMA EventAckIsAck ==
  ASSUME TypeOK, Custody, AcknowledgeEvent
  PROVE  held.e \in Event /\ EventLog!Ack(held.e)
<1>1. /\ held \in leases /\ held \in Lease /\ held \notin prefetch \cup reply
      /\ gen[held.e] = held.g /\ row[held.e] \in {"ready", "leased"}
  BY DEF AcknowledgeEvent, Custody, HeldIsCurrent, Working, Matches, TypeOK
<1>2. held.e \in Event
  BY <1>1 DEF Lease
<1>3. EventLogState[held.e] = "pending"
  BY <1>1, <1>2 DEF EventLogState
<1>4. EventLogState' = [EventLogState EXCEPT ![held.e] = "acked"]
  <2>1. \A e \in Event : row'[e] = IF e = held.e THEN "acked" ELSE row[e]
    BY <1>2 DEF AcknowledgeEvent, TypeOK
  <2>2. QED
    BY <1>2, <2>1 DEF EventLogState
<1>5. Carried' = Carried \ {held} /\ held \in Carried
  BY <1>1 DEF AcknowledgeEvent, Carried
<1>6. \A l \in Carried : <<l.e, l.g>> = <<held.e, held.g>> => l = held
  BY <1>1 DEF Carried, TypeOK, Lease
<1>7. /\ EventLogHolds' = EventLogHolds \ {<<held.e, held.g>>}
      /\ <<held.e, held.g>> \in EventLogHolds
  BY <1>5, <1>6 DEF EventLogHolds
<1>8. gen' = gen
  BY DEF AcknowledgeEvent
<1>9. QED
  BY <1>1, <1>2, <1>3, <1>4, <1>7, <1>8 DEF EventLog!Ack

\* Every step of the intake path is a step of IntakeLog.
LEMMA IntakeStepIsLogStep ==
  ASSUME TypeOK, Custody, [Next]_vars
  PROVE  [EventLog!Next]_(EventLog!logvars)
<1>1. ASSUME NEW p \in Producer, PublishBatch(p) PROVE EventLog!Next
  BY <1>1, PublishIsAccept DEF EventLog!Next
<1>2. ASSUME NEW S \in SUBSET Event, LeaseMany(S) PROVE EventLog!Next
  BY <1>2, LeaseManyIsLease DEF EventLog!Next
<1>3. CASE AcknowledgeEvent
  BY <1>3, EventAckIsAck DEF EventLog!Next
<1>4. ASSUME row' = row, gen' = gen, Carried' \subseteq Carried PROVE EventLog!Next
  <2>1. EventLogState' = EventLogState
    BY <1>4 DEF EventLogState
  <2>2. QED
    BY <1>4, <2>1, ShrinkIsForget DEF EventLog!Next
<1>5. ASSUME NEW e \in Event, Lapse(e) PROVE EventLog!Next
  <2>1. \A f \in Event : row'[f] = IF f = e THEN "ready" ELSE row[f]
    BY <1>5 DEF Lapse, TypeOK
  <2>2. EventLogState' = EventLogState
    BY <1>5, <2>1 DEF EventLogState, Lapse
  <2>3. gen' = gen /\ Carried' = Carried
    BY <1>5 DEF Lapse, volatile, Carried
  <2>4. QED
    BY <2>2, <2>3, ShrinkIsForget DEF EventLog!Next
<1>6. CASE RetryEvent
  <2>1. held.e \in Event /\ row[held.e] \in {"ready", "leased"}
    BY <1>6 DEF RetryEvent, Matches, TypeOK, Lease
  <2>2. \A f \in Event : row'[f] = IF f = held.e THEN "ready" ELSE row[f]
    BY <1>6, <2>1 DEF RetryEvent, TypeOK
  <2>3. EventLogState' = EventLogState
    BY <2>1, <2>2 DEF EventLogState
  <2>4. gen' = gen /\ Carried' \subseteq Carried
    BY <1>6 DEF RetryEvent, Carried
  <2>5. QED
    BY <2>3, <2>4, ShrinkIsForget DEF EventLog!Next
<1>7. \/ row' = row /\ gen' = gen /\ Carried' \subseteq Carried
      \/ \E p \in Producer : PublishBatch(p)
      \/ \E S \in SUBSET Event : LeaseMany(S)
      \/ \E e \in Event : Lapse(e)
      \/ AcknowledgeEvent \/ RetryEvent
  BY DEF Next, vars, durable, volatile, Carried, Crawl, PollOutbox, PollPlain, Expire,
         LeaseReturns, LeaseTimesOut, Take, Record, RecordFails, Deliver, AckOutbox,
         DeliverFails, AcknowledgeFails, Index, IndexFails, RetryFails, Crash, Restart
<1>8. QED
  BY <1>1, <1>2, <1>3, <1>4, <1>5, <1>6, <1>7

\* The mesh with its prefetch buffer, its consumer and its restarts implements the
\* fenced at-least-once intake the journal alone implements.
THEOREM IntakeImplementsLog == Spec => MeshImplementsLog
<1>1. Init => EventLog!Init
  <2> SUFFICES ASSUME Init PROVE EventLog!Init
    OBVIOUS
  <2>1. EventLogState = [e \in Event |-> "absent"]
    BY DEF Init, EventLogState
  <2>2. EventLogHolds = {}
    BY DEF Init, InitVolatile, EventLogHolds, Carried
  <2>3. QED
    BY <2>1, <2>2 DEF EventLog!Init, Init
<1>2. IntakeInv /\ [Next]_vars => [EventLog!Next]_(EventLog!logvars)
  BY IntakeStepIsLogStep DEF IntakeInv
<1>3. QED
  BY <1>1, <1>2, IntakeInvariant, PTL DEF Spec, MeshImplementsLog, EventLog!Spec
=============================================================================
