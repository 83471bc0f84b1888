--------------------------- MODULE ResearchProofs ---------------------------
(***************************************************************************)
(* Proofs about research work: the durable queue (FrontierJobs) for any    *)
(* jobs, coordinates, tags, workers and clocks; the pass that converts     *)
(* what it leases (ResearchPass) for any series, requests and page size;   *)
(* and which work a pass leases (WorkflowRotation) for any jobs, costs,    *)
(* kinds, floors, limit and budget.                                        *)
(*                                                                         *)
(* Every operation of the queue but the lease changes one row through      *)
(* Update, so what the triggers and the transitions log do is proved once. *)
(* The pass is proved from the shape of its phases (InOrder): what the job *)
(* in hand has written so far (Traced), and whom the catalogue, the cache, *)
(* the cursors and the pages of a drain still promise to wake (Awaited).   *)
(* The rotation is proved from the turns that a waiting kind is still away *)
(* from its own (TurnKept), the envelope that covers what is in hand       *)
(* (Envelope) and the floors the second lease has visited (FloorsMet).     *)
(***************************************************************************)
EXTENDS FrontierJobs, ResearchPass, WorkflowRotation, FiniteSetTheorems, WellFoundedInduction, TLAPS

\* What an operation must not break besides the derived tables.
RowsSound == OneOwner /\ SleepIsNamed /\ HeldIsPast /\ FreshRows

\* One updated row: the triggers keep active_job_tags exact and the event keeps the
\* log faithful when it records the state the row was in.
LEMMA UpdateFacts ==
  ASSUME FrontierTypeOK, ActiveTagsExact, AuditTrail,
         NEW j \in Job, NEW row \in JobRow, Update(j, row, job[j].state)
  PROVE  /\ job' \in [Job -> JobRow] /\ active' \subseteq Tag \X Job
         /\ trail' \in [Job -> JobState \cup {"BROKEN"}]
         /\ job'[j] = row /\ \A i \in Job : i # j => job'[i] = job[i]
         /\ ActiveTagsExact' /\ AuditTrail'
<1>1. /\ job' \in [Job -> JobRow] /\ job'[j] = row
      /\ \A i \in Job : i # j => job'[i] = job[i]
  BY DEF Update, FrontierTypeOK
<1>2. active' = {p \in Tag \X Job : /\ p[1] \in TagsOf[p[2]]
                                    /\ job'[p[2]].costed /\ job'[p[2]].state \in Open}
  <2>1. active' = {p \in active : p[2] \notin {j}}
                    \cup {p \in Tag \X {j} : /\ p[1] \in TagsOf[p[2]]
                                             /\ job'[p[2]].costed /\ job'[p[2]].state \in Open}
    BY DEF Update, Retagged
  <2>2. ASSUME NEW p \in Tag \X Job, p[2] # j PROVE p \in active' <=> p \in active
    BY <2>1, <2>2
  <2>3. ASSUME NEW p \in Tag \X Job, p[2] = j
        PROVE  p \in active' <=> /\ p[1] \in TagsOf[p[2]]
                                 /\ job'[p[2]].costed /\ job'[p[2]].state \in Open
    BY <2>1, <2>3
  <2>4. active' \subseteq Tag \X Job
    BY <2>1 DEF FrontierTypeOK
  <2>5. ASSUME NEW p \in Tag \X Job, p[2] # j
        PROVE  p \in active' <=> /\ p[1] \in TagsOf[p[2]]
                                 /\ job'[p[2]].costed /\ job'[p[2]].state \in Open
    BY <1>1, <2>2, <2>5 DEF ActiveTagsExact
  <2>6. QED
    BY <2>3, <2>4, <2>5
<1>3. \A i \in Job : trail'[i] = job'[i].state
  BY <1>1 DEF Update, Logged, AuditTrail
<1>4. trail' \in [Job -> JobState \cup {"BROKEN"}]
  <2>1. trail' = [i \in Job |-> trail'[i]]
    BY DEF Update, Logged
  <2>2. \A i \in Job : trail'[i] \in JobState
    BY <1>1, <1>3 DEF JobRow
  <2>3. QED
    BY <2>1, <2>2
<1>5. QED
  BY <1>1, <1>2, <1>3, <1>4 DEF ActiveTagsExact, AuditTrail

\* A row without a lease replaced by one without a lease disturbs no lease.
LEMMA PlainUpdateSound ==
  ASSUME FrontierTypeOK, ActiveTagsExact, AuditTrail, RowsSound,
         NEW j \in Job, NEW row \in JobRow, Update(j, row, job[j].state), UNCHANGED held,
         row.state \notin {"NONE", "LEASED"}, row.owner = None, row.token = 0,
         row.attempts = job[j].attempts,
         row.state = "HIBERNATED" => row.change # None,
         \A c \in Coord : Hibernated(c)' => coord'[c].change # None
  PROVE  RowsSound' /\ job' \in [Job -> JobRow] /\ active' \subseteq Tag \X Job
         /\ trail' \in [Job -> JobState \cup {"BROKEN"}] /\ ActiveTagsExact' /\ AuditTrail'
<1>1. /\ job' \in [Job -> JobRow] /\ active' \subseteq Tag \X Job
      /\ trail' \in [Job -> JobState \cup {"BROKEN"}]
      /\ job'[j] = row /\ \A i \in Job : i # j => job'[i] = job[i]
      /\ ActiveTagsExact' /\ AuditTrail'
  BY UpdateFacts
<1>2. HeldIsPast'
  BY <1>1 DEF RowsSound, HeldIsPast, FrontierTypeOK, HeldLease
<1>3. SleepIsNamed'
  BY <1>1 DEF RowsSound, SleepIsNamed
<1>4. ASSUME NEW h \in held, h.j = j PROVE h.token # 0
  BY DEF FrontierTypeOK, HeldLease
<1>5. OneOwner'
  BY <1>1, <1>4 DEF RowsSound, OneOwner
<1>6. FreshRows'
  BY <1>1 DEF RowsSound, FreshRows
<1>7. QED
  BY <1>1, <1>2, <1>3, <1>5, <1>6 DEF RowsSound

\* The row a worker gives back has no lease.
LEMMA ReleasedRow ==
  ASSUME NEW row \in JobRow
  PROVE  /\ Released(row) \in JobRow /\ Released(row).owner = None
         /\ Released(row).token = 0 /\ Released(row).attempts = row.attempts
         /\ Released(row).costed = row.costed
BY DEF Released, JobRow

\* enqueue keeps the invariant.
LEMMA EnqueueStep ==
  ASSUME FrontierInv, NEW j \in Job, NEW costed \in BOOLEAN, NEW t \in Time, Enqueue(j, costed, t)
  PROVE  FrontierInv'
<1> DEFINE row == [NoJob EXCEPT !.state = IF Hibernated(CoordOf[j]) THEN "HIBERNATED" ELSE "READY",
                               !.costed = costed, !.avail = t,
                               !.change = IF Hibernated(CoordOf[j]) THEN coord[CoordOf[j]].change
                                          ELSE None]
<1>1. CoordOf[j] \in Coord /\ t \in Nat
  BY FrontierConstants
<1>2. row \in JobRow
  BY <1>1 DEF NoJob, JobRow, JobState, FrontierInv, FrontierTypeOK, CoordRow
<1>3. row.state = "HIBERNATED" => row.change # None
  BY <1>1, FrontierConstants DEF NoJob, FrontierInv, SleepIsNamed
<1>4. row.state \notin {"NONE", "LEASED"} /\ row.owner = None /\ row.token = 0 /\ row.attempts = 0
  BY DEF NoJob
<1>5. job[j].state = "NONE" /\ Update(j, row, job[j].state) /\ UNCHANGED held
  BY DEF Enqueue
<1>6. coord' \in [Coord -> CoordRow]
  BY <1>1 DEF Enqueue, FrontierInv, FrontierTypeOK, CoordRow
<1>7. \A c \in Coord : Hibernated(c)' => coord'[c].change # None
  BY <1>1 DEF Enqueue, FrontierInv, FrontierTypeOK, CoordRow, SleepIsNamed, Hibernated
<1>8. job[j].attempts = 0
  BY <1>5 DEF FrontierInv, FreshRows
<1> HIDE DEF row
<1>9. QED
  BY <1>2, <1>3, <1>4, <1>5, <1>6, <1>7, <1>8, PlainUpdateSound
     DEF FrontierInv, RowsSound, FrontierTypeOK

\* ack keeps the invariant: its literal previous state is right because of _leased.
LEMMA AckStep ==
  ASSUME FrontierInv, NEW h \in held, NEW t \in Time, Ack(h, t)
  PROVE  FrontierInv'
<1> DEFINE row == [Released(job[h.j]) EXCEPT !.state = "ACKED"]
<1>1. h.j \in Job /\ job[h.j] \in JobRow
  BY DEF FrontierInv, FrontierTypeOK, HeldLease
<1>2. /\ row \in JobRow /\ row.state \notin {"NONE", "LEASED"} /\ row.owner = None
      /\ row.token = 0 /\ row.attempts = job[h.j].attempts
  BY <1>1, ReleasedRow, FrontierConstants DEF JobRow, JobState
<1>3. row.state = "HIBERNATED" => row.change # None
  BY <1>1, ReleasedRow, FrontierConstants DEF JobRow
<1>4. Update(h.j, row, job[h.j].state) /\ UNCHANGED held
  BY DEF Ack, Leased
<1>8. \A c \in Coord : Hibernated(c)' => coord'[c].change # None
  BY DEF Ack, FrontierInv, SleepIsNamed, Hibernated
<1> HIDE DEF row
<1>9. QED
  BY <1>1, <1>2, <1>3, <1>4, <1>8, PlainUpdateSound
     DEF Ack, FrontierInv, RowsSound, FrontierTypeOK

\* retry keeps the invariant.
LEMMA RetryStep ==
  ASSUME FrontierInv, NEW h \in held, NEW t \in Time, Retry(h, t)
  PROVE  FrontierInv'
<1> DEFINE row == [Released(job[h.j]) EXCEPT !.state = "RETRY", !.avail = t + RetryDelay]
<1>1. h.j \in Job /\ job[h.j] \in JobRow
  BY DEF FrontierInv, FrontierTypeOK, HeldLease
<1>2. /\ row \in JobRow /\ row.state \notin {"NONE", "LEASED"} /\ row.owner = None
      /\ row.token = 0 /\ row.attempts = job[h.j].attempts
  <2>1. t + RetryDelay \in Nat
    BY FrontierConstants
  <2>2. QED
    BY <1>1, <2>1, ReleasedRow DEF JobRow, JobState
<1>3. row.state = "HIBERNATED" => row.change # None
  BY <1>1, ReleasedRow, FrontierConstants DEF JobRow
<1>4. Update(h.j, row, job[h.j].state) /\ UNCHANGED held
  BY DEF Retry, Leased
<1>8. \A c \in Coord : Hibernated(c)' => coord'[c].change # None
  BY DEF Retry, FrontierInv, SleepIsNamed, Hibernated
<1> HIDE DEF row
<1>9. QED
  BY <1>1, <1>2, <1>3, <1>4, <1>8, PlainUpdateSound
     DEF Retry, FrontierInv, RowsSound, FrontierTypeOK

\* block_leased_job keeps the invariant.
LEMMA BlockStep ==
  ASSUME FrontierInv, NEW h \in held, NEW ch \in Change, NEW t \in Time, BlockLeasedJob(h, ch, t)
  PROVE  FrontierInv'
<1> DEFINE row == [Released(job[h.j]) EXCEPT !.state = "HIBERNATED", !.change = ch]
<1>1. h.j \in Job /\ job[h.j] \in JobRow
  BY DEF FrontierInv, FrontierTypeOK, HeldLease
<1>2. /\ row \in JobRow /\ row.state \notin {"NONE", "LEASED"} /\ row.owner = None
      /\ row.token = 0 /\ row.attempts = job[h.j].attempts
  BY <1>1, ReleasedRow, FrontierConstants DEF JobRow, JobState
<1>3. row.state = "HIBERNATED" => row.change # None
  BY <1>1, ReleasedRow, FrontierConstants DEF JobRow
<1>4. Update(h.j, row, job[h.j].state) /\ UNCHANGED held
  BY DEF BlockLeasedJob, Leased
<1>8. \A c \in Coord : Hibernated(c)' => coord'[c].change # None
  BY DEF BlockLeasedJob, FrontierInv, SleepIsNamed, Hibernated
<1> HIDE DEF row
<1>9. QED
  BY <1>1, <1>2, <1>3, <1>4, <1>8, PlainUpdateSound
     DEF BlockLeasedJob, FrontierInv, RowsSound, FrontierTypeOK

\* price_pending_job keeps the invariant.
LEMMA PriceStep ==
  ASSUME FrontierInv, NEW j \in Job, PricePendingJob(j)
  PROVE  FrontierInv'
<1> DEFINE row == [job[j] EXCEPT !.costed = TRUE]
<1>1. j \in Job /\ job[j] \in JobRow
  BY DEF FrontierInv, FrontierTypeOK, HeldLease
<1>2. /\ row \in JobRow /\ row.state \notin {"NONE", "LEASED"} /\ row.owner = None
      /\ row.token = 0 /\ row.attempts = job[j].attempts
  <2>1. job[j].owner = None /\ job[j].token = 0
    BY DEF PricePendingJob, FrontierInv, OneOwner
  <2>2. QED
    BY <1>1, <2>1, FrontierConstants DEF PricePendingJob, JobRow, JobState
<1>3. row.state = "HIBERNATED" => row.change # None
  BY <1>1, FrontierConstants DEF PricePendingJob, JobRow
<1>4. Update(j, row, job[j].state) /\ UNCHANGED held
  BY DEF PricePendingJob
<1>8. \A c \in Coord : Hibernated(c)' => coord'[c].change # None
  BY DEF PricePendingJob, FrontierInv, SleepIsNamed, Hibernated
<1> HIDE DEF row
<1>9. QED
  BY <1>1, <1>2, <1>3, <1>4, <1>8, PlainUpdateSound
     DEF PricePendingJob, FrontierInv, RowsSound, FrontierTypeOK

\* hibernate_job keeps the invariant.
LEMMA HibernateStep ==
  ASSUME FrontierInv, NEW j \in Job, NEW ch \in Change, HibernateJob(j, ch)
  PROVE  FrontierInv'
<1> DEFINE row == [job[j] EXCEPT !.state = "HIBERNATED", !.change = ch]
<1>1. j \in Job /\ job[j] \in JobRow
  BY DEF FrontierInv, FrontierTypeOK, HeldLease
<1>2. /\ row \in JobRow /\ row.state \notin {"NONE", "LEASED"} /\ row.owner = None
      /\ row.token = 0 /\ row.attempts = job[j].attempts
  <2>1. job[j].owner = None /\ job[j].token = 0
    BY DEF HibernateJob, FrontierInv, OneOwner
  <2>2. QED
    BY <1>1, <2>1, FrontierConstants DEF HibernateJob, JobRow, JobState
<1>3. row.state = "HIBERNATED" => row.change # None
  BY <1>1, FrontierConstants DEF HibernateJob, JobRow
<1>4. Update(j, row, job[j].state) /\ UNCHANGED held
  BY DEF HibernateJob
<1>8. \A c \in Coord : Hibernated(c)' => coord'[c].change # None
  BY DEF HibernateJob, FrontierInv, SleepIsNamed, Hibernated
<1> HIDE DEF row
<1>9. QED
  BY <1>1, <1>2, <1>3, <1>4, <1>8, PlainUpdateSound
     DEF HibernateJob, FrontierInv, RowsSound, FrontierTypeOK

\* wake_job keeps the invariant.
LEMMA WakeStep ==
  ASSUME FrontierInv, NEW j \in Job, NEW ch \in Change, NEW costed \in BOOLEAN,
         NEW t \in Time, WakeJob(j, ch, costed, t)
  PROVE  FrontierInv'
<1> DEFINE row == [job[j] EXCEPT !.state = "READY", !.avail = t, !.costed = costed]
<1>1. j \in Job /\ job[j] \in JobRow
  BY DEF FrontierInv, FrontierTypeOK, HeldLease
<1>2. /\ row \in JobRow /\ row.state \notin {"NONE", "LEASED"} /\ row.owner = None
      /\ row.token = 0 /\ row.attempts = job[j].attempts
  <2>1. job[j].owner = None /\ job[j].token = 0
    BY DEF WakeJob, FrontierInv, OneOwner
  <2>2. QED
    BY <1>1, <2>1, FrontierConstants DEF WakeJob, JobRow, JobState
<1>3. row.state = "HIBERNATED" => row.change # None
  BY <1>1, FrontierConstants DEF WakeJob, JobRow
<1>4. Update(j, row, job[j].state) /\ UNCHANGED held
  BY DEF WakeJob
<1>8. \A c \in Coord : Hibernated(c)' => coord'[c].change # None
  BY DEF WakeJob, FrontierInv, SleepIsNamed, Hibernated
<1> HIDE DEF row
<1>9. QED
  BY <1>1, <1>2, <1>3, <1>4, <1>8, PlainUpdateSound
     DEF WakeJob, FrontierInv, RowsSound, FrontierTypeOK

\* lease_jobs keeps the invariant: every selected row gets a token nobody holds.
LEMMA LeaseStep ==
  ASSUME FrontierInv, NEW w \in Worker, NEW S \in SUBSET Job, NEW t \in Time, LeaseJobs(w, S, t)
  PROVE  FrontierInv'
<1> DEFINE lease(j) == [job[j] EXCEPT !.state = "LEASED", !.owner = w, !.until = t + LeaseFor,
                                      !.token = job[j].attempts + 1, !.attempts = @ + 1]
<1>1. t \in Nat /\ LeaseFor \in Nat /\ w # None
  BY FrontierConstants
<1>2. ASSUME NEW j \in S
      PROVE  /\ lease(j) \in JobRow /\ lease(j).state = "LEASED" /\ lease(j).owner = w
             /\ lease(j).token = job[j].attempts + 1 /\ lease(j).attempts = job[j].attempts + 1
             /\ lease(j).costed = job[j].costed
  <2> DEFINE u == t + LeaseFor
             n == job[j].attempts + 1
  <2>1. job[j] \in JobRow /\ u \in Nat
    BY <1>1, <1>2 DEF FrontierInv, FrontierTypeOK
  <2>2. n \in Nat
    BY <2>1 DEF JobRow
  <2>3. lease(j) = [job[j] EXCEPT !.state = "LEASED", !.owner = w, !.until = u,
                                  !.token = n, !.attempts = n]
    OBVIOUS
  <2> HIDE DEF u, lease
  <2>4. lease(j) \in JobRow /\ lease(j).state = "LEASED" /\ lease(j).owner = w
        /\ lease(j).token = n /\ lease(j).attempts = n /\ lease(j).costed = job[j].costed
    <3> HIDE DEF n
    <3>1. QED
      BY <2>1, <2>2, <2>3 DEF JobRow, JobState
  <2>5. QED
    BY <2>4
<1>3. \A j \in Job : job'[j] = IF j \in S THEN lease(j) ELSE job[j]
  BY DEF LeaseJobs
<1>4. job' = [j \in Job |-> job'[j]]
  BY DEF LeaseJobs
<1> HIDE DEF lease
<1>5. job' \in [Job -> JobRow]
  BY <1>2, <1>3, <1>4 DEF FrontierInv, FrontierTypeOK
<1>6. \A j \in S : job[j].costed /\ job[j].state \in Open
  BY DEF LeaseJobs, Eligible, Due, Open
<1>7. \A j \in Job : /\ job'[j].costed = job[j].costed
                     /\ job'[j].state \in Open <=> job[j].state \in Open
  BY <1>2, <1>3, <1>6 DEF Open
<1>8. active' = {p \in active : p[2] \notin S}
                  \cup {p \in Tag \X S : /\ p[1] \in TagsOf[p[2]]
                                         /\ job'[p[2]].costed /\ job'[p[2]].state \in Open}
  BY DEF LeaseJobs, Retagged
<1>9. active' = active
  <2>1. ASSUME NEW p \in Tag \X Job PROVE p \in active' <=> p \in active
    BY <1>7, <1>8 DEF FrontierInv, ActiveTagsExact
  <2>2. active' \subseteq Tag \X Job /\ active \subseteq Tag \X Job
    BY <1>8 DEF FrontierInv, FrontierTypeOK
  <2>3. QED
    BY <2>1, <2>2
<1>10. ActiveTagsExact'
  BY <1>7, <1>9 DEF FrontierInv, ActiveTagsExact
<1>11. \A j \in Job : trail'[j] = job'[j].state
  BY <1>3 DEF LeaseJobs, Logged, FrontierInv, AuditTrail
<1>12. trail' \in [Job -> JobState \cup {"BROKEN"}]
  <2>1. trail' = [j \in Job |-> trail'[j]]
    <3>1. trail' = Logged(S, [j \in Job |-> job[j].state], job')
      BY DEF LeaseJobs
    <3>2. QED
      BY <3>1, Zenon DEF Logged
  <2>2. \A j \in Job : trail'[j] \in JobState
    BY <1>5, <1>11 DEF JobRow
  <2>3. QED
    BY <2>1, <2>2
<1>13. held' = held \cup {[j |-> j, w |-> w, token |-> job[j].attempts + 1] : j \in S}
  BY DEF LeaseJobs
<1>14. ASSUME NEW h \in held' \ held
       PROVE  h \in HeldLease /\ h.j \in S /\ h.w = w /\ h.token = job[h.j].attempts + 1
  BY <1>13 DEF FrontierInv, FrontierTypeOK, JobRow, HeldLease
<1>15. held' \subseteq HeldLease
  BY <1>14 DEF FrontierInv, FrontierTypeOK
<1>16. ASSUME NEW h \in held
       PROVE  h.j \in Job /\ h.token \in Nat /\ h.token <= job[h.j].attempts
  BY DEF FrontierInv, FrontierTypeOK, HeldIsPast, HeldLease
<1>17. \A j \in Job : job[j].attempts \in Nat
  BY DEF FrontierInv, FrontierTypeOK, JobRow
<1>18. HeldIsPast'
  BY <1>2, <1>3, <1>14, <1>16, <1>17 DEF HeldIsPast
<1>19. OneOwner'
  <2>1. ASSUME NEW j \in Job, NEW h \in held', h.j = j, h.token = job'[j].token
        PROVE  h.w = job'[j].owner
    <3>1. CASE j \in S /\ h \in held
      BY <1>2, <1>3, <1>16, <1>17, <2>1, <3>1
    <3>2. CASE h \notin held
      BY <1>2, <1>3, <1>14, <2>1, <3>2
    <3>3. CASE j \notin S /\ h \in held
      BY <1>3, <2>1, <3>3 DEF FrontierInv, OneOwner
    <3>4. QED
      BY <3>1, <3>2, <3>3
  <2>2. QED
    BY <1>1, <1>2, <1>3, <2>1 DEF FrontierInv, OneOwner
<1>20. SleepIsNamed'
  BY <1>2, <1>3 DEF LeaseJobs, FrontierInv, SleepIsNamed, Hibernated
<1>21. FreshRows'
  BY <1>2, <1>3 DEF FrontierInv, FreshRows
<1>22. coord' = coord
  BY DEF LeaseJobs
<1>23. QED
  BY <1>5, <1>9, <1>10, <1>11, <1>12, <1>15, <1>18, <1>19, <1>20, <1>21, <1>22
     DEF FrontierInv, FrontierTypeOK, AuditTrail

\* Operations on coordinates and forgotten leases touch no job.
LEMMA CoordinateStep ==
  ASSUME FrontierInv, UNCHANGED <<job, active, trail>>, held' \subseteq held,
         coord' \in [Coord -> CoordRow],
         \A c \in Coord : Hibernated(c)' => coord'[c].change # None
  PROVE  FrontierInv'
BY DEF FrontierInv, FrontierTypeOK, ActiveTagsExact, AuditTrail, OneOwner, SleepIsNamed,
       HeldIsPast, FreshRows

\* Every step keeps the invariant.
LEMMA FrontierStep ==
  ASSUME FrontierInv, [NextFrontier]_fvars
  PROVE  FrontierInv'
<1>1. ASSUME NEW j \in Job, NEW costed \in BOOLEAN, NEW t \in Time, Enqueue(j, costed, t)
      PROVE  FrontierInv'
  BY <1>1, EnqueueStep
<1>2. ASSUME NEW c \in Coord, NEW state \in {"DISCOVERED", "HIBERNATED_LOW_VOI"},
             NEW ch \in Change \cup {None}, ObserveCoordinate(c, state, ch)
      PROVE  FrontierInv'
  <2>1. coord' \in [Coord -> CoordRow]
    BY <1>2 DEF ObserveCoordinate, FrontierInv, FrontierTypeOK, CoordRow
  <2>2. \A d \in Coord : Hibernated(d)' => coord'[d].change # None
    BY <1>2
       DEF ObserveCoordinate, FrontierInv, FrontierTypeOK, CoordRow, SleepIsNamed,
           Hibernated
  <2>3. QED
    BY <1>2, <2>1, <2>2, CoordinateStep DEF ObserveCoordinate
<1>3. ASSUME NEW c \in Coord, NEW ch \in Change, WakeCoordinate(c, ch) PROVE FrontierInv'
  <2>1. coord' \in [Coord -> CoordRow]
    BY <1>3 DEF WakeCoordinate, FrontierInv, FrontierTypeOK, CoordRow
  <2>2. \A d \in Coord : Hibernated(d)' => coord'[d].change # None
    BY <1>3 DEF WakeCoordinate, FrontierInv, FrontierTypeOK, CoordRow, SleepIsNamed, Hibernated
  <2>3. QED
    BY <1>3, <2>1, <2>2, CoordinateStep DEF WakeCoordinate
<1>4. ASSUME NEW w \in Worker, NEW S \in SUBSET Job, NEW t \in Time, LeaseJobs(w, S, t)
      PROVE  FrontierInv'
  BY <1>4, LeaseStep
<1>5. ASSUME NEW j \in Job, PricePendingJob(j) PROVE FrontierInv'
  BY <1>5, PriceStep
<1>6. ASSUME NEW h \in held, NEW t \in Time, Ack(h, t) \/ Retry(h, t) PROVE FrontierInv'
  BY <1>6, AckStep, RetryStep
<1>7. ASSUME NEW h \in held, NEW ch \in Change, NEW t \in Time, BlockLeasedJob(h, ch, t)
      PROVE  FrontierInv'
  BY <1>7, BlockStep
<1>8. ASSUME NEW j \in Job, NEW ch \in Change, HibernateJob(j, ch) PROVE FrontierInv'
  BY <1>8, HibernateStep
<1>9. ASSUME NEW j \in Job, NEW ch \in Change, NEW costed \in BOOLEAN, NEW t \in Time,
             WakeJob(j, ch, costed, t)
      PROVE  FrontierInv'
  BY <1>9, WakeStep
<1>10. ASSUME NEW H \in SUBSET held, ForgetLeases(H) PROVE FrontierInv'
  <2>1. UNCHANGED <<coord, job, active, trail>> /\ held' \subseteq held
    BY <1>10 DEF ForgetLeases
  <2>2. QED
    BY <2>1, CoordinateStep DEF FrontierInv, FrontierTypeOK, SleepIsNamed, Hibernated
<1>11. CASE UNCHANGED fvars
  BY <1>11, CoordinateStep DEF fvars, FrontierInv, FrontierTypeOK, SleepIsNamed, Hibernated
<1>12. QED
  BY <1>1, <1>2, <1>3, <1>4, <1>5, <1>6, <1>7, <1>8, <1>9, <1>10, <1>11 DEF NextFrontier

\* The invariant of the research queue: exact derived tables, one live lease per
\* job, named hibernation.
THEOREM FrontierInvariant == SpecFrontier => []FrontierInv
<1>1. InitFrontier => FrontierInv
  <2> SUFFICES ASSUME InitFrontier PROVE FrontierInv
    OBVIOUS
  <2>1. FrontierTypeOK
    BY DEF InitFrontier, FrontierTypeOK, CoordRow, JobRow, JobState, NoJob
  <2>2. ActiveTagsExact
    BY DEF InitFrontier, ActiveTagsExact, NoJob
  <2>3. AuditTrail /\ OneOwner /\ HeldIsPast /\ FreshRows
    BY DEF InitFrontier, AuditTrail, OneOwner, HeldIsPast, FreshRows, NoJob
  <2>4. SleepIsNamed
    BY DEF InitFrontier, SleepIsNamed, NoJob, Hibernated
  <2>5. QED
    BY <2>1, <2>2, <2>3, <2>4 DEF FrontierInv
<1>2. QED
  BY <1>1, FrontierStep, PTL DEF SpecFrontier

\* Jobs, coordinates and leases keep their types, for any clocks the workers use.
THEOREM FrontierTyped == SpecFrontier => []FrontierTypeOK
<1>1. FrontierInv => FrontierTypeOK
  BY DEF FrontierInv
<1>2. QED
  BY <1>1, FrontierInvariant, PTL

\* active_job_tags is exactly the costed open work, for any queue.
THEOREM ActiveTagsAlwaysExact == SpecFrontier => []ActiveTagsExact
<1>1. FrontierInv => ActiveTagsExact
  BY DEF FrontierInv
<1>2. QED
  BY <1>1, FrontierInvariant, PTL

\* The transitions log is a faithful history of every job.
THEOREM AuditTrailFaithful == SpecFrontier => []AuditTrail
<1>1. FrontierInv => AuditTrail
  BY DEF FrontierInv
<1>2. QED
  BY <1>1, FrontierInvariant, PTL

\* No job ever has two live leases, whatever clocks its workers use.
THEOREM OneOwnerAlways == SpecFrontier => []OneOwner
<1>1. FrontierInv => OneOwner
  BY DEF FrontierInv
<1>2. QED
  BY <1>1, FrontierInvariant, PTL

\* Whatever sleeps names the change that wakes it.
THEOREM SleepAlwaysNamed == SpecFrontier => []SleepIsNamed
<1>1. FrontierInv => SleepIsNamed
  BY DEF FrontierInv
<1>2. QED
  BY <1>1, FrontierInvariant, PTL

\* What a step does to an existing job: nothing, one Update that starts from a state
\* that is neither NONE nor ACKED and ends a lease only for its holder, or a lease.
JobMove(i) ==
    \/ job'[i] = job[i]
    \/ /\ job[i].state \notin {"NONE", "ACKED"} /\ job'[i].attempts = job[i].attempts
       /\ job[i].state = "LEASED" =>
             /\ job'[i].state \in {"ACKED", "RETRY", "HIBERNATED"}
             /\ job'[i].costed = job[i].costed
             /\ [j |-> i, w |-> job[i].owner, token |-> job[i].attempts] \in held
    \/ /\ job[i].state \in Open /\ job'[i].state = "LEASED"
       /\ job'[i].attempts = job[i].attempts + 1 /\ job'[i].costed = job[i].costed
    \/ /\ job[i].state = "NONE" /\ job'[i].state \in {"READY", "HIBERNATED"}
       /\ job'[i].attempts = job[i].attempts

\* Every step moves every job in one of these ways.
LEMMA StepMoves ==
  ASSUME FrontierInv, NextFrontier, NEW i \in Job
  PROVE  JobMove(i)
<1>1. job[i] \in JobRow /\ job \in [Job -> JobRow]
  BY DEF FrontierInv, FrontierTypeOK
<1>2. ASSUME NEW j \in Job, NEW costed \in BOOLEAN, NEW t \in Time, Enqueue(j, costed, t)
      PROVE  JobMove(i)
  <2>1. j = i => job[i].attempts = 0
    BY <1>2 DEF Enqueue, FrontierInv, FreshRows
  <2>2. QED
    BY <1>1, <1>2, <2>1 DEF Enqueue, Update, NoJob, JobMove
<1>3. ASSUME NEW w \in Worker, NEW S \in SUBSET Job, NEW t \in Time, LeaseJobs(w, S, t)
      PROVE  JobMove(i)
  BY <1>1, <1>3 DEF LeaseJobs, Eligible, Due, Open, JobRow, JobMove
<1>4. ASSUME NEW j \in Job, PricePendingJob(j) PROVE JobMove(i)
  BY <1>1, <1>4 DEF PricePendingJob, Update, JobRow, JobMove
<1>5. ASSUME NEW h \in held, NEW t \in Time, Leased(h, t),
             \A k \in Job : k # h.j => job'[k] = job[k],
             job'[h.j].attempts = job[h.j].attempts, job'[h.j].costed = job[h.j].costed,
             job'[h.j].state \in {"ACKED", "RETRY", "HIBERNATED"}
      PROVE  JobMove(i)
  <2>1. h = [j |-> h.j, w |-> h.w, token |-> h.token] /\ h.j \in Job
    BY DEF FrontierInv, FrontierTypeOK, HeldLease
  <2>2. h.token = job[h.j].attempts /\ h.w = job[h.j].owner /\ job[h.j].state = "LEASED"
    BY <1>5, <2>1 DEF Leased, FrontierInv, OneOwner
  <2>3. QED
    BY <1>5, <2>1, <2>2 DEF JobMove
<1>6. ASSUME NEW h \in held, NEW t \in Time, NEW ch \in Change,
             Ack(h, t) \/ Retry(h, t) \/ BlockLeasedJob(h, ch, t)
      PROVE  JobMove(i)
  <2>1. h.j \in Job /\ job[h.j] \in JobRow
    BY DEF FrontierInv, FrontierTypeOK, HeldLease
  <2>2. Leased(h, t) /\ \A k \in Job : k # h.j => job'[k] = job[k]
    BY <1>1, <1>6 DEF Ack, Retry, BlockLeasedJob, Update
  <2>3. /\ job'[h.j].attempts = job[h.j].attempts /\ job'[h.j].costed = job[h.j].costed
        /\ job'[h.j].state \in {"ACKED", "RETRY", "HIBERNATED"}
    <3>1. PICK row \in JobRow : row = Released(job[h.j]) BY <2>1, ReleasedRow
    <3>2. row.attempts = job[h.j].attempts /\ row.costed = job[h.j].costed
      BY <2>1, <3>1, ReleasedRow
    <3>3. CASE Ack(h, t)
      <4>1. job'[h.j] = [row EXCEPT !.state = "ACKED"] BY <1>1, <2>1, <3>1, <3>3 DEF Ack, Update
      <4>2. QED BY <3>2, <4>1 DEF JobRow
    <3>4. CASE Retry(h, t)
      <4>1. job'[h.j] = [row EXCEPT !.state = "RETRY", !.avail = t + RetryDelay]
        BY <1>1, <2>1, <3>1, <3>4 DEF Retry, Update
      <4>2. QED BY <3>2, <4>1 DEF JobRow
    <3>5. CASE BlockLeasedJob(h, ch, t)
      <4>1. job'[h.j] = [row EXCEPT !.state = "HIBERNATED", !.change = ch]
        BY <1>1, <2>1, <3>1, <3>5 DEF BlockLeasedJob, Update
      <4>2. QED BY <3>2, <4>1 DEF JobRow
    <3>6. QED BY <1>6, <3>3, <3>4, <3>5
  <2>4. QED
    BY <1>5, <2>2, <2>3
<1>7. ASSUME NEW h \in held, NEW t \in Time, Ack(h, t) \/ Retry(h, t) PROVE JobMove(i)
  <2>1. h.j \in Job /\ job[h.j] \in JobRow
    BY DEF FrontierInv, FrontierTypeOK, HeldLease
  <2>2. Leased(h, t) /\ \A k \in Job : k # h.j => job'[k] = job[k]
    BY <1>1, <1>7 DEF Ack, Retry, Update
  <2>3. /\ job'[h.j].attempts = job[h.j].attempts /\ job'[h.j].costed = job[h.j].costed
        /\ job'[h.j].state \in {"ACKED", "RETRY", "HIBERNATED"}
    <3>1. PICK row \in JobRow : row = Released(job[h.j]) BY <2>1, ReleasedRow
    <3>2. row.attempts = job[h.j].attempts /\ row.costed = job[h.j].costed
      BY <2>1, <3>1, ReleasedRow
    <3>3. CASE Ack(h, t)
      <4>1. job'[h.j] = [row EXCEPT !.state = "ACKED"] BY <1>1, <2>1, <3>1, <3>3 DEF Ack, Update
      <4>2. QED BY <3>2, <4>1 DEF JobRow
    <3>4. CASE Retry(h, t)
      <4>1. job'[h.j] = [row EXCEPT !.state = "RETRY", !.avail = t + RetryDelay]
        BY <1>1, <2>1, <3>1, <3>4 DEF Retry, Update
      <4>2. QED BY <3>2, <4>1 DEF JobRow
    <3>5. QED BY <1>7, <3>3, <3>4
  <2>4. QED
    BY <1>5, <2>2, <2>3
<1>8. ASSUME NEW j \in Job, NEW ch \in Change, HibernateJob(j, ch) PROVE JobMove(i)
  BY <1>1, <1>8 DEF HibernateJob, Update, JobRow, JobMove
<1>9. ASSUME NEW j \in Job, NEW ch \in Change, NEW costed \in BOOLEAN, NEW t \in Time,
             WakeJob(j, ch, costed, t)
      PROVE  JobMove(i)
  BY <1>1, <1>9 DEF WakeJob, Update, JobRow, JobMove
<1>10. CASE job' = job
  BY <1>10 DEF JobMove
<1>11. QED
  BY <1>2, <1>3, <1>4, <1>6, <1>7, <1>8, <1>9, <1>10
     DEF NextFrontier, ObserveCoordinate, WakeCoordinate, ForgetLeases

\* Completed work is final.
THEOREM AckAlwaysFinal == SpecFrontier => AckIsFinal
<1>1. ASSUME FrontierInv, [NextFrontier]_fvars, NEW j \in Job, job[j].state = "ACKED"
      PROVE  job'[j] = job[j]
  BY <1>1, StepMoves DEF JobMove, Open, fvars
<1>2. FrontierInv /\ [NextFrontier]_fvars
        => [\A j \in Job : job[j].state = "ACKED" => job'[j] = job[j]]_fvars
  BY <1>1
<1>3. QED
  BY <1>2, FrontierInvariant, PTL DEF SpecFrontier, AckIsFinal

\* A lease ends by its holder, who completes, retries or blocks the job, or by a newer
\* lease, and nothing else touches a leased row (_leased, lease_jobs, enqueue).
THEOREM LeaseAlwaysEndsByOwner == SpecFrontier => LeaseEndsByOwner
<1>1. ASSUME FrontierInv, [NextFrontier]_fvars, NEW j \in Job,
             job[j].state = "LEASED", job'[j] # job[j]
      PROVE  /\ job'[j].costed = job[j].costed
             /\ \/ job'[j].state = "LEASED" /\ job'[j].attempts = job[j].attempts + 1
                \/ /\ job'[j].state \in {"ACKED", "RETRY", "HIBERNATED"}
                   /\ [j |-> j, w |-> job[j].owner, token |-> job[j].attempts] \in held
  BY <1>1, StepMoves DEF JobMove, fvars
<1>2. FrontierInv /\ [NextFrontier]_fvars
        => [\A j \in Job :
              job[j].state = "LEASED" /\ job'[j] # job[j] =>
                 /\ job'[j].costed = job[j].costed
                 /\ \/ job'[j].state = "LEASED" /\ job'[j].attempts = job[j].attempts + 1
                    \/ /\ job'[j].state \in {"ACKED", "RETRY", "HIBERNATED"}
                       /\ [j |-> j, w |-> job[j].owner, token |-> job[j].attempts] \in held]_fvars
  BY <1>1
<1>3. QED
  BY <1>2, FrontierInvariant, PTL DEF SpecFrontier, LeaseEndsByOwner

\* A step that keeps every job's standing and whose leases are among the old ones is
\* a Forget of IntakeLog.
LEMMA QuietIsForget ==
  ASSUME \A i \in Job : /\ job'[i].attempts = job[i].attempts
                        /\ (job'[i].state = "NONE") <=> (job[i].state = "NONE")
                        /\ (job'[i].state = "ACKED") <=> (job[i].state = "ACKED"),
         held' \subseteq held
  PROVE  \E H \in SUBSET JobLogHolds : JobLog!Forget(H)
<1>1. JobLogState' = JobLogState
  BY DEF JobLogState
<1>2. JobLogGen' = JobLogGen
  BY DEF JobLogGen
<1>3. JobLogHolds' \subseteq JobLogHolds
  BY DEF JobLogHolds
<1>4. JobLogHolds' = JobLogHolds \ (JobLogHolds \ JobLogHolds')
  BY <1>3
<1>5. JobLog!Forget(JobLogHolds \ JobLogHolds')
  BY <1>1, <1>2, <1>4 DEF JobLog!Forget
<1>6. QED
  BY <1>5

\* Enqueueing new work is one Accept.
LEMMA EnqueueIsAccept ==
  ASSUME FrontierInv, NEW j \in Job, NEW costed \in BOOLEAN, NEW t \in Time, Enqueue(j, costed, t)
  PROVE  JobLog!Accept({j})
<1>1. job \in [Job -> JobRow] /\ job[j].state = "NONE" /\ job[j].attempts = 0
  BY DEF FrontierInv, FrontierTypeOK, FreshRows, Enqueue
<1>2. \A i \in Job : i # j => job'[i] = job[i]
  BY <1>1 DEF Enqueue, Update
<1>3. job'[j].state \in {"READY", "HIBERNATED"} /\ job'[j].attempts = 0
  BY <1>1 DEF Enqueue, Update, NoJob
<1>4. JobLogState' = [i \in Job |-> IF i \in {j} THEN "pending" ELSE JobLogState[i]]
  BY <1>1, <1>2, <1>3 DEF JobLogState
<1>5. \A i \in {j} : JobLogState[i] = "absent"
  BY <1>1 DEF JobLogState
<1>6. JobLogGen' = JobLogGen
  BY <1>1, <1>2, <1>3 DEF JobLogGen
<1>7. JobLogHolds' = JobLogHolds
  BY DEF Enqueue, JobLogHolds
<1>8. QED
  BY <1>4, <1>5, <1>6, <1>7 DEF JobLog!Accept

\* A pass is one Lease of the jobs it selected.
LEMMA LeaseJobsIsLease ==
  ASSUME FrontierInv, NEW w \in Worker, NEW S \in SUBSET Job, NEW t \in Time, LeaseJobs(w, S, t)
  PROVE  JobLog!Lease(S)
<1> DEFINE N == {[j |-> j, w |-> w, token |-> job[j].attempts + 1] : j \in S}
<1>1. job \in [Job -> JobRow]
  BY DEF FrontierInv, FrontierTypeOK
<1>2. \A j \in S : /\ job[j].state \in Open /\ job'[j].state = "LEASED"
                   /\ job'[j].attempts = job[j].attempts + 1
  BY <1>1 DEF LeaseJobs, Eligible, Due, Open, JobRow
<1>3. \A j \in Job \ S : job'[j] = job[j]
  BY <1>1 DEF LeaseJobs
<1>4. (\A j \in S : JobLogState[j] = "pending") /\ JobLogState' = JobLogState
  BY <1>2, <1>3 DEF JobLogState, Open
<1>5. JobLogGen' = [j \in Job |-> IF j \in S THEN JobLogGen[j] + 1 ELSE JobLogGen[j]]
  BY <1>2, <1>3 DEF JobLogGen
<1>6. held' = held \cup N
  BY DEF LeaseJobs
<1>7. {<<h.j, h.token>> : h \in N} = {<<j, JobLogGen[j] + 1>> : j \in S}
  <2>1. ASSUME NEW h \in N PROVE <<h.j, h.token>> \in {<<j, JobLogGen[j] + 1>> : j \in S}
    BY DEF JobLogGen
  <2>2. ASSUME NEW j \in S PROVE \E h \in N : <<j, JobLogGen[j] + 1>> = <<h.j, h.token>>
    <3>1. [j |-> j, w |-> w, token |-> job[j].attempts + 1] \in N
      OBVIOUS
    <3>2. QED
      BY <3>1 DEF JobLogGen
  <2>3. QED
    BY <2>1, <2>2
<1> HIDE DEF N
<1>8. JobLogHolds' = JobLogHolds \cup {<<j, JobLogGen[j] + 1>> : j \in S}
  BY <1>6, <1>7 DEF JobLogHolds
<1>9. QED
  BY <1>4, <1>5, <1>8 DEF JobLog!Lease

\* An acknowledgement that passes the fence is one Ack by the latest lease.
LEMMA AckIsLogAck ==
  ASSUME FrontierInv, NEW h \in held, NEW t \in Time, Ack(h, t)
  PROVE  h.j \in Job /\ JobLog!Ack(h.j)
<1>1. job \in [Job -> JobRow] /\ h.j \in Job /\ job[h.j] \in JobRow
  BY DEF FrontierInv, FrontierTypeOK, HeldLease
<1>2. job[h.j].state = "LEASED" /\ h.token = job[h.j].attempts
  BY <1>1 DEF Ack, Leased, FrontierInv, OneOwner
<1>3. \A i \in Job : i # h.j => job'[i] = job[i]
  BY <1>1 DEF Ack, Update
<1>4. job'[h.j].state = "ACKED" /\ job'[h.j].attempts = job[h.j].attempts
  BY <1>1, ReleasedRow DEF Ack, Update, JobRow
<1>5. JobLogState[h.j] = "pending" /\ JobLogState' = [JobLogState EXCEPT ![h.j] = "acked"]
  BY <1>1, <1>2, <1>3, <1>4 DEF JobLogState
<1>6. JobLogGen' = JobLogGen
  BY <1>3, <1>4 DEF JobLogGen
<1>7. <<h.j, JobLogGen[h.j]>> \in JobLogHolds
  BY <1>1, <1>2 DEF JobLogGen, JobLogHolds
<1>8. JobLogHolds' = JobLogHolds
  BY DEF Ack, JobLogHolds
<1>9. QED
  BY <1>1, <1>5, <1>6, <1>7, <1>8 DEF JobLog!Ack

\* Every step of the queue is a step of IntakeLog.
LEMMA QueueStepIsLogStep ==
  ASSUME FrontierInv, [NextFrontier]_fvars
  PROVE  [JobLog!Next]_(JobLog!logvars)
<1>1. job \in [Job -> JobRow]
  BY DEF FrontierInv, FrontierTypeOK
<1>2. ASSUME \A i \in Job : /\ job'[i].attempts = job[i].attempts
                            /\ (job'[i].state = "NONE") <=> (job[i].state = "NONE")
                            /\ (job'[i].state = "ACKED") <=> (job[i].state = "ACKED"),
             held' \subseteq held
      PROVE  JobLog!Next
  BY <1>2, QuietIsForget DEF JobLog!Next
<1>3. ASSUME NEW j \in Job, NEW costed \in BOOLEAN, NEW t \in Time, Enqueue(j, costed, t)
      PROVE  JobLog!Next
  BY <1>3, EnqueueIsAccept DEF JobLog!Next
<1>4. ASSUME NEW w \in Worker, NEW S \in SUBSET Job, NEW t \in Time, LeaseJobs(w, S, t)
      PROVE  JobLog!Next
  BY <1>4, LeaseJobsIsLease DEF JobLog!Next
<1>5. ASSUME NEW h \in held, NEW t \in Time, Ack(h, t) PROVE JobLog!Next
  BY <1>5, AckIsLogAck DEF JobLog!Next
<1>6. ASSUME NEW j \in Job, PricePendingJob(j) PROVE JobLog!Next
  BY <1>1, <1>2, <1>6 DEF PricePendingJob, Update, JobRow
<1>7. ASSUME NEW h \in held, NEW t \in Time, Retry(h, t) PROVE JobLog!Next
  <2>1. h.j \in Job /\ job[h.j] \in JobRow /\ job[h.j].state = "LEASED"
    BY <1>7 DEF FrontierInv, FrontierTypeOK, HeldLease, Retry, Leased
  <2>2. job'[h.j].state = "RETRY" /\ job'[h.j].attempts = job[h.j].attempts
    BY <1>1, <1>7, <2>1, ReleasedRow DEF Retry, Update, JobRow
  <2>3. held' = held /\ \A i \in Job : i # h.j => job'[i] = job[i]
    BY <1>1, <1>7 DEF Retry, Update
  <2>4. QED
    BY <1>2, <2>1, <2>2, <2>3
<1>8. ASSUME NEW h \in held, NEW ch \in Change, NEW t \in Time, BlockLeasedJob(h, ch, t)
      PROVE  JobLog!Next
  <2>1. h.j \in Job /\ job[h.j] \in JobRow /\ job[h.j].state = "LEASED"
    BY <1>8 DEF FrontierInv, FrontierTypeOK, HeldLease, BlockLeasedJob, Leased
  <2>2. job'[h.j].state = "HIBERNATED" /\ job'[h.j].attempts = job[h.j].attempts
    BY <1>1, <1>8, <2>1, ReleasedRow DEF BlockLeasedJob, Update, JobRow
  <2>3. held' = held /\ \A i \in Job : i # h.j => job'[i] = job[i]
    BY <1>1, <1>8 DEF BlockLeasedJob, Update
  <2>4. QED
    BY <1>2, <2>1, <2>2, <2>3
<1>9. ASSUME NEW j \in Job, NEW ch \in Change, HibernateJob(j, ch) PROVE JobLog!Next
  BY <1>1, <1>2, <1>9 DEF HibernateJob, Update, JobRow
<1>10. ASSUME NEW j \in Job, NEW ch \in Change, NEW costed \in BOOLEAN, NEW t \in Time,
              WakeJob(j, ch, costed, t)
       PROVE  JobLog!Next
  BY <1>1, <1>2, <1>10 DEF WakeJob, Update, JobRow
<1>11. CASE job' = job /\ held' \subseteq held
  BY <1>2, <1>11
<1>12. QED
  BY <1>3, <1>4, <1>5, <1>6, <1>7, <1>8, <1>9, <1>10, <1>11
     DEF NextFrontier, fvars, ObserveCoordinate, WakeCoordinate, ForgetLeases

\* The research queue, with its clocks, hibernation, prices and dying workers,
\* implements the fenced at-least-once intake.
THEOREM QueueImplementsLog == SpecFrontier => JobsImplementLog
<1>1. InitFrontier => JobLog!Init
  <2> SUFFICES ASSUME InitFrontier PROVE JobLog!Init
    OBVIOUS
  <2>1. JobLogState = [j \in Job |-> "absent"] /\ JobLogGen = [j \in Job |-> 0]
    BY DEF InitFrontier, NoJob, JobLogState, JobLogGen
  <2>2. JobLogHolds = {}
    BY DEF InitFrontier, JobLogHolds
  <2>3. QED
    BY <2>1, <2>2 DEF JobLog!Init
<1>2. FrontierInv /\ [NextFrontier]_fvars => [JobLog!Next]_(JobLog!logvars)
  BY QueueStepIsLogStep
<1>3. QED
  BY <1>1, <1>2, FrontierInvariant, PTL DEF SpecFrontier, JobsImplementLog, JobLog!Spec

-----------------------------------------------------------------------------
(***************************************************************************)
(* The pages of a drain.                                                   *)
(***************************************************************************)
\* Any naturals have a least one.
LEMMA LeastJob == ASSUME NEW S \in SUBSET Nat, S # {} PROVE \E m \in S : \A n \in S : m <= n
<1> DEFINE Less == OpToRel(<, Nat)
<1>1. IsWellFoundedOn(Less, Nat) BY NatLessThanWellFounded
<1>2. Less = {p \in Nat \X Nat : p[1] < p[2]} BY Zenon DEF OpToRel
<1> HIDE DEF Less
<1>3. PICK m \in S : \A n \in S : <<n, m>> \notin Less BY <1>1, WFMin, Zenon
<1>4. ASSUME NEW n \in S, n < m PROVE FALSE
  <2>1. <<n, m>> \in Nat \X Nat /\ <<n, m>>[1] < <<n, m>>[2] BY <1>4
  <2>2. QED BY <2>1, <1>2, <1>3, Zenon
<1>5. m \in Nat /\ \A n \in S : n \in Nat OBVIOUS
<1>6. \A n \in S : m <= n BY <1>4, <1>5
<1>7. QED BY <1>6

\* Job_ids have a last one, which Max takes.
LEMMA LastJob ==
  ASSUME NEW S \in SUBSET Req, S # {}, NumReq \in Nat
  PROVE  Max(S) \in S /\ \A q \in S : q <= Max(S)
<1> DEFINE Below == {NumReq - q : q \in S}
<1>1. S \subseteq 1..NumReq BY DEF Req
<1>2. Below \in SUBSET Nat BY <1>1
<1>3. Below # {} OBVIOUS
<1> HIDE DEF Below
<1>4. PICK d \in Below : \A e \in Below : d <= e BY <1>2, <1>3, LeastJob
<1>5. PICK m \in S : d = NumReq - m BY DEF Below
<1>6. \A q \in S : NumReq - m <= NumReq - q BY <1>4, <1>5 DEF Below
<1>7. \A q \in S : m >= q BY <1>1, <1>6
<1>8. \E w \in S : \A q \in S : w >= q BY <1>7
<1>9. Max(S) \in S /\ \A q \in S : Max(S) >= q BY <1>8, Zenon DEF Max
<1>10. QED BY <1>1, <1>9

\* Sets of job_ids are finite.
LEMMA JobsFinite ==
  ASSUME NEW S \in SUBSET Req, NumReq \in Nat
  PROVE  IsFiniteSet(S) /\ Cardinality(S) \in Nat
<1>1. IsFiniteSet(1..NumReq) BY FS_Interval
<1>2. IsFiniteSet(S) BY <1>1, FS_Subset DEF Req
<1>3. QED BY <1>2, FS_CardinalityType

\* What a page leaves out comes after everything on it, and it leaves something out
\* only when it is full.
LEMMA PageOrder ==
  ASSUME NEW S \in SUBSET Req, NEW n \in Nat, NumReq \in Nat, NEW r \in S, r \notin First(S, n)
  PROVE  /\ \A m \in First(S, n) : m < r
         /\ Cardinality(First(S, n)) >= n
<1> DEFINE Under(q) == {p \in S : p < q}
<1>1. \A q \in S : q \in Nat BY DEF Req
<1>2. \A q \in S : Under(q) \in SUBSET Req OBVIOUS
<1>3. \A q \in S : IsFiniteSet(Under(q)) /\ Cardinality(Under(q)) \in Nat BY <1>2, JobsFinite
<1>4. \A q \in S : q \in First(S, n) <=> Cardinality(Under(q)) < n BY DEF First
<1>5. \A m \in First(S, n) : m < r
  <2> SUFFICES ASSUME NEW m \in First(S, n), ~(m < r) PROVE FALSE OBVIOUS
  <2>1. m \in S BY DEF First
  <2>2. Under(r) \subseteq Under(m) BY <1>1, <2>1
  <2>3. Cardinality(Under(r)) <= Cardinality(Under(m)) BY <2>1, <2>2, <1>3, FS_Subset
  <2>4. Cardinality(Under(m)) < n /\ ~(Cardinality(Under(r)) < n) BY <2>1, <1>4
  <2>5. Cardinality(Under(r)) \in Nat /\ Cardinality(Under(m)) \in Nat BY <2>1, <1>3
  <2> HIDE DEF Under
  <2>6. QED BY <2>3, <2>4, <2>5
<1>6. PICK z \in S \ First(S, n) : \A q \in S \ First(S, n) : z <= q
  <2>1. S \ First(S, n) \in SUBSET Nat /\ S \ First(S, n) # {} BY <1>1
  <2>2. QED BY <2>1, LeastJob
<1>7. Under(z) \subseteq First(S, n) BY <1>1, <1>6
<1>8. First(S, n) \in SUBSET Req BY DEF First
<1>9. IsFiniteSet(First(S, n)) /\ Cardinality(First(S, n)) \in Nat BY <1>8, JobsFinite
<1>10. Cardinality(Under(z)) <= Cardinality(First(S, n)) BY <1>7, <1>9, FS_Subset
<1>11. Cardinality(First(S, n)) >= n BY <1>3, <1>4, <1>6, <1>9, <1>10
<1>12. QED BY <1>5, <1>11

\* The first job is on every page.
LEMMA PageStarts ==
  ASSUME NEW S \in SUBSET Req, NEW n \in Nat \ {0}, NumReq \in Nat, S # {}
  PROVE  First(S, n) # {}
<1>1. S \in SUBSET Nat BY DEF Req
<1>2. PICK m \in S : \A q \in S : m <= q BY <1>1, LeastJob
<1>3. \A q \in S : ~(q < m) BY <1>1, <1>2
<1>4. {q \in S : q < m} = {} BY <1>3
<1>5. Cardinality({q \in S : q < m}) = 0 BY <1>4, FS_EmptySet
<1>6. QED BY <1>5 DEF First

\* A page takes all of a set that is no larger than itself.
LEMMA PageFits ==
  ASSUME NEW S \in SUBSET Req, NEW n \in Nat, NumReq \in Nat, Cardinality(S) <= n
  PROVE  First(S, n) = S
<1> SUFFICES ASSUME NEW r \in S, r \notin First(S, n) PROVE FALSE BY DEF First
<1>1. First(S, n) \subseteq S /\ First(S, n) \in SUBSET Req BY DEF First
<1>2. Cardinality(First(S, n)) >= n BY PageOrder
<1>3. IsFiniteSet(S) /\ Cardinality(S) \in Nat BY JobsFinite
<1>4. Cardinality(First(S, n)) \in Nat BY <1>1, JobsFinite
<1>5. Cardinality(First(S, n)) < Cardinality(S)
  <2>1. First(S, n) # S BY <1>1
  <2>2. QED BY <1>1, <1>3, <1>4, <2>1, FS_Subset
<1>6. QED BY <1>2, <1>3, <1>4, <1>5

-----------------------------------------------------------------------------
(***************************************************************************)
(* The invariant of the pass: which phases have a job in hand, what the    *)
(* phases have in memory, what they have written, and whom they will wake. *)
(***************************************************************************)
Writing == {"save1", "save2", "receipt", "children", "notify", "finish"}
Converted == {"receipt", "children", "notify", "drain", "wake", "finish"}
Receipted == {"children", "notify", "drain", "wake", "finish"}
Expanded == {"notify", "drain", "wake", "finish"}

\* The job in hand and the batch are leased; a drain before the lease has neither.
InOrder ==
    /\ at \in Writing => cur # Nothing
    /\ at \in {"idle", "lease", "next"} => cur = Nothing
    /\ cur = Nothing /\ at # "next" => batch = {}
    /\ cur \notin Obs => changes = {}
    /\ cur \in Work => queue[cur] = "LEASED" /\ cur \notin batch
    /\ \A j \in batch : queue[j] = "LEASED"
    /\ at = "save1" => cur \in Obs

\* A full scan moves the cursor to the last job it handled.
LEMMA FullScan ==
  ASSUME ResearchConstants, TypeOK, NEW x \in Var, Cardinality(scan[x]) > Page
  PROVE  /\ Max(First(scan[x], Page)) \in Req
         /\ \A r \in Req : (r \in scan[x] /\ r \notin First(scan[x], Page)) => Max(First(scan[x], Page)) < r
         /\ \A r \in Req : (\A q \in scan[x] : q < r) => Max(First(scan[x], Page)) < r
<1>1. scan[x] \in SUBSET Req BY DEF TypeOK
<1>2. NumReq \in Nat /\ Page \in Nat \ {0} BY DEF ResearchConstants
<1>3. scan[x] # {}
  <2>1. Cardinality({}) = 0 BY FS_EmptySet
  <2>2. QED BY <1>2, <2>1
<1>4. First(scan[x], Page) # {} BY <1>1, <1>2, <1>3, PageStarts
<1>5. First(scan[x], Page) \in SUBSET Req /\ First(scan[x], Page) \subseteq scan[x] BY <1>1 DEF First
<1>6. Max(First(scan[x], Page)) \in First(scan[x], Page) BY <1>2, <1>4, <1>5, LastJob
<1>7. \A r \in scan[x] \ First(scan[x], Page) : \A m \in First(scan[x], Page) : m < r
  BY <1>1, <1>2, PageOrder
<1>8. QED BY <1>5, <1>6, <1>7

LEMMA CursorTyped ==
  ASSUME ResearchConstants, TypeOK, NEW x \in Var
  PROVE  Cursor(x) \in 0..NotPending
<1>1. NumReq \in Nat /\ Page \in Nat \ {0} BY DEF ResearchConstants
<1>2. CASE x \notin Served \/ Cardinality(scan[x]) <= Page
  BY <1>1, <1>2 DEF Cursor, NotPending, TypeOK
<1>3. CASE ~(x \notin Served \/ Cardinality(scan[x]) <= Page)
  <2>1. scan[x] \in SUBSET Req BY DEF TypeOK
  <2>2. Cardinality(scan[x]) \in Nat BY <1>1, <2>1, JobsFinite
  <2>3. Max(First(scan[x], Page)) \in Req BY <1>1, <1>3, <2>2, FullScan
  <2>4. Cursor(x) = Max(First(scan[x], Page)) BY <1>3 DEF Cursor
  <2>5. QED BY <1>1, <2>3, <2>4 DEF Req, NotPending
<1>4. QED BY <1>2, <1>3

\* A result is not mistaken for the absence of one.
LEMMA ResultIsResult == ASSUME ResearchConstants, NEW S \in SUBSET Var PROVE S # NoResult
BY DEF ResearchConstants, NoResult

\* The catalogue in memory once the result in hand is cached.
LEMMA StoredEffect ==
  ASSUME ResearchConstants, TypeOK, NEW gone \in Pushable
  PROVE  /\ Stored(gone) \in Catalogue /\ Stored(gone).series = mem.series
         /\ cur \in Obs => Stored(gone).cache[cur] = changes
         /\ \A o \in Obs : o # cur => \/ Stored(gone).cache[o] = mem.cache[o]
                                      \/ o = gone /\ ~Blocked(cur) /\ Stored(gone) # mem
         /\ Unannounced(gone) \subseteq Var
<1>1. mem \in Catalogue /\ changes \in SUBSET Var BY DEF TypeOK
<1>2. Caching(gone) \in Catalogue /\ Caching(gone).series = mem.series
      /\ Caching(gone).cache = [o \in Obs |-> IF o = cur THEN changes
                                             ELSE IF o = gone THEN NoResult ELSE mem.cache[o]]
  BY <1>1 DEF Caching, Catalogue
<1>3. cur \in Obs => ~Blocked(cur) BY DEF Blocked, ResearchConstants
<1>4. ASSUME gone \in Obs PROVE gone # cur /\ mem.cache[gone] # NoResult
  BY <1>4 DEF Pushable, ResearchConstants, Work
<1>5. Unannounced(gone) \subseteq Var
  <2>1. CASE gone \in Obs
    <3>1. mem.cache[gone] \in SUBSET Var BY <1>1, <1>4, <2>1 DEF Catalogue
    <3>2. QED BY <3>1 DEF Unannounced
  <2>2. CASE gone \notin Obs BY <2>2 DEF Unannounced
  <2>3. QED BY <2>1, <2>2
<1>6. CASE Blocked(cur) BY <1>1, <1>3, <1>5, <1>6 DEF Stored
<1>7. CASE ~Blocked(cur)
  <2>1. Stored(gone) = Caching(gone) BY <1>7 DEF Stored
  <2>2. ASSUME NEW o \in Obs, o # cur, o = gone PROVE Caching(gone) # mem
    <3>1. Caching(gone).cache[o] = NoResult BY <1>2, <2>2
    <3>2. QED BY <1>4, <2>2, <3>1
  <2>3. QED BY <1>2, <1>5, <1>7, <2>1, <2>2
<1>8. QED BY <1>6, <1>7

PassBegins ==
  \/ \E j \in Work : EnqueueWork(j) \/ Elapse(j)
  \/ StartPass \/ Lease \/ EndPass \/ (\E o \in Obs : DispatchSeries(o)) \/ (\E r \in Req : DispatchRequest(r))
PassCommits == SaveSeries \/ SaveResult \/ RetainReceipt \/ EnqueueChildren \/ Finish
PassWakes == Notify \/ DrainRead \/ (\E r \in Req : DrainWake(r)) \/ DrainSave
PassBreaks == StepFails \/ PassFails \/ Crash

LEMMA PassSteps == ASSUME Next PROVE PassBegins \/ PassCommits \/ PassWakes \/ PassBreaks
BY DEF Next, PassStep, PassBegins, PassCommits, PassWakes, PassBreaks

PassShape == TypeOK /\ InOrder

LEMMA PassInit == ASSUME ResearchConstants, Init PROVE PassShape
<1>1. NumReq \in Nat /\ MaxFaults \in Nat BY DEF ResearchConstants
<1>2. NotPending \in 0..NotPending BY <1>1 DEF NotPending
<1>3. [series |-> {}, cache |-> [o \in Obs |-> NoResult]] \in Catalogue BY DEF Catalogue
<1>4. TypeOK BY <1>1, <1>2, <1>3 DEF Init, TypeOK, NoScan
<1>5. InOrder BY DEF Init, InOrder, Writing, ResearchConstants
<1>6. QED BY <1>4, <1>5 DEF PassShape

LEMMA ShapeBegins == ASSUME ResearchConstants, PassShape, PassBegins PROVE PassShape'
<1> USE DEF PassShape
<1>0. NumReq \in Nat BY DEF ResearchConstants
<1>1. ASSUME NEW j \in Work, EnqueueWork(j) PROVE PassShape'
  <2>1. TypeOK' BY <1>1 DEF EnqueueWork, TypeOK, Catalogue
  <2>2. InOrder' BY <1>1 DEF EnqueueWork, InOrder, Writing, TypeOK
  <2>3. QED BY <2>1, <2>2
<1>2. ASSUME NEW j \in Work, Elapse(j) PROVE PassShape'
  <2>1. TypeOK' BY <1>2 DEF Elapse, TypeOK, Catalogue
  <2>2. InOrder' BY <1>2 DEF Elapse, InOrder, Writing, TypeOK
  <2>3. QED BY <2>1, <2>2
<1>3. ASSUME StartPass PROVE PassShape'
  <2>1. TypeOK' BY <1>3 DEF StartPass, TypeOK, Catalogue
  <2>2. InOrder' BY <1>3 DEF StartPass, InOrder, Writing, TypeOK
  <2>3. QED BY <2>1, <2>2
<1>4. ASSUME Lease PROVE PassShape'
  <2>1. TypeOK' BY <1>4 DEF Lease, TypeOK, Catalogue
  <2>2. cur \notin Work BY <1>4 DEF Lease, InOrder, ResearchConstants
  <2>3. InOrder' BY <1>4, <2>2 DEF Lease, InOrder, Writing, TypeOK, Work
  <2>4. QED BY <2>1, <2>3
<1>5. ASSUME EndPass PROVE PassShape'
  <2>1. TypeOK' BY <1>5 DEF EndPass, TypeOK, Catalogue
  <2>2. InOrder' BY <1>5 DEF EndPass, InOrder, Writing, TypeOK
  <2>3. QED BY <2>1, <2>2
<1>6. ASSUME NEW o \in Obs, DispatchSeries(o) PROVE PassShape'
  <2>1. o \in Work /\ o # Nothing BY DEF Work, ResearchConstants
  <2>2. Carries[o] \in SUBSET Point /\ Names \in [Point -> Var] BY DEF ResearchConstants
  <2>3. changes' \in SUBSET Var /\ mem' \in Catalogue /\ at' \in {"receipt", "save1", "save2"}
    <3>1. CASE mem.cache[o] # NoResult
      <4>1. mem.cache[o] \in SUBSET Var BY <3>1 DEF TypeOK, Catalogue
      <4>2. QED BY <1>6, <3>1, <4>1 DEF DispatchSeries, TypeOK
    <3>2. CASE mem.cache[o] = NoResult
      <4>1. /\ changes' = NamesOf(Carries[o] \ mem.series)
            /\ mem' = [mem EXCEPT !.series = Retained(mem.series \cup Carries[o])]
        BY <1>6, <3>2 DEF DispatchSeries
      <4>2. at' \in {"save1", "save2"} BY <1>6, <3>2 DEF DispatchSeries
      <4>3. changes' \in SUBSET Var BY <2>2, <4>1 DEF NamesOf
      <4>4. mem \in Catalogue BY DEF TypeOK
      <4>5. Retained(mem.series \cup Carries[o]) \in SUBSET Point
        BY <2>2, <4>4 DEF Retained, Catalogue
      <4>6. mem' \in Catalogue BY <4>1, <4>4, <4>5 DEF Catalogue
      <4>7. QED BY <4>2, <4>3, <4>6
    <3>3. QED BY <3>1, <3>2
  <2>4. TypeOK' BY <1>6, <2>1, <2>3 DEF DispatchSeries, TypeOK
  <2>5. InOrder' BY <1>6, <2>1, <2>3 DEF DispatchSeries, InOrder, Writing, TypeOK
  <2>6. QED BY <2>4, <2>5
<1>7. ASSUME NEW r \in Req, DispatchRequest(r) PROVE PassShape'
  <2>1. r \in Work /\ r # Nothing BY DEF Work, ResearchConstants
  <2>2. TypeOK' BY <1>7, <2>1 DEF DispatchRequest, TypeOK, Catalogue
  <2>3. InOrder' BY <1>7, <2>1 DEF DispatchRequest, InOrder, Writing, TypeOK
  <2>4. QED BY <2>2, <2>3
<1>8. QED BY <1>1, <1>2, <1>3, <1>4, <1>5, <1>6, <1>7 DEF PassBegins

LEMMA ShapeCommits == ASSUME ResearchConstants, PassShape, PassCommits PROVE PassShape'
<1> USE DEF PassShape
<1>1. ASSUME SaveSeries PROVE PassShape'
  <2>1. TypeOK' BY <1>1 DEF SaveSeries, TypeOK
  <2>2. InOrder' BY <1>1 DEF SaveSeries, InOrder, Writing, TypeOK
  <2>3. QED BY <2>1, <2>2
<1>2. ASSUME SaveResult PROVE PassShape'
  <2>1. mem' \in Catalogue /\ disk' = mem' /\ forgotten' \subseteq Var
    <3>1. PICK gone \in Pushable :
            /\ mem' = Stored(gone) /\ disk' = mem'
            /\ forgotten' = IF Blocked(cur) THEN forgotten ELSE forgotten \cup Unannounced(gone)
      BY <1>2 DEF SaveResult
    <3>2. QED BY <3>1, StoredEffect DEF TypeOK
  <2>2. TypeOK' BY <1>2, <2>1 DEF SaveResult, TypeOK
  <2>3. InOrder' BY <1>2 DEF SaveResult, InOrder, Writing, TypeOK
  <2>4. QED BY <2>2, <2>3
<1>3. ASSUME RetainReceipt PROVE PassShape'
  <2>1. cur \in Work BY <1>3 DEF RetainReceipt, InOrder, Writing, TypeOK
  <2>2. Disposition(cur) \in {"BLOCKED", "DONE"} BY DEF Disposition
  <2>3. TypeOK' BY <1>3, <2>1, <2>2 DEF RetainReceipt, TypeOK
  <2>4. InOrder' BY <1>3 DEF RetainReceipt, InOrder, Writing, TypeOK
  <2>5. QED BY <2>3, <2>4
<1>4. ASSUME EnqueueChildren PROVE PassShape'
  <2>1. kids' \subseteq Req BY <1>4 DEF EnqueueChildren, TypeOK, Blocked
  <2>2. TypeOK' BY <1>4, <2>1 DEF EnqueueChildren, TypeOK
  <2>3. InOrder' BY <1>4 DEF EnqueueChildren, InOrder, Writing, TypeOK
  <2>4. QED BY <2>2, <2>3
<1>5. ASSUME Finish PROVE PassShape'
  <2>1. cur \in Work /\ Nothing \notin Work BY <1>5 DEF Finish, InOrder, Writing, TypeOK, ResearchConstants
  <2>2. TypeOK' BY <1>5, <2>1 DEF Finish, TypeOK
  <2>3. \A j \in batch' : queue'[j] = "LEASED" BY <1>5, <2>1 DEF Finish, InOrder, TypeOK
  <2>4. InOrder' BY <1>5, <2>1, <2>3 DEF Finish, InOrder, Writing, TypeOK, Work
  <2>5. QED BY <2>2, <2>4
<1>6. QED BY <1>1, <1>2, <1>3, <1>4, <1>5 DEF PassCommits

LEMMA ShapeWakes == ASSUME ResearchConstants, PassShape, PassWakes PROVE PassShape'
<1> USE DEF PassShape
<1>0. NumReq \in Nat /\ Page \in Nat \ {0} BY DEF ResearchConstants
<1>1. ASSUME Notify PROVE PassShape'
  <2>1. wakes' \in [Var -> 0..NotPending] BY <1>0, <1>1 DEF Notify, TypeOK, NotPending
  <2>2. TypeOK' BY <1>1, <2>1 DEF Notify, TypeOK
  <2>3. InOrder' BY <1>1 DEF Notify, InOrder, Writing, TypeOK
  <2>4. QED BY <2>2, <2>3
<1>2. ASSUME DrainRead PROVE PassShape'
  <2>1. ASSUME NEW x \in Var PROVE ScanOf(x) \in SUBSET Req BY DEF ScanOf, First, Sleepers
  <2>2. scan' \in [Var -> SUBSET Req] BY <1>2, <2>1 DEF DrainRead
  <2>3. TypeOK' BY <1>2, <2>2 DEF DrainRead, TypeOK
  <2>4. InOrder' BY <1>2 DEF DrainRead, InOrder, Writing, TypeOK
  <2>5. QED BY <2>3, <2>4
<1>3. ASSUME NEW r \in Req, DrainWake(r) PROVE PassShape'
  <2>1. r \in Work BY DEF Work
  <2>2. TypeOK' BY <1>3, <2>1 DEF DrainWake, TypeOK
  <2>3. InOrder' BY <1>3, <2>1 DEF DrainWake, InOrder, Writing, TypeOK
  <2>4. QED BY <2>2, <2>3
<1>4. ASSUME DrainSave PROVE PassShape'
  <2>1. wakes' \in [Var -> 0..NotPending] BY <1>4, CursorTyped DEF DrainSave
  <2>2. scan' \in [Var -> SUBSET Req] BY <1>4 DEF DrainSave, NoScan
  <2>3. TypeOK' BY <1>4, <2>1, <2>2 DEF DrainSave, TypeOK
  <2>4. InOrder' BY <1>4 DEF DrainSave, InOrder, Writing, TypeOK
  <2>5. QED BY <2>3, <2>4
<1>5. QED BY <1>1, <1>2, <1>3, <1>4 DEF PassWakes

\* What a failure keeps in memory, and what it may leave unannounced.
LEMMA FailureEffect ==
  ASSUME ResearchConstants, TypeOK, CatalogueFails
  PROVE  /\ mem' \in Catalogue /\ mem'.series = mem.series
         /\ forgotten' \subseteq Var /\ forgotten \subseteq forgotten'
         /\ at \in {"save1", "save2"} => changes \subseteq forgotten'
         /\ \A o \in Obs : \/ mem'.cache[o] = mem.cache[o]
                           \/ o = cur /\ at = "save2"
                           \/ queue[o] # "ACKED" => mem.cache[o] \subseteq forgotten'
<1>1. PICK gone \in IF at = "save2" THEN Pushable ELSE {Nothing} :
        /\ mem' = IF at = "save2" THEN Stored(gone) ELSE mem
        /\ forgotten' = forgotten \cup (IF at \in {"save1", "save2"} THEN changes ELSE {})
                                  \cup (IF mem' # mem THEN Unannounced(gone) ELSE {})
  BY DEF CatalogueFails
<1>2. gone \in Pushable BY <1>1 DEF Pushable
<1>3. mem \in Catalogue /\ changes \subseteq Var /\ forgotten \subseteq Var BY DEF TypeOK
<1>4. mem' \in Catalogue /\ mem'.series = mem.series BY <1>1, <1>2, <1>3, StoredEffect
<1>5. forgotten' \subseteq Var
  <2>1. Unannounced(gone) \subseteq Var BY <1>2, StoredEffect
  <2>2. QED BY <1>1, <1>3, <2>1
<1>6. /\ forgotten \subseteq forgotten'
      /\ at \in {"save1", "save2"} => changes \subseteq forgotten'
      /\ mem' # mem => Unannounced(gone) \subseteq forgotten'
  BY <1>1
<1>7. ASSUME NEW o \in Obs, mem'.cache[o] # mem.cache[o], ~(o = cur /\ at = "save2"),
             queue[o] # "ACKED"
      PROVE  mem.cache[o] \subseteq forgotten'
  <2>1. at = "save2" /\ mem' = Stored(gone) /\ mem' # mem BY <1>1, <1>7
  <2>2. o = gone BY <1>2, <1>7, <2>1, StoredEffect
  <2>3. Unannounced(gone) = mem.cache[o] BY <1>7, <2>2 DEF Unannounced
  <2>4. QED BY <1>6, <2>1, <2>3
<1>8. QED BY <1>4, <1>5, <1>6, <1>7

LEMMA ShapeBreaks == ASSUME ResearchConstants, PassShape, PassBreaks PROVE PassShape'
<1> USE DEF PassShape
<1>1. Nothing \notin Work /\ Nothing \notin Obs BY DEF ResearchConstants, Work
<1>2. NoScan \in [Var -> SUBSET Req] BY DEF NoScan
<1>3. ASSUME Faulty PROVE faults' \in 0..MaxFaults BY <1>3 DEF Faulty, TypeOK, ResearchConstants
<1>4. ASSUME StepFails PROVE PassShape'
  <2>1. cur \in Work BY <1>4 DEF StepFails, TypeOK
  <2>2. faults' \in 0..MaxFaults BY <1>3, <1>4 DEF StepFails
  <2>3. TypeOK' BY <1>2, <1>4, <2>1, <2>2, FailureEffect DEF StepFails, TypeOK
  <2>4. \A j \in batch' : queue'[j] = "LEASED" BY <1>4, <2>1 DEF StepFails, InOrder, TypeOK
  <2>5. InOrder' BY <1>1, <1>4, <2>4 DEF StepFails, InOrder, Writing
  <2>6. QED BY <2>3, <2>5
<1>5. ASSUME PassFails PROVE PassShape'
  <2>1. faults' \in 0..MaxFaults BY <1>3, <1>5 DEF PassFails
  <2>2. TypeOK' BY <1>2, <1>5, <2>1, FailureEffect DEF PassFails, TypeOK
  <2>3. InOrder' BY <1>1, <1>5 DEF PassFails, InOrder, Writing
  <2>4. QED BY <2>2, <2>3
<1>6. ASSUME Crash PROVE PassShape'
  <2>1. faults' \in 0..MaxFaults BY <1>3, <1>6 DEF Crash
  <2>2. TypeOK' BY <1>2, <1>6, <2>1 DEF Crash, TypeOK
  <2>3. InOrder' BY <1>1, <1>6 DEF Crash, InOrder, Writing
  <2>4. QED BY <2>2, <2>3
<1>7. QED BY <1>4, <1>5, <1>6 DEF PassBreaks

LEMMA PassShaped == ASSUME ResearchConstants PROVE Spec => []PassShape
<1>1. ASSUME PassShape, [Next]_pvars PROVE PassShape'
  <2>1. CASE UNCHANGED pvars
    <3>1. TypeOK' BY <1>1, <2>1 DEF PassShape, TypeOK, pvars
    <3>2. InOrder' BY <1>1, <2>1 DEF PassShape, InOrder, pvars
    <3>3. QED BY <3>1, <3>2 DEF PassShape
  <2>2. CASE Next BY <1>1, <2>2, PassSteps, ShapeBegins, ShapeCommits, ShapeWakes, ShapeBreaks
  <2>3. QED BY <1>1, <2>1, <2>2
<1>2. QED BY <1>1, PassInit, PTL DEF Spec

\* The queue, the receipts, the pending wakes and the two copies of the catalogue keep their
\* types, whatever fails.
THEOREM PassTyped == Spec => []TypeOK
<1>1. PassShape => TypeOK BY DEF PassShape
<1>2. QED BY <1>1, PassShaped, ResearchConstants, PTL

-----------------------------------------------------------------------------
(***************************************************************************)
(* Work that ended is whole.                                               *)
(***************************************************************************)
\* What the commit of the job in hand has already made durable.
Traced ==
    /\ at \in Receipted /\ cur \in Work => <<cur, Disposition(cur)>> \in sealed
    /\ at \in Expanded /\ cur \in Work /\ Blocked(cur) => cur \in kids

\* A row that changes to something other than the end of its job leaves ended work whole.
LEMMA StillWhole ==
  ASSUME EndedWorkIsWhole, sealed \subseteq sealed', kids \subseteq kids',
         \A j \in Work : queue'[j] \in {queue[j], "READY", "LEASED", "RETRY"}
  PROVE  EndedWorkIsWhole'
<1> SUFFICES ASSUME NEW j \in Work
             PROVE  /\ queue'[j] = "ACKED" => <<j, "DONE">> \in sealed'
                    /\ queue'[j] = "HIBERNATED" => <<j, "BLOCKED">> \in sealed' /\ j \in kids'
  BY DEF EndedWorkIsWhole
<1>1. queue'[j] \in {"ACKED", "HIBERNATED"} => queue[j] = queue'[j] OBVIOUS
<1>2. QED BY <1>1 DEF EndedWorkIsWhole

LEMMA WholeBegins ==
  ASSUME ResearchConstants, PassShape, EndedWorkIsWhole, Traced, PassBegins
  PROVE  EndedWorkIsWhole' /\ Traced'
<1> USE DEF PassShape
<1>0. Nothing \notin Work BY DEF ResearchConstants
<1>1. ASSUME NEW j \in Work, EnqueueWork(j) PROVE EndedWorkIsWhole' /\ Traced'
  <2>1. EndedWorkIsWhole' BY <1>1, StillWhole DEF EnqueueWork, TypeOK
  <2>2. Traced' BY <1>1 DEF EnqueueWork, Traced, Receipted, Expanded
  <2>3. QED BY <2>1, <2>2
<1>2. ASSUME NEW j \in Work, Elapse(j) PROVE EndedWorkIsWhole' /\ Traced'
  <2>1. EndedWorkIsWhole' BY <1>2, StillWhole DEF Elapse, TypeOK
  <2>2. Traced' BY <1>2 DEF Elapse, Traced, Disposition, Blocked
  <2>3. QED BY <2>1, <2>2
<1>3. ASSUME StartPass \/ EndPass PROVE EndedWorkIsWhole' /\ Traced'
  <2>1. EndedWorkIsWhole' BY <1>3, StillWhole DEF StartPass, EndPass, TypeOK
  <2>2. cur' \notin Work BY <1>0, <1>3 DEF StartPass, EndPass, InOrder
  <2>3. QED BY <2>1, <2>2 DEF Traced
<1>4. ASSUME Lease PROVE EndedWorkIsWhole' /\ Traced'
  <2>1. EndedWorkIsWhole' BY <1>4, StillWhole DEF Lease, TypeOK
  <2>2. Traced' BY <1>4 DEF Lease, Traced, Receipted, Expanded
  <2>3. QED BY <2>1, <2>2
<1>5. ASSUME NEW o \in Obs, DispatchSeries(o) PROVE EndedWorkIsWhole' /\ Traced'
  <2>1. EndedWorkIsWhole' BY <1>5, StillWhole DEF DispatchSeries, TypeOK
  <2>2. at' \in {"receipt", "save1", "save2"} BY <1>5 DEF DispatchSeries
  <2>3. QED BY <2>1, <2>2 DEF Traced, Receipted, Expanded
<1>6. ASSUME NEW r \in Req, DispatchRequest(r) PROVE EndedWorkIsWhole' /\ Traced'
  <2>1. EndedWorkIsWhole' BY <1>6, StillWhole DEF DispatchRequest, TypeOK
  <2>2. Traced' BY <1>6 DEF DispatchRequest, Traced, Receipted, Expanded
  <2>3. QED BY <2>1, <2>2
<1>7. QED BY <1>1, <1>2, <1>3, <1>4, <1>5, <1>6 DEF PassBegins

LEMMA WholeCommits ==
  ASSUME ResearchConstants, PassShape, EndedWorkIsWhole, Traced, PassCommits
  PROVE  EndedWorkIsWhole' /\ Traced'
<1> USE DEF PassShape
<1>1. ASSUME SaveSeries \/ SaveResult PROVE EndedWorkIsWhole' /\ Traced'
  <2>1. EndedWorkIsWhole' BY <1>1, StillWhole DEF SaveSeries, SaveResult, TypeOK
  <2>2. at' \in {"save2", "receipt"} BY <1>1 DEF SaveSeries, SaveResult
  <2>3. QED BY <2>1, <2>2 DEF Traced, Receipted, Expanded
<1>2. ASSUME RetainReceipt PROVE EndedWorkIsWhole' /\ Traced'
  <2>1. EndedWorkIsWhole' BY <1>2, StillWhole DEF RetainReceipt, TypeOK
  <2>2. Traced' BY <1>2 DEF RetainReceipt, Traced, Receipted, Expanded, Disposition, Blocked
  <2>3. QED BY <2>1, <2>2
<1>3. ASSUME EnqueueChildren PROVE EndedWorkIsWhole' /\ Traced'
  <2>1. EndedWorkIsWhole' BY <1>3, StillWhole DEF EnqueueChildren, TypeOK
  <2>2. Traced' BY <1>3 DEF EnqueueChildren, Traced, Receipted, Expanded, Disposition, Blocked
  <2>3. QED BY <2>1, <2>2
<1>4. ASSUME Finish PROVE EndedWorkIsWhole' /\ Traced'
  <2>1. cur \in Work BY <1>4 DEF Finish, InOrder, Writing, TypeOK
  <2>2. /\ <<cur, Disposition(cur)>> \in sealed
        /\ Blocked(cur) => cur \in kids
    BY <1>4, <2>1 DEF Finish, Traced, Receipted, Expanded
  <2>3. EndedWorkIsWhole'
    <3> SUFFICES ASSUME NEW j \in Work
                 PROVE  /\ queue'[j] = "ACKED" => <<j, "DONE">> \in sealed'
                        /\ queue'[j] = "HIBERNATED" => <<j, "BLOCKED">> \in sealed' /\ j \in kids'
      BY DEF EndedWorkIsWhole
    <3>1. CASE j # cur BY <1>4, <3>1 DEF Finish, TypeOK, EndedWorkIsWhole
    <3>2. CASE j = cur BY <1>4, <2>1, <2>2, <3>2 DEF Finish, TypeOK, Disposition
    <3>3. QED BY <3>1, <3>2
  <2>4. Traced' BY <1>4 DEF Finish, Traced, Receipted, Expanded
  <2>5. QED BY <2>3, <2>4
<1>5. QED BY <1>1, <1>2, <1>3, <1>4 DEF PassCommits

LEMMA WholeWakes ==
  ASSUME ResearchConstants, PassShape, EndedWorkIsWhole, Traced, PassWakes
  PROVE  EndedWorkIsWhole' /\ Traced'
<1> USE DEF PassShape
<1>1. ASSUME Notify \/ DrainRead \/ DrainSave PROVE EndedWorkIsWhole' /\ Traced'
  <2>1. EndedWorkIsWhole' BY <1>1, StillWhole DEF Notify, DrainRead, DrainSave, TypeOK
  <2>2. at \in Expanded /\ at \in Receipted BY <1>1 DEF Notify, DrainRead, DrainSave, Expanded, Receipted
  <2>3. UNCHANGED <<cur, sealed, kids, mem>> BY <1>1 DEF Notify, DrainRead, DrainSave
  <2>4. Traced' BY <2>2, <2>3 DEF Traced, Disposition, Blocked
  <2>5. QED BY <2>1, <2>4
<1>2. ASSUME NEW r \in Req, DrainWake(r) PROVE EndedWorkIsWhole' /\ Traced'
  <2>1. r \in Work BY DEF Work
  <2>2. EndedWorkIsWhole' BY <1>2, <2>1, StillWhole DEF DrainWake, TypeOK
  <2>3. Traced' BY <1>2 DEF DrainWake, Traced, Disposition, Blocked
  <2>4. QED BY <2>2, <2>3
<1>3. QED BY <1>1, <1>2 DEF PassWakes

LEMMA WholeBreaks ==
  ASSUME ResearchConstants, PassShape, EndedWorkIsWhole, Traced, PassBreaks
  PROVE  EndedWorkIsWhole' /\ Traced'
<1> USE DEF PassShape
<1>1. EndedWorkIsWhole' BY StillWhole DEF PassBreaks, StepFails, PassFails, Crash, TypeOK
<1>2. cur' \notin Work BY DEF PassBreaks, StepFails, PassFails, Crash, ResearchConstants
<1>3. QED BY <1>1, <1>2 DEF Traced

\* For any work and any failures, an ended job left its receipt, and a sleeping one its
\* children, behind.
THEOREM EndedWorkStaysWhole == Spec => []EndedWorkIsWhole
<1> DEFINE Whole == EndedWorkIsWhole /\ Traced
<1>1. Init => Whole
  BY ResearchConstants DEF Init, EndedWorkIsWhole, Traced, Receipted, Expanded
<1>2. ASSUME PassShape, Whole, [Next]_pvars PROVE Whole'
  <2>1. CASE UNCHANGED pvars
    BY <1>2, <2>1 DEF EndedWorkIsWhole, Traced, Disposition, Blocked, pvars
  <2>2. CASE Next
    BY <1>2, <2>2, ResearchConstants, PassSteps, WholeBegins, WholeCommits, WholeWakes, WholeBreaks
  <2>3. QED BY <1>2, <2>1, <2>2
<1>3. QED BY <1>1, <1>2, PassShaped, ResearchConstants, PTL DEF Spec

-----------------------------------------------------------------------------
(***************************************************************************)
(* No wake is lost.                                                        *)
(***************************************************************************)
Asleep(r) == r \in Req /\ r \notin Dormant /\ queue[r] = "HIBERNATED"

\* A series is in the cache from its save until its job ends, and a request is answered from
\* what is on disk.
Kept ==
    /\ at \in {"save1", "save2"} /\ cur \in Obs => mem.cache[cur] = NoResult
    /\ at \in Converted /\ cur \in Obs => mem.cache[cur] = changes
    /\ at \in Converted /\ cur \in Req => disk.series = mem.series

\* A drain has read every sleeper past its cursor, or a full page before it, of the changes
\* it serves.
Scanned ==
    at = "wake" => \A r \in Req :
        Needs[r] \in Served /\ queue[r] = "HIBERNATED" /\ wakes[Needs[r]] < r =>
            \/ r \in scan[Needs[r]]
            \/ Cardinality(scan[Needs[r]]) > Page /\ \A q \in scan[Needs[r]] : q < r

\* From the announcement of a change to the end of its job, the change is pending for all who
\* sleep on it.
Announced ==
    at \in {"drain", "wake", "finish"} => \A r \in Req :
        Asleep(r) /\ Needs[r] \in changes => wakes[Needs[r]] < r

\* An announcement that no single failure can lose: the result that carries it is cached in
\* memory and on disk, or it is in hand and its loss would be noted.
Durable(o, x) ==
    /\ mem.cache[o] # NoResult /\ x \in mem.cache[o]
    /\ disk.cache[o] # NoResult /\ x \in disk.cache[o]
Sure(o, x) ==
    /\ queue[o] \notin {"NONE", "ACKED"}
    /\ Durable(o, x) \/ (cur = o /\ x \in changes /\ at \in {"save1", "save2"})

\* NoLostWake with such announcements, for what the service or the file has indexed.
Known(x) == x \in NamesOf(mem.series) \/ x \in NamesOf(disk.series)
Promised(r) ==
    queue[r] = "HIBERNATED" /\ Known(Needs[r]) /\ Needs[r] \notin forgotten =>
        wakes[Needs[r]] < r \/ \E o \in Obs : Sure(o, Needs[r])
AllPromised == \A r \in Req \ Dormant : Promised(r)

Awaited == Kept /\ Scanned /\ Announced /\ AllPromised

\* Who was going to be woken still is, when no sleeper appears, no cursor passes anybody and
\* no announcement is withdrawn without being noted.
LEMMA StillAwaited ==
  ASSUME AllPromised,
         \A r \in Req \ Dormant :
            /\ queue'[r] = "HIBERNATED" => queue[r] = "HIBERNATED"
            /\ Known(Needs[r])' => Known(Needs[r])
            /\ queue'[r] = "HIBERNATED" /\ wakes[Needs[r]] < r => wakes'[Needs[r]] < r
            /\ Needs[r] \notin forgotten' =>
                 /\ Needs[r] \notin forgotten
                 /\ \A o \in Obs : Sure(o, Needs[r]) => Sure(o, Needs[r])'
  PROVE  AllPromised'
BY DEF AllPromised, Promised

\* After a drain has woken its pages, no cursor passes a sleeper.
LEMMA ServedPassesNobody ==
  ASSUME ResearchConstants, PassShape, Scanned, DrainSave,
         NEW r \in Req, Asleep(r), wakes[Needs[r]] < r, Needs[r] \in Served
  PROVE  wakes'[Needs[r]] < r
<1> DEFINE x == Needs[r]
<1>1. NumReq \in Nat /\ Page \in Nat \ {0} /\ x \in Var BY DEF ResearchConstants
<1>2. r \in Nat /\ r <= NumReq BY <1>1 DEF Req
<1>4. r \notin First(scan[x], Page)
  <2> SUFFICES ASSUME r \in First(scan[x], Page) PROVE FALSE OBVIOUS
  <2>1. r \in UNION {First(scan[y], Page) : y \in Var} BY <1>1, Zenon
  <2>2. r \in ToWake BY <2>1 DEF ToWake, Asleep
  <2>3. QED BY <2>2 DEF DrainSave, Asleep
<1>5. \/ r \in scan[x]
      \/ Cardinality(scan[x]) > Page /\ \A q \in scan[x] : q < r
  BY DEF Scanned, DrainSave, Asleep
<1>6. scan[x] \in SUBSET Req BY <1>1 DEF PassShape, TypeOK
<1>7. Cardinality(scan[x]) \in Nat BY <1>1, <1>6, JobsFinite
<1>8. Cardinality(scan[x]) > Page
  <2>1. CASE Cardinality(scan[x]) <= Page
    <3>1. First(scan[x], Page) = scan[x] BY <1>1, <1>6, <2>1, PageFits
    <3>2. QED BY <1>1, <1>4, <1>5, <1>7, <2>1, <3>1
  <2>2. QED BY <1>1, <1>7, <2>1
<1>9. Max(First(scan[x], Page)) < r BY <1>1, <1>4, <1>5, <1>8, FullScan DEF PassShape
<1>10. wakes'[x] = Cursor(x) BY <1>1 DEF DrainSave
<1>11. ~(Cardinality(scan[x]) <= Page) BY <1>1, <1>7, <1>8
<1>12. Cursor(x) = Max(First(scan[x], Page)) BY <1>11 DEF Cursor
<1>13. QED BY <1>9, <1>10, <1>12

LEMMA CursorPassesNobody ==
  ASSUME ResearchConstants, PassShape, Scanned, DrainSave, NEW r \in Req, Asleep(r), wakes[Needs[r]] < r
  PROVE  wakes'[Needs[r]] < r
<1>1. CASE Needs[r] \in Served BY <1>1, ServedPassesNobody
<1>2. CASE Needs[r] \notin Served
  <2>1. Needs[r] \in Var BY DEF ResearchConstants
  <2>2. wakes'[Needs[r]] = wakes[Needs[r]] BY <1>2, <2>1 DEF DrainSave, Cursor
  <2>3. QED BY <2>2
<1>3. QED BY <1>1, <1>2

\* What a drain reads covers the sleepers past its cursor.
LEMMA ReadCovers ==
  ASSUME ResearchConstants, PassShape, DrainRead
  PROVE  Scanned'
<1> SUFFICES ASSUME NEW r \in Req, Needs[r] \in Served, queue[r] = "HIBERNATED", wakes[Needs[r]] < r
             PROVE  \/ r \in scan'[Needs[r]]
                    \/ Cardinality(scan'[Needs[r]]) > Page /\ \A q \in scan'[Needs[r]] : q < r
  BY DEF Scanned, DrainRead, Served
<1> DEFINE x == Needs[r]
           S == {q \in Sleepers(x) : q > wakes[x]}
<1>1. NumReq \in Nat /\ Page \in Nat \ {0} /\ x \in Var BY DEF ResearchConstants
<1>2. wakes[x] \in Nat /\ r \in Nat /\ r <= NumReq BY <1>1 DEF PassShape, TypeOK, Req, NotPending
<1>4. scan'[x] = First(S, Page + 1) BY <1>1 DEF DrainRead, ScanOf
<1>5. r \in S BY <1>2 DEF Sleepers
<1>6. S \in SUBSET Req BY DEF Sleepers
<1> HIDE DEF S
<1>7. CASE r \in First(S, Page + 1) BY <1>4, <1>7
<1>8. CASE r \notin First(S, Page + 1)
  <2>1. Page + 1 \in Nat BY <1>1
  <2>2. /\ \A m \in First(S, Page + 1) : m < r
        /\ Cardinality(First(S, Page + 1)) >= Page + 1
    BY <1>1, <1>5, <1>6, <1>8, <2>1, PageOrder
  <2>3. First(S, Page + 1) \in SUBSET Req BY <1>6 DEF First
  <2>4. Cardinality(First(S, Page + 1)) \in Nat BY <1>1, <2>3, JobsFinite
  <2>5. Cardinality(First(S, Page + 1)) > Page BY <1>1, <2>2, <2>4
  <2>6. QED BY <1>4, <2>2, <2>5
<1>9. QED BY <1>7, <1>8

\* A step that leaves the catalogue and the announcements alone.
LEMMA StillSure ==
  ASSUME AllPromised, mem' = mem, disk' = disk, forgotten' = forgotten,
         at \notin {"save1", "save2"} \/ cur \notin Obs,
         \A o \in Obs : queue[o] \notin {"NONE", "ACKED"} => queue'[o] \notin {"NONE", "ACKED"},
         \A r \in Req \ Dormant :
            /\ queue'[r] = "HIBERNATED" => queue[r] = "HIBERNATED"
            /\ queue'[r] = "HIBERNATED" /\ wakes[Needs[r]] < r => wakes'[Needs[r]] < r
  PROVE  AllPromised'
<1>1. ASSUME NEW x PROVE Known(x)' => Known(x) BY DEF Known, NamesOf
<1>2. ASSUME NEW o \in Obs, NEW x, Sure(o, x) PROVE Sure(o, x)' BY <1>2 DEF Sure, Durable
<1>3. QED BY <1>1, <1>2, StillAwaited

LEMMA AwaitedBegins ==
  ASSUME ResearchConstants, PassShape, Awaited, PassBegins
  PROVE  Awaited'
<1> USE DEF PassShape, Awaited
<1>0. Nothing \notin Work /\ Obs \subseteq Work /\ Obs \cap Req = {} BY DEF ResearchConstants, Work
<1>1. ASSUME NEW j \in Work, EnqueueWork(j) PROVE Awaited'
  <2>1. Kept' BY <1>1 DEF EnqueueWork, Kept, Converted
  <2>2. Scanned' /\ Announced' BY <1>1 DEF EnqueueWork, Scanned, Announced
  <2>3. \A r \in Req : queue'[r] = "HIBERNATED" => queue[r] = "HIBERNATED"
    BY <1>1 DEF EnqueueWork, TypeOK, Work
  <2>4. \A o \in Obs : queue[o] \notin {"NONE", "ACKED"} => queue'[o] \notin {"NONE", "ACKED"}
    BY <1>1 DEF EnqueueWork, TypeOK, Work
  <2>5. AllPromised' BY <1>1, <2>3, <2>4, StillSure DEF EnqueueWork
  <2>6. QED BY <2>1, <2>2, <2>5
<1>2. ASSUME NEW j \in Work, Elapse(j) PROVE Awaited'
  <2>1. Kept' BY <1>2 DEF Elapse, Kept
  <2>2. \A r \in Req : queue'[r] = "HIBERNATED" => queue[r] = "HIBERNATED"
    BY <1>2 DEF Elapse, TypeOK, Work
  <2>3. Scanned' /\ Announced' BY <1>2, <2>2 DEF Elapse, Scanned, Announced, Asleep, Served
  <2>4. ASSUME NEW o \in Obs, NEW x, Sure(o, x) PROVE Sure(o, x)'
    BY <1>0, <1>2, <2>4 DEF Elapse, Sure, Durable, TypeOK
  <2>5. ASSUME NEW x PROVE Known(x)' => Known(x) BY <1>2 DEF Elapse, Known, NamesOf
  <2>6. AllPromised' BY <1>2, <2>2, <2>4, <2>5, StillAwaited DEF Elapse
  <2>7. QED BY <2>1, <2>3, <2>6
<1>3. ASSUME StartPass \/ EndPass PROVE Awaited'
  <2>1. cur = Nothing /\ changes = {} BY <1>0, <1>3 DEF StartPass, EndPass, InOrder
  <2>2. Kept'
    <3>1. cur' = Nothing BY <1>3, <2>1 DEF StartPass, EndPass
    <3>2. QED BY <1>0, <3>1 DEF Kept, Work
  <2>3. Scanned' BY <1>3 DEF StartPass, EndPass, Scanned
  <2>4. Announced' BY <1>3, <2>1 DEF StartPass, EndPass, Announced
  <2>5. AllPromised' BY <1>3, StillSure DEF StartPass, EndPass
  <2>6. QED BY <2>2, <2>3, <2>4, <2>5
<1>4. ASSUME Lease PROVE Awaited'
  <2>1. Kept' BY <1>4 DEF Lease, Kept, Converted
  <2>2. Scanned' /\ Announced' BY <1>4 DEF Lease, Scanned, Announced
  <2>3. \A r \in Req : queue'[r] = "HIBERNATED" => queue[r] = "HIBERNATED"
    BY <1>4 DEF Lease, Work
  <2>4. \A o \in Obs : queue[o] \notin {"NONE", "ACKED"} => queue'[o] \notin {"NONE", "ACKED"}
    BY <1>0, <1>4 DEF Lease, TypeOK
  <2>5. AllPromised' BY <1>4, <2>3, <2>4, StillSure DEF Lease
  <2>6. QED BY <2>1, <2>2, <2>5
<1>5. ASSUME NEW o \in Obs, DispatchSeries(o) PROVE Awaited'
  <2>1. cur = Nothing /\ changes = {} /\ at = "next" BY <1>0, <1>5 DEF DispatchSeries, InOrder
  <2>2. mem \in Catalogue /\ Carries[o] \subseteq Point BY DEF TypeOK, ResearchConstants
  <2>3. /\ cur' = o /\ disk' = disk /\ queue' = queue /\ wakes' = wakes /\ forgotten' = forgotten
        /\ queue[o] = "LEASED"
    BY <1>5 DEF DispatchSeries, InOrder
  <2>4. mem'.cache = mem.cache /\ at' \in {"receipt", "save1", "save2"}
    BY <1>5, <2>2 DEF DispatchSeries, Catalogue
  <2>5. o \notin Req BY <1>0
  <2>6. Kept'
    <3>1. CASE mem.cache[o] # NoResult
      BY <1>5, <2>3, <2>5, <3>1 DEF DispatchSeries, Kept, Converted
    <3>2. CASE mem.cache[o] = NoResult
      <4>1. at' \in {"save1", "save2"} BY <1>5, <3>2 DEF DispatchSeries
      <4>2. QED BY <2>3, <2>4, <3>2, <4>1 DEF Kept, Converted
    <3>3. QED BY <3>1, <3>2
  <2>7. Scanned' /\ Announced' BY <2>4 DEF Scanned, Announced
  <2>8. ASSUME NEW p \in Obs, NEW x, Sure(p, x) PROVE Sure(p, x)'
    BY <1>0, <2>1, <2>3, <2>4, <2>8 DEF Sure, Durable
  <2>9. ASSUME NEW x, Known(x)', ~Known(x) PROVE Sure(o, x)'
    <3>1. mem.cache[o] = NoResult
      <4> SUFFICES ASSUME mem.cache[o] # NoResult PROVE FALSE OBVIOUS
      <4>1. mem' = mem /\ disk' = disk BY <1>5 DEF DispatchSeries
      <4>2. QED BY <2>9, <4>1 DEF Known, NamesOf
    <3>2. /\ changes' = NamesOf(Carries[o] \ mem.series)
          /\ mem' = [mem EXCEPT !.series = Retained(mem.series \cup Carries[o])]
          /\ at' = IF changes' = {} THEN "save2" ELSE "save1"
      BY <1>5, <3>1 DEF DispatchSeries
    <3>3. mem'.series \subseteq mem.series \cup Carries[o] BY <2>2, <3>2 DEF Catalogue, Retained
    <3>4. x \in NamesOf(mem'.series) /\ x \notin NamesOf(mem.series)
      BY <2>3, <2>9 DEF Known, NamesOf
    <3>5. x \in NamesOf(Carries[o] \ mem.series) BY <3>3, <3>4 DEF NamesOf
    <3>6. QED BY <2>3, <3>2, <3>5 DEF Sure
  <2>10. AllPromised'
    <3> SUFFICES ASSUME NEW r \in Req \ Dormant, queue[r] = "HIBERNATED", Known(Needs[r])',
                        Needs[r] \notin forgotten
                 PROVE  wakes[Needs[r]] < r \/ \E p \in Obs : Sure(p, Needs[r])'
      BY <2>3 DEF AllPromised, Promised
    <3>1. CASE Known(Needs[r]) BY <2>8, <3>1 DEF AllPromised, Promised
    <3>2. CASE ~Known(Needs[r]) BY <2>9, <3>2
    <3>3. QED BY <3>1, <3>2
  <2>11. QED BY <2>6, <2>7, <2>10
<1>6. ASSUME NEW r \in Req, DispatchRequest(r) PROVE Awaited'
  <2>1. cur' \notin Obs /\ at' = "save2" /\ at = "next" BY <1>0, <1>6 DEF DispatchRequest
  <2>2. Kept' BY <2>1 DEF Kept, Converted
  <2>3. Scanned' /\ Announced' BY <1>6 DEF DispatchRequest, Scanned, Announced
  <2>4. AllPromised' BY <1>6, <2>1, StillSure DEF DispatchRequest
  <2>5. QED BY <2>2, <2>3, <2>4
<1>7. QED BY <1>1, <1>2, <1>3, <1>4, <1>5, <1>6 DEF PassBegins

LEMMA AwaitedCommits ==
  ASSUME ResearchConstants, PassShape, Awaited, PassCommits
  PROVE  Awaited'
<1> USE DEF PassShape, Awaited
<1>0. Nothing \notin Work /\ Obs \subseteq Work /\ Obs \cap Req = {} BY DEF ResearchConstants, Work
<1>1. ASSUME SaveSeries PROVE Awaited'
  <2>1. disk' = mem /\ mem' = mem /\ at = "save1" /\ at' = "save2" BY <1>1 DEF SaveSeries
  <2>2. Kept' BY <1>1 DEF SaveSeries, Kept, Converted
  <2>3. Scanned' /\ Announced' BY <1>1 DEF SaveSeries, Scanned, Announced
  <2>4. ASSUME NEW x PROVE Known(x)' => Known(x) BY <2>1 DEF Known, NamesOf
  <2>5. ASSUME NEW o \in Obs, NEW x, Sure(o, x) PROVE Sure(o, x)'
    BY <1>1, <2>1, <2>5 DEF SaveSeries, Sure, Durable
  <2>6. AllPromised' BY <1>1, <2>4, <2>5, StillAwaited DEF SaveSeries
  <2>7. QED BY <2>2, <2>3, <2>6
<1>2. ASSUME SaveResult PROVE Awaited'
  <2>1. PICK gone \in Pushable :
          /\ mem' = Stored(gone) /\ disk' = mem'
          /\ forgotten' = IF Blocked(cur) THEN forgotten ELSE forgotten \cup Unannounced(gone)
    BY <1>2 DEF SaveResult
  <2>2. /\ mem'.series = mem.series
        /\ cur \in Obs => mem'.cache[cur] = changes
        /\ \A o \in Obs : o # cur => \/ mem'.cache[o] = mem.cache[o]
                                     \/ o = gone /\ ~Blocked(cur)
    BY <2>1, StoredEffect
  <2>3. at = "save2" /\ at' = "receipt" /\ cur' = cur /\ changes' = changes /\ queue' = queue
    BY <1>2 DEF SaveResult
  <2>4. Kept' BY <2>1, <2>2, <2>3 DEF Kept, Converted
  <2>5. Scanned' /\ Announced' BY <1>2 DEF SaveResult, Scanned, Announced
  <2>6. changes # NoResult BY ResultIsResult DEF TypeOK
  <2>7. ASSUME NEW x PROVE Known(x)' => Known(x) BY <2>1, <2>2 DEF Known, NamesOf
  <2>8. ASSUME NEW o \in Obs, NEW x, Sure(o, x), x \notin forgotten' PROVE Sure(o, x)'
    <3>1. queue'[o] \notin {"NONE", "ACKED"} BY <2>3, <2>8 DEF Sure
    <3>2. CASE o = cur
      <4>1. x \in changes BY <2>3, <2>8, <3>2 DEF Sure, Durable, Kept
      <4>2. QED BY <2>1, <2>2, <2>6, <3>1, <3>2, <4>1 DEF Sure, Durable
    <3>3. CASE o # cur
      <4>1. Durable(o, x) BY <2>8, <3>3 DEF Sure
      <4>2. CASE mem'.cache[o] = mem.cache[o]
        BY <2>1, <3>1, <4>1, <4>2 DEF Sure, Durable
      <4>3. CASE o = gone /\ ~Blocked(cur)
        <5>1. x \in Unannounced(gone) BY <2>8, <4>1, <4>3 DEF Unannounced, Durable, Sure
        <5>2. QED BY <2>1, <2>8, <4>3, <5>1
      <4>4. QED BY <2>2, <3>3, <4>2, <4>3
    <3>4. QED BY <3>2, <3>3
  <2>9. forgotten \subseteq forgotten' /\ wakes' = wakes BY <1>2, <2>1 DEF SaveResult
  <2>10. AllPromised' BY <2>3, <2>7, <2>8, <2>9, StillAwaited
  <2>11. QED BY <2>4, <2>5, <2>10
<1>3. ASSUME RetainReceipt \/ EnqueueChildren PROVE Awaited'
  <2>1. Kept' BY <1>3 DEF RetainReceipt, EnqueueChildren, Kept, Converted
  <2>2. Scanned' /\ Announced' BY <1>3 DEF RetainReceipt, EnqueueChildren, Scanned, Announced
  <2>3. AllPromised' BY <1>3, StillSure DEF RetainReceipt, EnqueueChildren
  <2>4. QED BY <2>1, <2>2, <2>3
<1>4. ASSUME Finish PROVE Awaited'
  <2>1. cur \in Work /\ at = "finish" BY <1>4 DEF Finish, InOrder, Writing, TypeOK
  <2>2. Kept'
    <3>1. cur' \notin Obs /\ cur' \notin Req BY <1>0, <1>4 DEF Finish, Work
    <3>2. QED BY <3>1 DEF Kept
  <2>3. Scanned' /\ Announced' BY <1>4 DEF Finish, Scanned, Announced
  <2>4. ASSUME NEW r \in Req \ Dormant, queue'[r] = "HIBERNATED", Known(Needs[r]), Needs[r] \notin forgotten
        PROVE  wakes[Needs[r]] < r \/ \E o \in Obs : Sure(o, Needs[r])'
    <3>1. r # cur
      <4> SUFFICES ASSUME r = cur PROVE FALSE OBVIOUS
      <4>1. Needs[r] \notin NamesOf(mem.series) BY <1>4, <2>1, <2>4 DEF Finish, Blocked, TypeOK
      <4>2. disk.series = mem.series BY <2>1 DEF Kept, Converted
      <4>3. QED BY <2>4, <4>1, <4>2 DEF Known
    <3>2. queue[r] = "HIBERNATED" BY <1>4, <2>1, <2>4, <3>1 DEF Finish, TypeOK
    <3>3. CASE wakes[Needs[r]] < r BY <3>3
    <3>4. CASE ~(wakes[Needs[r]] < r)
      <4>1. PICK o \in Obs : Sure(o, Needs[r]) BY <2>4, <3>2, <3>4 DEF AllPromised, Promised
      <4>2. Durable(o, Needs[r]) BY <2>1, <4>1 DEF Sure
      <4>3. o # cur
        <5> SUFFICES ASSUME o = cur PROVE FALSE OBVIOUS
        <5>1. mem.cache[cur] = changes BY <2>1 DEF Kept, Converted
        <5>2. Needs[r] \in changes BY <4>2, <5>1 DEF Durable
        <5>3. QED BY <2>1, <2>4, <3>2, <3>4, <5>2 DEF Announced, Asleep
      <4>4. queue'[o] = queue[o] BY <1>0, <1>4, <2>1, <4>3 DEF Finish, TypeOK
      <4>5. Sure(o, Needs[r])' BY <1>4, <4>1, <4>2, <4>4 DEF Finish, Sure, Durable
      <4>6. QED BY <4>5
    <3>5. QED BY <3>3, <3>4
  <2>5. ASSUME NEW x PROVE Known(x)' <=> Known(x) BY <1>4 DEF Finish, Known, NamesOf
  <2>6. forgotten' = forgotten /\ wakes' = wakes BY <1>4 DEF Finish
  <2>7. AllPromised' BY <2>4, <2>5, <2>6 DEF AllPromised, Promised
  <2>8. QED BY <2>2, <2>3, <2>7
<1>5. QED BY <1>1, <1>2, <1>3, <1>4 DEF PassCommits

LEMMA AwaitedWakes ==
  ASSUME ResearchConstants, PassShape, Awaited, PassWakes
  PROVE  Awaited'
<1> USE DEF PassShape, Awaited
<1>0. NumReq \in Nat /\ (\A r \in Req : Needs[r] \in Var) BY DEF ResearchConstants
<1>1. ASSUME Notify PROVE Awaited'
  <2>1. Kept' BY <1>1 DEF Notify, Kept, Converted
  <2>2. Scanned' BY <1>1 DEF Notify, Scanned
  <2>3. ASSUME NEW r \in Req
        PROVE  /\ Needs[r] \in changes => wakes'[Needs[r]] < r
               /\ Needs[r] \notin changes => wakes'[Needs[r]] = wakes[Needs[r]]
    <3>1. wakes'[Needs[r]] = IF Needs[r] \in changes THEN 0 ELSE wakes[Needs[r]] BY <1>0, <1>1 DEF Notify
    <3>2. QED BY <1>0, <3>1 DEF Req
  <2>4. Announced' BY <1>1, <2>3 DEF Notify, Announced
  <2>5. ASSUME NEW x PROVE Known(x)' <=> Known(x) BY <1>1 DEF Notify, Known, NamesOf
  <2>6. ASSUME NEW o \in Obs, NEW x, Sure(o, x) PROVE Sure(o, x)'
    BY <1>1, <2>6 DEF Notify, Sure, Durable
  <2>7. forgotten' = forgotten \ changes /\ queue' = queue BY <1>1 DEF Notify
  <2>8. ASSUME NEW r \in Req \ Dormant, Promised(r) PROVE Promised(r)'
    <3>1. CASE Needs[r] \in changes BY <2>3, <3>1 DEF Promised
    <3>2. CASE Needs[r] \notin changes BY <2>3, <2>5, <2>6, <2>7, <2>8, <3>2 DEF Promised
    <3>3. QED BY <3>1, <3>2
  <2>9. AllPromised' BY <2>8 DEF AllPromised
  <2>10. QED BY <2>1, <2>2, <2>4, <2>9
<1>2. ASSUME DrainRead PROVE Awaited'
  <2>1. Kept' BY <1>2 DEF DrainRead, Kept, Converted
  <2>2. Scanned' BY <1>2, ReadCovers
  <2>3. Announced' BY <1>2 DEF DrainRead, Announced, Asleep
  <2>4. AllPromised' BY <1>2, StillSure DEF DrainRead
  <2>5. QED BY <2>1, <2>2, <2>3, <2>4
<1>3. ASSUME NEW q \in Req, DrainWake(q) PROVE Awaited'
  <2>1. q \in Work /\ q \notin Obs BY DEF Work, ResearchConstants
  <2>2. Kept' BY <1>3 DEF DrainWake, Kept, Converted
  <2>3. \A r \in Req : queue'[r] = "HIBERNATED" => queue[r] = "HIBERNATED"
    BY <1>3, <2>1 DEF DrainWake, TypeOK, Work
  <2>4. Scanned' BY <1>3, <2>3 DEF DrainWake, Scanned, Served
  <2>5. Announced' BY <1>3, <2>3 DEF DrainWake, Announced, Asleep
  <2>6. \A o \in Obs : queue[o] \notin {"NONE", "ACKED"} => queue'[o] \notin {"NONE", "ACKED"}
    BY <1>3, <2>1 DEF DrainWake, TypeOK
  <2>7. AllPromised' BY <1>3, <2>3, <2>6, StillSure DEF DrainWake
  <2>8. QED BY <2>2, <2>4, <2>5, <2>7
<1>4. ASSUME DrainSave PROVE Awaited'
  <2>1. Kept' BY <1>4 DEF DrainSave, Kept, Converted
  <2>2. Scanned' BY <1>4 DEF DrainSave, Scanned
  <2>3. ASSUME NEW r \in Req, Asleep(r), wakes[Needs[r]] < r PROVE wakes'[Needs[r]] < r
    BY <1>4, <2>3, CursorPassesNobody
  <2>4. Announced' BY <1>4, <2>3 DEF DrainSave, Announced, Asleep
  <2>5. \A r \in Req \ Dormant : queue'[r] = "HIBERNATED" /\ wakes[Needs[r]] < r => wakes'[Needs[r]] < r
    BY <1>4, <2>3 DEF DrainSave, Asleep
  <2>6. AllPromised' BY <1>4, <2>5, StillSure DEF DrainSave
  <2>7. QED BY <2>1, <2>2, <2>4, <2>6
<1>5. QED BY <1>1, <1>2, <1>3, <1>4 DEF PassWakes

LEMMA AwaitedBreaks ==
  ASSUME ResearchConstants, PassShape, Awaited, PassBreaks
  PROVE  Awaited'
<1> USE DEF PassShape, Awaited
<1>0. Nothing \notin Obs /\ Nothing \notin Req /\ Obs \subseteq Work /\ Obs \cap Req = {}
  BY DEF ResearchConstants, Work
<1>1. /\ disk' = disk /\ wakes' = wakes /\ cur' = Nothing /\ at' \in {"next", "idle"}
      /\ changes' = {}
  BY DEF PassBreaks, StepFails, PassFails, Crash
<1>2. Kept' BY <1>0, <1>1 DEF Kept
<1>3. Scanned' /\ Announced' BY <1>1 DEF Scanned, Announced
<1>4. queue' = queue \/ (cur \in Work /\ queue' = [queue EXCEPT ![cur] = "RETRY"])
  BY DEF PassBreaks, StepFails, PassFails, Crash, TypeOK
<1>5. ASSUME NEW r \in Req, queue'[r] = "HIBERNATED" PROVE queue[r] = "HIBERNATED"
  BY <1>4, <1>5 DEF TypeOK, Work
<1>6. \A o \in Obs : queue[o] \notin {"NONE", "ACKED"} => queue'[o] \notin {"NONE", "ACKED"}
  BY <1>0, <1>4 DEF TypeOK
<1>7. /\ forgotten \subseteq forgotten'
      /\ at \in {"save1", "save2"} => changes \subseteq forgotten'
  <2>1. CASE CatalogueFails BY <2>1, FailureEffect
  <2>2. CASE Crash BY <2>2 DEF Crash
  <2>3. QED BY <2>1, <2>2 DEF PassBreaks, StepFails, PassFails
<1>8. ASSUME NEW x PROVE Known(x)' => Known(x)
  <2>1. mem'.series = mem.series \/ mem'.series = disk.series
    <3>1. CASE CatalogueFails BY <3>1, FailureEffect
    <3>2. CASE Crash BY <3>2 DEF Crash
    <3>3. QED BY <3>1, <3>2 DEF PassBreaks, StepFails, PassFails
  <2>2. QED BY <1>1, <2>1 DEF Known, NamesOf
<1>9. ASSUME NEW o \in Obs, NEW x, Sure(o, x), x \notin forgotten' PROVE Sure(o, x)'
  <2>1. queue'[o] \notin {"NONE", "ACKED"} /\ queue[o] # "ACKED" BY <1>6, <1>9 DEF Sure
  <2>2. Durable(o, x) BY <1>7, <1>9 DEF Sure
  <2>3. ~(o = cur /\ at = "save2") BY <2>2 DEF Kept, Durable
  <2>4. CASE CatalogueFails
    <3>1. mem'.cache[o] = mem.cache[o]
      <4>1. ~(mem.cache[o] \subseteq forgotten') BY <1>9, <2>2 DEF Durable
      <4>2. QED BY <2>1, <2>3, <2>4, <4>1, FailureEffect
    <3>2. QED BY <1>1, <2>1, <2>2, <3>1 DEF Sure, Durable
  <2>5. CASE Crash
    <3>1. mem' = disk BY <2>5 DEF Crash
    <3>2. QED BY <1>1, <2>1, <2>2, <3>1 DEF Sure, Durable
  <2>6. QED BY <2>4, <2>5 DEF PassBreaks, StepFails, PassFails
<1>10. AllPromised' BY <1>1, <1>5, <1>7, <1>8, <1>9, StillAwaited
<1>11. QED BY <1>2, <1>3, <1>10

\* Work asleep on an observable the catalogue has is about to be woken, for any number of
\* requests, points, pages and names per drain, any evictions and any failures, except where an
\* announcement was lost with a failed catalogue write or an evicted result.
THEOREM WakesAreNotLost == Spec => []NoLostWake
<1>1. Init => Awaited
  <2> SUFFICES ASSUME Init PROVE Awaited OBVIOUS
  <2>1. Kept BY DEF Init, Kept, Converted
  <2>2. Scanned /\ Announced BY DEF Init, Scanned, Announced
  <2>3. \A r \in Req : queue[r] # "HIBERNATED" BY DEF Init, Work
  <2>4. AllPromised BY <2>3 DEF AllPromised, Promised
  <2>5. QED BY <2>1, <2>2, <2>4 DEF Awaited
<1>2. ASSUME PassShape, Awaited, [Next]_pvars PROVE Awaited'
  <2>1. CASE UNCHANGED pvars
    <3>1. Kept' /\ Scanned' /\ Announced'
      BY <1>2, <2>1 DEF Awaited, Kept, Scanned, Announced, Asleep, Served, pvars
    <3>2. ASSUME NEW x PROVE Known(x)' => Known(x) BY <2>1 DEF Known, NamesOf, pvars
    <3>3. ASSUME NEW o \in Obs, NEW x, Sure(o, x) PROVE Sure(o, x)'
      BY <2>1, <3>3 DEF Sure, Durable, pvars
    <3>4. AllPromised' BY <1>2, <2>1, <3>2, <3>3, StillAwaited DEF Awaited, pvars
    <3>5. QED BY <3>1, <3>4 DEF Awaited
  <2>2. CASE Next
    BY <1>2, <2>2, ResearchConstants, PassSteps, AwaitedBegins, AwaitedCommits, AwaitedWakes, AwaitedBreaks
  <2>3. QED BY <1>2, <2>1, <2>2
<1>3. Awaited => NoLostWake
  <2> SUFFICES ASSUME Awaited, NEW r \in Req \ Dormant, queue[r] = "HIBERNATED",
                      Indexed(Needs[r]), Needs[r] \notin forgotten
               PROVE  WakeComing(r)
    BY DEF NoLostWake
  <2>1. Known(Needs[r]) BY DEF Indexed, Known
  <2>2. CASE wakes[Needs[r]] < r BY <2>2 DEF WakeComing
  <2>3. CASE \E o \in Obs : Sure(o, Needs[r])
    <3>1. PICK o \in Obs : Sure(o, Needs[r]) BY <2>3
    <3>2. Announces(o, Needs[r]) BY <3>1 DEF Sure, Durable, Announces
    <3>3. QED BY <3>2 DEF WakeComing
  <2>4. QED BY <2>1, <2>2, <2>3 DEF Awaited, AllPromised, Promised
<1>4. QED BY <1>1, <1>2, <1>3, PassShaped, ResearchConstants, PTL DEF Spec

-----------------------------------------------------------------------------
(***************************************************************************)
(* The rotation of the kinds and of the floors.                            *)
(***************************************************************************)

\* The units that CostOf counts.
Units(jobs) == UNION {{j} \X (1..Cost[j]) : j \in jobs}

\* Jobs of at most b units each cost at most b units for each of them.
LEMMA CostBound ==
  ASSUME RotationConstants, NEW S \in SUBSET Jobs, IsFiniteSet(S), NEW b \in Nat,
         \A j \in S : Cost[j] <= b
  PROVE  /\ IsFiniteSet(Units(S)) /\ CostOf(S) = Cardinality(Units(S))
         /\ CostOf(S) \in Nat /\ CostOf(S) <= Cardinality(S) * b
<1>1. Units(S) \subseteq S \X (1..b)
  <2>1. ASSUME NEW j \in S, NEW u \in {j} \X (1..Cost[j]) PROVE u \in S \X (1..b)
    <3>1. Cost[j] \in Nat /\ Cost[j] <= b BY DEF RotationConstants
    <3>2. QED BY <3>1
  <2>2. ASSUME NEW x \in Units(S) PROVE x \in S \X (1..b)
    <3>1. PICK j \in S : x \in {j} \X (1..Cost[j]) BY <2>2 DEF Units
    <3>2. QED BY <2>1, <3>1
  <2>3. QED BY <2>2
<1>2. IsFiniteSet(1..b) /\ Cardinality(1..b) = b
  <2>0. 1 \in Int /\ b \in Int
    OBVIOUS
  <2>1. IsFiniteSet(1..b) /\ Cardinality(1..b) = IF 1 > b THEN 0 ELSE b - 1 + 1
    BY <2>0, FS_Interval, Zenon
  <2>2. QED BY <2>1
<1>3. IsFiniteSet(S \X (1..b)) /\ Cardinality(S \X (1..b)) = Cardinality(S) * b
  BY <1>2, FS_Product
<1>4. IsFiniteSet(Units(S)) /\ Cardinality(Units(S)) <= Cardinality(S) * b
  BY <1>1, <1>3, FS_Subset
<1>5. CostOf(S) = Cardinality(Units(S))
  BY DEF CostOf, Units
<1>6. QED
  BY <1>4, <1>5, FS_CardinalityType

\* Taking one more job adds its cost.
LEMMA CostAdds ==
  ASSUME RotationConstants, NEW S \in SUBSET Jobs, IsFiniteSet(S),
         \A j \in S : Cost[j] <= Budget,
         NEW i \in Jobs \ S, Cost[i] <= Budget
  PROVE  CostOf(S \cup {i}) = CostOf(S) + Cost[i]
<1> DEFINE U == Units(S)
           V == {i} \X (1..Cost[i])
<1>1. Cost[i] \in Nat /\ Budget \in Nat
  BY DEF RotationConstants
<1>2. IsFiniteSet(U) /\ CostOf(S) = Cardinality(U) /\ CostOf(S) \in Nat
  BY <1>1, CostBound
<1>3. IsFiniteSet(V) /\ Cardinality(V) = Cost[i]
  <2>1. IsFiniteSet({i}) /\ Cardinality({i}) = 1
    BY FS_Singleton
  <2>2. IsFiniteSet(1..Cost[i])
        /\ Cardinality(1..Cost[i]) = IF 1 > Cost[i] THEN 0 ELSE Cost[i] - 1 + 1
    <3>1. 1 \in Int /\ Cost[i] \in Int
      BY <1>1
    <3>2. QED
      BY <3>1, FS_Interval, Zenon
  <2>3. IsFiniteSet(V) /\ Cardinality(V) = 1 * Cardinality(1..Cost[i])
    BY <2>1, <2>2, FS_Product
  <2>4. QED
    BY <1>1, <2>2, <2>3
<1>4. U \cap V = {}
  BY DEF Units
<1>5. CostOf(S \cup {i}) = Cardinality(U \cup V)
  <2>1. Units(S \cup {i}) \subseteq U \cup V
    BY DEF Units
  <2>2. (U \cup V) \subseteq Units(S \cup {i})
    BY DEF Units
  <2>3. Units(S \cup {i}) = U \cup V
    BY <2>1, <2>2
  <2>4. CostOf(S \cup {i}) = Cardinality(Units(S \cup {i}))
    BY DEF CostOf, Units
  <2>5. QED
    BY <2>3, <2>4
<1>6. Cardinality(U \cup V) = Cardinality(U) + Cardinality(V) - Cardinality(U \cap V)
  BY <1>2, <1>3, FS_Union
<1>7. Cardinality(U \cap V) = 0
  BY <1>4, FS_EmptySet
<1>8. QED
  BY <1>1, <1>2, <1>3, <1>5, <1>6, <1>7

\* No job costs nothing.
LEMMA CostOfNone == CostOf({}) = 0
<1>1. CostOf({}) = Cardinality({})
  BY DEF CostOf
<1>2. QED
  BY <1>1, FS_EmptySet

\* Every kind has its turn within a round, and the turns after the chosen kind come
\* that much earlier once it was chosen.
LEMMA TurnsAre ==
  ASSUME RotationConstants, NEW l \in 0..KindCount, NEW k \in Kind
  PROVE  /\ Turns(l, k) \in Nat \ {0} /\ Turns(l, k) <= KindCount
         /\ \A c \in Kind : Turns(l, c) < Turns(l, k) =>
              Turns(c, k) = Turns(l, k) - Turns(l, c)
  BY DEF RotationConstants, Kind, Turns

\* The chosen kind has work, and no kind with work has an earlier turn.
LEMMA NextKindIsNext ==
  ASSUME RotationConstants, last \in 0..KindCount, due_kinds # {}
  PROVE  /\ NextKind \in due_kinds /\ NextKind \in Kind
         /\ \A k \in due_kinds : k = NextKind \/ Turns(last, NextKind) < Turns(last, k)
<1> DEFINE later == {k \in due_kinds : k > last}
           these == IF later = {} THEN due_kinds ELSE later
<1>1. due_kinds \subseteq Kind /\ Kind \subseteq Nat /\ these \subseteq due_kinds /\ these # {}
  BY DEF due_kinds, Kind
<1>2. PICK m \in these : \A k \in these : m <= k
  BY <1>1, LeastJob
<1>3. NextKind \in these /\ \A k \in these : NextKind <= k
  BY <1>2, Zenon DEF NextKind, Foremost
<1>4. NextKind \in due_kinds /\ NextKind \in Kind
  BY <1>1, <1>3
<1>5. ASSUME NEW k \in due_kinds, k # NextKind
      PROVE  Turns(last, NextKind) < Turns(last, k)
  <2>1. k \in Kind /\ k \in 1..KindCount /\ NextKind \in 1..KindCount /\ KindCount \in Nat
    BY <1>1, <1>4 DEF Kind, RotationConstants
  <2>2. k \in these => NextKind < k
    BY <1>3, <1>5, <2>1
  <2>3. k \in these <=> (k > last \/ later = {})
    BY <1>5
  <2>4. NextKind > last \/ later = {}
    BY <1>3
  <2>5. later = {} => ~(k > last) /\ ~(NextKind > last)
    BY <1>4, <1>5
  <2> HIDE DEF later, these
  <2>6. QED
    BY <2>1, <2>2, <2>3, <2>4, <2>5 DEF Turns
<1>6. QED
  BY <1>4, <1>5

\* The order of the tags has every floor once.
LEMMA EveryFloorOrdered ==
  ASSUME RotationConstants, cursor \in 0..(FloorCount - 1)
  PROVE  \A i \in Floor : \E v \in 0..(FloorCount - 1) : OrderedTag(v) = i
<1> SUFFICES ASSUME NEW i \in Floor
             PROVE  \E v \in 0..(FloorCount - 1) : OrderedTag(v) = i
  OBVIOUS
<1>1. FloorCount \in Nat /\ i \in 1..FloorCount
  BY DEF RotationConstants, Floor
<1>2. CASE i > cursor
  <2>1. i - 1 - cursor \in 0..(FloorCount - 1) /\ OrderedTag(i - 1 - cursor) = i
    BY <1>1, <1>2 DEF OrderedTag
  <2>2. QED
    BY <2>1
<1>3. CASE ~(i > cursor)
  <2>1. /\ i - 1 - cursor + FloorCount \in 0..(FloorCount - 1)
        /\ OrderedTag(i - 1 - cursor + FloorCount) = i
    BY <1>1, <1>3 DEF OrderedTag
  <2>2. QED
    BY <2>1
<1>4. QED
  BY <1>2, <1>3

LEMMA OrderedTagIsFloor ==
  ASSUME RotationConstants, cursor \in 0..(FloorCount - 1), NEW v \in 0..(FloorCount - 1)
  PROVE  OrderedTag(v) \in Floor
  BY DEF RotationConstants, Floor, OrderedTag

\* Among jobs that the pass has room for, as many as there are floors leave a share.
LEMMA RoomLeft ==
  ASSUME RotationConstants, NEW share \in 1..Budget, NEW W \in SUBSET Jobs, HasRoom(share, W),
         NEW S \in SUBSET W, IsFiniteSet(S), Cardinality(S) <= FloorCount
  PROVE  CostOf(S) \in Nat /\ CostOf(S) + share <= Budget
<1>1. share * (FloorCount + 1) <= Budget /\ \A j \in W : Cost[j] <= share
  BY DEF HasRoom
<1>2. share \in Nat \ {0} /\ FloorCount \in Nat /\ Cardinality(S) \in Nat /\ Budget \in Nat
  BY FS_CardinalityType DEF RotationConstants
<1>3. CostOf(S) \in Nat /\ CostOf(S) <= Cardinality(S) * share
  BY <1>1, <1>2, CostBound
<1>4. Cardinality(S) * share <= FloorCount * share
  BY <1>2
<1>5. share * (FloorCount + 1) = FloorCount * share + share
  BY <1>2
<1>6. FloorCount * share \in Nat /\ Cardinality(S) * share \in Nat
  BY <1>2
<1>7. QED
  BY <1>1, <1>2, <1>3, <1>4, <1>5, <1>6

\* A query that reads n rows, where B has the rows before each, reaches a good row, if
\* there is one and fewer than n others.
LEMMA ScanReaches ==
  ASSUME NEW rows, IsFiniteSet(rows), NEW B \in [rows -> SUBSET rows],
         NEW good \in SUBSET rows, good # {}, NEW n \in Nat,
         \A i \in rows : i \notin B[i],
         \A j \in rows : \A h \in B[j] : B[h] \subseteq B[j],
         Cardinality(rows \ good) < n
  PROVE  \E j \in good : Cardinality(B[j]) < n
<1> DEFINE Ranks == {Cardinality(B[j]) : j \in good}
<1>1. ASSUME NEW j \in rows PROVE IsFiniteSet(B[j]) /\ Cardinality(B[j]) \in Nat
  <2>1. B[j] \in SUBSET rows
    OBVIOUS
  <2>2. IsFiniteSet(B[j])
    BY <2>1, FS_Subset
  <2>3. QED
    BY <2>2, FS_CardinalityType
<1>2. Ranks \in SUBSET Nat /\ Ranks # {}
  <2>1. \A j \in good : Cardinality(B[j]) \in Nat
    BY <1>1
  <2>2. PICK j \in good : TRUE
    OBVIOUS
  <2>3. Cardinality(B[j]) \in Ranks
    OBVIOUS
  <2>4. QED
    BY <2>1, <2>3
<1>3. PICK m \in Ranks : \A k \in Ranks : m <= k
  BY <1>2, LeastJob
<1>4. PICK j \in good : Cardinality(B[j]) = m
  BY <1>3
<1>5. ASSUME NEW h \in B[j], h \in good PROVE FALSE
  <2>1. h \in rows /\ j \in rows
    OBVIOUS
  <2>2. B[h] \in SUBSET B[j] /\ h \notin B[h]
    BY <2>1
  <2>3. B[h] # B[j]
    BY <2>2
  <2>4. IsFiniteSet(B[j]) /\ Cardinality(B[j]) \in Nat /\ Cardinality(B[h]) \in Nat
    BY <1>1, <2>1
  <2>5. Cardinality(B[h]) < Cardinality(B[j])
    BY <2>2, <2>3, <2>4, FS_Subset
  <2>6. Cardinality(B[h]) \in Ranks
    BY <1>5
  <2>7. QED
    BY <1>3, <1>4, <2>4, <2>5, <2>6
<1>6. B[j] \in SUBSET (rows \ good)
  BY <1>5
<1>7. IsFiniteSet(rows \ good) /\ Cardinality(rows \ good) \in Nat
  <2>1. IsFiniteSet(rows \ good)
    BY FS_Difference
  <2>2. QED
    BY <2>1, FS_CardinalityType
<1>8. Cardinality(B[j]) <= Cardinality(rows \ good) /\ Cardinality(B[j]) \in Nat
  BY <1>1, <1>6, <1>7, FS_Subset
<1>9. QED
  BY <1>7, <1>8

\* The rows of an open lease are finitely many and have their order.
LEMMA RowsAre ==
  ASSUME RotationConstants, RotationTypeOK, Envelope, NEW rows \in SUBSET tx.pool
  PROVE  /\ IsFiniteSet(rows) /\ Fits(rows) \in SUBSET rows /\ ScanLimit \in Nat
         /\ \A j \in rows : Created[j] \in Nat /\ Priority[j] \in Int
<1>1. rows \in SUBSET due /\ IsFiniteSet(due) /\ due \subseteq Jobs
  BY DEF Envelope, RotationTypeOK
<1>2. IsFiniteSet(rows)
  BY <1>1, FS_Subset
<1>3. QED
  BY <1>1, <1>2 DEF RotationConstants, Fits

\* The scan for a floor reaches a row that fits, if there is one and fewer than ScanLimit
\* others.
LEMMA TagScanReaches ==
  ASSUME RotationConstants, RotationTypeOK, Envelope, NEW f, NEW rows,
         rows = {j \in tx.pool : f \in FloorsOf[j]},
         Fits(rows) # {}, Cardinality(rows \ Fits(rows)) < ScanLimit
  PROVE  HasFloor(f, Fits(TagScan(f)))
<1> DEFINE B == [j \in rows |-> {h \in rows : Older(h, j)}]
<1>1. /\ IsFiniteSet(rows) /\ Fits(rows) \in SUBSET rows /\ ScanLimit \in Nat
      /\ \A j \in rows : Created[j] \in Nat
  BY RowsAre
<1>2. B \in [rows -> SUBSET rows] /\ \A j \in rows : B[j] = {h \in rows : Older(h, j)}
  OBVIOUS
<1> HIDE DEF B
<1>3. /\ \A i \in rows : i \notin B[i]
      /\ \A j \in rows : \A h \in B[j] : B[h] \subseteq B[j]
  BY <1>1, <1>2 DEF Older
<1> DEFINE good == Fits(rows)
<1>4. good \in SUBSET rows /\ good # {} /\ Cardinality(rows \ good) < ScanLimit
  BY <1>1
<1>5. PICK j \in good : Cardinality(B[j]) < ScanLimit
  <2> HIDE DEF good
  <2>1. B \in [rows -> SUBSET rows]
    BY <1>2
  <2>2. QED
    BY <1>1, <1>3, <1>4, <2>1, ScanReaches
<1>6. j \in TagScan(f) /\ f \in FloorsOf[j]
  BY <1>1, <1>2, <1>5 DEF TagScan
<1>7. QED
  BY <1>5, <1>6 DEF Fits, HasFloor

\* The priority scan reaches a row that fits, if there is one and fewer than ScanLimit
\* others.
LEMMA PriorityScanReaches ==
  ASSUME RotationConstants, RotationTypeOK, Envelope, NEW rows, rows = tx.pool,
         Fits(rows) # {}, Cardinality(rows \ Fits(rows)) < ScanLimit
  PROVE  Fits(PriorityScan) # {}
<1> DEFINE B == [j \in rows |-> {h \in rows : Better(h, j)}]
<1>1. /\ IsFiniteSet(rows) /\ Fits(rows) \in SUBSET rows /\ ScanLimit \in Nat
      /\ \A j \in rows : Created[j] \in Nat /\ Priority[j] \in Int
  BY RowsAre
<1>2. B \in [rows -> SUBSET rows] /\ \A j \in rows : B[j] = {h \in rows : Better(h, j)}
  OBVIOUS
<1> HIDE DEF B
<1>3. /\ \A i \in rows : i \notin B[i]
      /\ \A j \in rows : \A h \in B[j] : B[h] \subseteq B[j]
  BY <1>1, <1>2 DEF Better, Older
<1> DEFINE good == Fits(rows)
<1>4. good \in SUBSET rows /\ good # {} /\ Cardinality(rows \ good) < ScanLimit
  BY <1>1
<1>5. PICK j \in good : Cardinality(B[j]) < ScanLimit
  <2> HIDE DEF good
  <2>1. B \in [rows -> SUBSET rows]
    BY <1>2
  <2>2. QED
    BY <1>1, <1>3, <1>4, <2>1, ScanReaches
<1>6. j \in PriorityScan
  BY <1>1, <1>2, <1>5 DEF PriorityScan
<1>7. QED
  BY <1>5, <1>6 DEF Fits

\* A step of the open transaction that takes job j and has then visited n floors.
Takes(j, n) == tx' = [tx EXCEPT !.visited = n, !.selected = @ \cup {j}, !.remaining = @ - Cost[j]]
OnlyTx ==
    UNCHANGED <<due, cursor, last, stage, chosen, took, wanted, buried, kindWait, aborts>>

\* What is in hand is what was leased before and what the transaction selected.
LEMMA InHandCount ==
  ASSUME RotationTypeOK, Envelope
  PROVE  /\ IsFiniteSet(took) /\ IsFiniteSet(tx.selected) /\ InHand \subseteq Jobs
         /\ Cardinality(took) \in Nat /\ Cardinality(tx.selected) \in Nat
         /\ Cardinality(InHand) = Cardinality(took) + Cardinality(tx.selected)
<1>1. IsFiniteSet(InHand) /\ took \in SUBSET InHand /\ tx.selected \in SUBSET InHand
  BY DEF Envelope, InHand
<1>2. IsFiniteSet(took) /\ IsFiniteSet(tx.selected)
  BY <1>1, FS_Subset
<1>3. took \cap tx.selected = {}
  BY DEF Envelope
<1>4. Cardinality(took \cap tx.selected) = 0
  BY <1>3, FS_EmptySet
<1>5. Cardinality(InHand) = Cardinality(took) + Cardinality(tx.selected)
                              - Cardinality(took \cap tx.selected)
  BY <1>2, FS_Union DEF InHand
<1>6. Cardinality(took) \in Nat /\ Cardinality(tx.selected) \in Nat
  BY <1>2, FS_CardinalityType
<1>7. InHand \subseteq Jobs
  BY DEF InHand, RotationTypeOK, OpenTx
<1>8. QED
  BY <1>2, <1>4, <1>5, <1>6, <1>7

\* What is in hand has a cost that the budget covers.
LEMMA InHandCost ==
  ASSUME RotationConstants, RotationTypeOK, Envelope
  PROVE  CostOf(InHand) \in Nat
<1>1. IsFiniteSet(InHand) /\ \A j \in InHand : Cost[j] <= Budget
  BY DEF Envelope
<1>2. InHand \in SUBSET Jobs /\ Budget \in Nat
  BY InHandCount DEF RotationConstants
<1>3. QED
  BY <1>1, <1>2, CostBound

\* Selecting a row that fits keeps the types and the envelope.
LEMMA Selecting ==
  ASSUME RotationConstants, RotationTypeOK, Envelope, stage \in Leasing, ~Filled,
         NEW j \in Fits(tx.pool), NEW n \in 0..FloorCount, Takes(j, n), OnlyTx
  PROVE  /\ RotationTypeOK' /\ Envelope' /\ InHand' = InHand \cup {j}
         /\ tx'.pool = tx.pool /\ tx'.limit = tx.limit /\ tx'.visited = n
         /\ tx'.selected = tx.selected \cup {j}
         /\ Cardinality(tx'.selected) = Cardinality(tx.selected) + 1
<1>1. /\ j \in Jobs /\ j \in tx.pool /\ j \notin tx.selected /\ Cost[j] <= tx.remaining
      /\ tx \in OpenTx /\ Cost[j] \in Nat /\ Budget \in Nat /\ PassLimit \in Nat
  BY DEF Fits, RotationTypeOK, OpenTx, RotationConstants
<1>2. /\ tx'.pool = tx.pool /\ tx'.limit = tx.limit /\ tx'.visited = n
      /\ tx'.selected = tx.selected \cup {j} /\ tx'.remaining = tx.remaining - Cost[j]
  BY <1>1 DEF Takes, OpenTx
<1>3. tx' \in OpenTx
  <2>1. tx.remaining - Cost[j] \in Nat /\ tx.selected \cup {j} \subseteq Jobs
    BY <1>1 DEF OpenTx
  <2>2. QED
    BY <1>1, <2>1 DEF Takes, OpenTx
<1>4. RotationTypeOK'
  BY <1>3 DEF RotationTypeOK, OnlyTx, Kind, Floor, Leasing
<1>5. InHand' = InHand \cup {j} /\ j \notin InHand
  BY <1>1, <1>2 DEF InHand, OnlyTx, Envelope
<1>6. /\ IsFiniteSet(InHand) /\ InHand \in SUBSET Jobs /\ CostOf(InHand) \in Nat
      /\ \A i \in InHand : Cost[i] <= Budget
      /\ tx.remaining = Budget - CostOf(InHand)
  BY InHandCount, InHandCost DEF Envelope
<1>7. Cost[j] <= Budget
  BY <1>1, <1>6
<1>8. CostOf(InHand') = CostOf(InHand) + Cost[j]
  BY <1>1, <1>5, <1>6, <1>7, CostAdds
<1>9. /\ IsFiniteSet(tx.selected) /\ Cardinality(tx.selected) \in Nat
      /\ Cardinality(took) \in Nat
      /\ Cardinality(InHand) = Cardinality(took) + Cardinality(tx.selected)
  BY InHandCount
<1>10. Cardinality(tx'.selected) = Cardinality(tx.selected) + 1
  <2>1. Cardinality(tx.selected \cup {j}) = Cardinality(tx.selected) + 1
    BY <1>1, <1>9, FS_AddElement
  <2>2. QED
    BY <1>2, <2>1
<1>11. IsFiniteSet(InHand') /\ Cardinality(InHand') = Cardinality(InHand) + 1
  BY <1>5, <1>6, FS_AddElement
<1>12. Cardinality(tx.selected) < tx.limit /\ tx.limit \in Nat
  BY <1>1, <1>9 DEF Filled, OpenTx
<1>13. Cardinality(InHand') <= PassLimit
  <2>1. CASE stage = "lease1"
    <3>1. took = {} /\ tx.limit = 1
      BY <2>1 DEF Envelope
    <3>2. Cardinality(took) = 0 /\ PassLimit >= 1
      BY <3>1, FS_EmptySet DEF RotationConstants
    <3>3. QED
      BY <1>9, <1>11, <1>12, <3>1, <3>2
  <2>2. CASE stage = "lease2"
    <3>1. tx.limit = PassLimit - Cardinality(took)
      BY <2>2 DEF Envelope
    <3>2. QED
      BY <1>1, <1>9, <1>11, <1>12, <3>1
  <2>3. QED
    BY <2>1, <2>2 DEF Leasing
<1>14. CostOf(InHand') <= Budget /\ tx'.remaining = Budget - CostOf(InHand')
  BY <1>1, <1>2, <1>6, <1>8
<1>15. \A i \in InHand' : Cost[i] <= Budget
  BY <1>5, <1>6, <1>7
<1>16. Cardinality(tx'.selected) <= tx'.limit
  BY <1>2, <1>9, <1>10, <1>12
<1>17. tx'.selected \subseteq tx'.pool /\ tx'.pool \subseteq due'
  BY <1>1, <1>2 DEF Envelope, OnlyTx
<1>18. Envelope'
  BY <1>2, <1>11, <1>13, <1>14, <1>15, <1>16, <1>17 DEF Envelope, OnlyTx, TooDear
<1>19. QED
  BY <1>2, <1>4, <1>5, <1>10, <1>18

\* What the history counts on does not change while a lease is open.
LEMMA OnlyTxKeeps ==
  ASSUME Wanted, TurnKept, OnlyTx
  PROVE  Wanted' /\ TurnKept'
  BY DEF Wanted, TurnKept, OnlyTx, HasKind, LeftBehind, Turns

\* A visited floor gives a row or reads none that fits.
LEMMA VisitFloorIs ==
  ASSUME VisitFloor
  PROVE  /\ stage \in Leasing /\ tx.visited < FloorCount /\ ~Filled /\ OnlyTx
         /\ \/ /\ tx' = [tx EXCEPT !.visited = @ + 1]
               /\ Fits(TagScan(OrderedTag(tx.visited))) = {}
            \/ \E j \in Fits(tx.pool) : /\ OrderedTag(tx.visited) \in FloorsOf[j]
                                        /\ Takes(j, tx.visited + 1)
<1>1. stage \in Leasing /\ tx.visited < FloorCount /\ ~Filled /\ OnlyTx
  BY DEF VisitFloor, OnlyTx
<1> DEFINE rows == Fits(TagScan(OrderedTag(tx.visited)))
<1>2. \/ rows = {} /\ tx' = [tx EXCEPT !.visited = @ + 1]
      \/ \E j \in rows :
           tx' = [tx EXCEPT !.visited = @ + 1, !.selected = @ \cup {j}, !.remaining = @ - Cost[j]]
  BY DEF VisitFloor
<1>3. \A j \in rows : j \in Fits(tx.pool) /\ OrderedTag(tx.visited) \in FloorsOf[j]
  BY DEF Fits, TagScan
<1> HIDE DEF rows
<1>4. CASE \E j \in rows :
             tx' = [tx EXCEPT !.visited = @ + 1, !.selected = @ \cup {j}, !.remaining = @ - Cost[j]]
  BY <1>1, <1>3, <1>4 DEF Takes
<1>5. CASE rows = {} /\ tx' = [tx EXCEPT !.visited = @ + 1]
  BY <1>1, <1>5 DEF rows
<1>6. QED
  BY <1>2, <1>4, <1>5

\* The best row that fits is a row that fits.
LEMMA TakeBestIs ==
  ASSUME RotationTypeOK, TakeBest
  PROVE  /\ stage \in Leasing /\ tx.visited = FloorCount /\ ~Filled /\ OnlyTx
         /\ \E j \in Fits(tx.pool) : Takes(j, tx.visited)
<1>1. stage \in Leasing /\ tx.visited = FloorCount /\ ~Filled /\ OnlyTx
  BY DEF TakeBest, OnlyTx
<1>2. PICK j \in Fits(PriorityScan) :
         tx' = [tx EXCEPT !.selected = @ \cup {j}, !.remaining = @ - Cost[j]]
  BY DEF TakeBest
<1>3. j \in Fits(tx.pool)
  BY <1>2 DEF Fits, PriorityScan
<1>4. tx' = [tx EXCEPT !.visited = tx.visited, !.selected = @ \cup {j},
                       !.remaining = @ - Cost[j]]
  BY <1>2 DEF RotationTypeOK, OpenTx
<1>5. QED
  BY <1>1, <1>3, <1>4 DEF Takes

\* With room for all floors a share remains, and a wanted job whose floor is visited in the
\* second lease is in hand or fits.
LEMMA WantedFits ==
  ASSUME RotationConstants, RotationTypeOK, Envelope, Wanted, FloorsMet,
         NEW share \in 1..Budget, HasRoom(share, wanted \cup InHand),
         stage = "lease2", tx.visited < FloorCount, NEW i \in wanted
  PROVE  /\ tx.remaining >= share /\ tx.pool = due
         /\ i \in InHand \/ i \in Fits(tx.pool)
<1>1. i \in due \cup took /\ wanted \subseteq Jobs
  BY DEF Wanted, RotationTypeOK
<1>2. /\ tx.pool = due /\ Cardinality(took) <= 1 /\ IsFiniteSet(InHand)
      /\ tx.remaining = Budget - CostOf(InHand)
  BY DEF Envelope, Leasing
<1>3. Cardinality(tx.selected) <= tx.visited
  BY DEF FloorsMet
<1>4. tx.visited \in Nat /\ FloorCount \in Nat /\ Budget \in Nat /\ share \in Nat
  BY DEF RotationTypeOK, OpenTx, RotationConstants
<1>5. Cardinality(InHand) <= FloorCount /\ InHand \subseteq Jobs
  BY <1>2, <1>3, <1>4, InHandCount
<1>6. CostOf(InHand) \in Nat /\ CostOf(InHand) + share <= Budget
  <2> DEFINE W == wanted \cup InHand
  <2>1. W \in SUBSET Jobs /\ HasRoom(share, W) /\ InHand \in SUBSET W
    BY <1>1, <1>5
  <2> HIDE DEF W
  <2>2. QED
    BY <1>2, <1>5, <2>1, RoomLeft
<1>7. Cost[i] <= share /\ Cost[i] \in Nat
  BY <1>1 DEF HasRoom, RotationConstants
<1>8. tx.remaining >= share /\ Cost[i] <= tx.remaining
  BY <1>2, <1>4, <1>6, <1>7
<1>9. QED
  BY <1>1, <1>2, <1>8 DEF InHand, Fits

\* A floor whose scan suffices and that has wanted work has a job in hand or reads one
\* that fits: only rows dearer than a share come before it.
LEMMA FloorReached ==
  ASSUME RotationConstants, RotationTypeOK, Envelope, Wanted, FloorsMet,
         NEW share \in 1..Budget, HasRoom(share, wanted \cup InHand),
         stage = "lease2", tx.visited < FloorCount,
         NEW f, HasFloor(f, wanted), ScanSuffices(share, f)
  PROVE  HasFloor(f, InHand) \/ HasFloor(f, Fits(TagScan(f)))
<1> SUFFICES ASSUME ~HasFloor(f, InHand) PROVE HasFloor(f, Fits(TagScan(f)))
  OBVIOUS
<1> DEFINE rows == {j \in tx.pool : f \in FloorsOf[j]}
           dear == {j \in due : f \in FloorsOf[j] /\ Cost[j] > share}
<1>1. PICK i \in wanted : f \in FloorsOf[i]
  BY DEF HasFloor
<1>2. tx.remaining >= share /\ tx.pool = due /\ i \in Fits(tx.pool)
  BY <1>1, WantedFits DEF HasFloor
<1>3. Fits(rows) # {}
  BY <1>1, <1>2 DEF Fits
<1>4. IsFiniteSet(dear) /\ Cardinality(dear) \in Nat /\ Cardinality(dear) < ScanLimit
  <2>1. dear \in SUBSET due /\ IsFiniteSet(due)
    BY DEF Envelope
  <2>2. IsFiniteSet(dear)
    BY <2>1, FS_Subset
  <2>3. QED
    BY <2>2, FS_CardinalityType DEF ScanSuffices
<1>5. rows \ Fits(rows) \in SUBSET dear
  <2>1. ASSUME NEW j \in rows \ Fits(rows) PROVE j \in dear
    <3>1. j \in due /\ j \in Jobs /\ f \in FloorsOf[j] /\ Cost[j] \in Nat
      BY <1>2 DEF RotationTypeOK, RotationConstants
    <3>2. j \notin tx.selected
      BY <3>1 DEF HasFloor, InHand
    <3>3. ~(Cost[j] <= tx.remaining)
      BY <2>1, <3>2 DEF Fits
    <3>4. tx.remaining \in Nat /\ share \in Nat
      BY DEF RotationTypeOK, OpenTx, RotationConstants
    <3>5. Cost[j] > share
      BY <1>2, <3>1, <3>3, <3>4
    <3>6. QED
      BY <3>1, <3>5
  <2>2. QED
    BY <2>1
<1>6. Cardinality(rows \ Fits(rows)) < ScanLimit
  <2> DEFINE skipped == rows \ Fits(rows)
  <2>1. skipped \in SUBSET dear
    BY <1>5
  <2> HIDE DEF skipped, dear, rows
  <2>2. Cardinality(skipped) <= Cardinality(dear) /\ IsFiniteSet(skipped)
    BY <1>4, <2>1, FS_Subset
  <2>3. Cardinality(skipped) \in Nat /\ ScanLimit \in Nat
    BY <2>2, FS_CardinalityType DEF RotationConstants
  <2>4. Cardinality(skipped) < ScanLimit
    BY <1>4, <2>2, <2>3
  <2>5. QED
    BY <2>4 DEF skipped
<1>7. PICK r : r = rows
  OBVIOUS
<1>8. QED
  BY <1>3, <1>6, <1>7, TagScanReaches

\* Visiting a floor keeps the floors met.
LEMMA FloorsMetVisit ==
  ASSUME RotationConstants, RotationTypeOK, Envelope, Wanted, FloorsMet,
         VisitFloor, tx' \in OpenTx,
         tx'.visited = tx.visited + 1, InHand \subseteq InHand',
         Cardinality(tx'.selected) \in Nat,
         Cardinality(tx'.selected) <= Cardinality(tx.selected) + 1,
         HasFloor(OrderedTag(tx.visited), Fits(TagScan(OrderedTag(tx.visited)))) =>
            HasFloor(OrderedTag(tx.visited), InHand')
  PROVE  FloorsMet'
<1>1. OnlyTx /\ tx.visited < FloorCount /\ tx.visited \in Nat /\ FloorCount \in Nat
  BY VisitFloorIs DEF RotationTypeOK, OpenTx, RotationConstants
<1>2. SUFFICES ASSUME stage = "lease2"
               PROVE  /\ tx'.visited < FloorCount => Cardinality(tx'.selected) <= tx'.visited
                      /\ \A share \in 1..Budget : HasRoom(share, wanted \cup InHand') =>
                           \A v \in 0..(tx'.visited - 1) :
                             HasFloor(OrderedTag(v), wanted)
                                /\ ScanSuffices(share, OrderedTag(v)) =>
                               HasFloor(OrderedTag(v), InHand')
  <2>1. \A v : OrderedTag(v)' = OrderedTag(v)
    BY <1>1 DEF OrderedTag, OnlyTx
  <2>2. wanted' = wanted /\ stage' = stage /\ due' = due
    BY <1>1 DEF OnlyTx
  <2>3. QED
    BY <2>1, <2>2 DEF FloorsMet, HasFloor, HasRoom, ScanSuffices
<1>3. Cardinality(tx.selected) <= tx.visited /\ Cardinality(tx.selected) \in Nat
  BY <1>1, <1>2, InHandCount DEF FloorsMet
<1>4. tx'.visited < FloorCount => Cardinality(tx'.selected) <= tx'.visited
  BY <1>1, <1>3
<1>5. ASSUME NEW share \in 1..Budget, HasRoom(share, wanted \cup InHand'),
             NEW v \in 0..(tx'.visited - 1), HasFloor(OrderedTag(v), wanted),
             ScanSuffices(share, OrderedTag(v))
      PROVE  HasFloor(OrderedTag(v), InHand')
  <2>0. HasRoom(share, wanted \cup InHand)
    BY <1>5 DEF HasRoom
  <2>1. CASE v \in 0..(tx.visited - 1)
    BY <1>2, <1>5, <2>0, <2>1 DEF FloorsMet, HasFloor
  <2>2. CASE v = tx.visited
    <3>1. \/ HasFloor(OrderedTag(v), InHand)
          \/ HasFloor(OrderedTag(v), Fits(TagScan(OrderedTag(v))))
      BY <1>1, <1>2, <1>5, <2>0, FloorReached
    <3>2. QED
      BY <2>2, <3>1 DEF HasFloor
  <2>3. QED
    BY <1>1, <1>5, <2>1, <2>2
<1>6. QED
  BY <1>4, <1>5

LEMMA RotationVisits ==
  ASSUME RotationConstants, RotationInv, VisitFloor PROVE RotationInv'
<1>1. RotationTypeOK /\ Envelope /\ Wanted /\ TurnKept /\ FloorsMet
  BY DEF RotationInv
<1>2. stage \in Leasing /\ ~Filled /\ OnlyTx
      /\ tx.visited < FloorCount /\ tx.visited \in Nat /\ FloorCount \in Nat /\ tx \in OpenTx
      /\ tx.visited + 1 \in 0..FloorCount
  BY <1>1, VisitFloorIs DEF RotationTypeOK, OpenTx, RotationConstants
<1>3. Wanted' /\ TurnKept'
  BY <1>1, <1>2, OnlyTxKeeps
<1>4. Cardinality(tx.selected) \in Nat
  BY <1>1, InHandCount
<1>5. CASE /\ tx' = [tx EXCEPT !.visited = @ + 1]
           /\ Fits(TagScan(OrderedTag(tx.visited))) = {}
  <2>1. /\ tx' \in OpenTx /\ tx'.visited = tx.visited + 1 /\ tx'.selected = tx.selected
        /\ tx'.pool = tx.pool /\ tx'.limit = tx.limit /\ tx'.remaining = tx.remaining
    BY <1>2, <1>5 DEF OpenTx
  <2>2. RotationTypeOK'
    BY <1>1, <1>2, <2>1 DEF RotationTypeOK, OnlyTx, Kind, Floor, Leasing
  <2>3. InHand' = InHand
    BY <1>2, <2>1 DEF InHand, OnlyTx
  <2>4. Envelope'
    BY <1>1, <1>2, <2>1, <2>3 DEF Envelope, OnlyTx, TooDear
  <2>5. FloorsMet'
    <3>1. ~HasFloor(OrderedTag(tx.visited), Fits(TagScan(OrderedTag(tx.visited))))
      BY <1>5 DEF HasFloor
    <3>2. Cardinality(tx'.selected) <= Cardinality(tx.selected) + 1
      BY <1>4, <2>1
    <3>3. QED
      BY <1>1, <1>4, <2>1, <2>3, <3>1, <3>2, FloorsMetVisit
  <2>6. QED
    BY <1>3, <2>2, <2>4, <2>5 DEF RotationInv
<1>6. CASE \E j \in Fits(tx.pool) : /\ OrderedTag(tx.visited) \in FloorsOf[j]
                                    /\ Takes(j, tx.visited + 1)
  <2>1. PICK j \in Fits(tx.pool) : OrderedTag(tx.visited) \in FloorsOf[j]
                                   /\ Takes(j, tx.visited + 1)
    BY <1>6
  <2>2. /\ RotationTypeOK' /\ Envelope' /\ InHand' = InHand \cup {j}
        /\ tx'.visited = tx.visited + 1
        /\ Cardinality(tx'.selected) = Cardinality(tx.selected) + 1
    BY <1>1, <1>2, <2>1, Selecting
  <2>3. FloorsMet'
    <3>1. HasFloor(OrderedTag(tx.visited), InHand')
      BY <2>1, <2>2 DEF HasFloor
    <3>2. tx' \in OpenTx /\ InHand \subseteq InHand'
      BY <2>2 DEF RotationTypeOK
    <3>3. QED
      BY <1>1, <1>4, <2>2, <3>1, <3>2, FloorsMetVisit
  <2>4. QED
    BY <1>3, <2>2, <2>3 DEF RotationInv
<1>7. QED
  BY <1>5, <1>6, VisitFloorIs

LEMMA RotationTakes ==
  ASSUME RotationConstants, RotationInv, TakeBest PROVE RotationInv'
<1>1. RotationTypeOK /\ Envelope /\ Wanted /\ TurnKept /\ FloorsMet
  BY DEF RotationInv
<1>2. /\ stage \in Leasing /\ tx.visited = FloorCount /\ ~Filled /\ OnlyTx
      /\ FloorCount \in Nat /\ FloorCount \in 0..FloorCount
  BY <1>1, TakeBestIs DEF RotationConstants
<1>3. PICK j \in Fits(tx.pool) : Takes(j, tx.visited)
  BY <1>1, TakeBestIs
<1>4. /\ RotationTypeOK' /\ Envelope' /\ InHand' = InHand \cup {j}
      /\ tx'.visited = FloorCount
  BY <1>1, <1>2, <1>3, Selecting
<1>5. Wanted' /\ TurnKept'
  BY <1>1, <1>2, OnlyTxKeeps
<1>6. FloorsMet'
  <2>1. \A v : OrderedTag(v)' = OrderedTag(v)
    BY <1>2 DEF OrderedTag, OnlyTx
  <2>2. wanted' = wanted /\ stage' = stage
    BY <1>2 DEF OnlyTx
  <2>3. \A i : HasFloor(i, InHand) => HasFloor(i, InHand')
    BY <1>4 DEF HasFloor
  <2>4. ~(tx'.visited < FloorCount)
    BY <1>2, <1>4
  <2>5. QED
    <3>1. \A share : /\ HasRoom(share, wanted \cup InHand') => HasRoom(share, wanted \cup InHand)
                     /\ \A i : ScanSuffices(share, i)' <=> ScanSuffices(share, i)
      BY <1>2, <1>4 DEF HasRoom, ScanSuffices, OnlyTx
    <3>2. \A share : HasRoom(share, wanted \cup InHand)' <=> HasRoom(share, wanted' \cup InHand')
      BY DEF HasRoom
    <3>3. QED
      BY <1>1, <1>2, <1>4, <2>1, <2>2, <2>3, <2>4, <3>1, <3>2 DEF FloorsMet, HasFloor
<1>7. QED
  BY <1>4, <1>5, <1>6 DEF RotationInv

\* Steps outside an open transaction change nothing of what is in hand.
LEMMA SameInHand == ASSUME UNCHANGED <<took, tx>> PROVE InHand' = InHand
  BY DEF InHand

LEMMA RotationBegins ==
  ASSUME RotationConstants, RotationInv, Begin PROVE RotationInv'
<1>1. RotationTypeOK /\ Envelope /\ TurnKept /\ FloorsMet
  BY DEF RotationInv
<1>2. /\ stage = "idle" /\ took = {} /\ wanted' = {j \in due : Cost[j] <= Budget}
      /\ buried' = FALSE
      /\ UNCHANGED <<due, cursor, last, tx, took, kindWait, aborts>>
  BY DEF Begin
<1>3. InHand' = InHand
  BY <1>2, SameInHand
<1>4. Cardinality(took) = 0
  BY <1>2, FS_EmptySet
<1>5. \A k \in Kind : HasKind(k, wanted') <=> k \in due_kinds
  BY <1>2 DEF HasKind, due_kinds
<1>6. last \in 0..KindCount
  BY <1>1 DEF RotationTypeOK
<1>7. CASE due_kinds = {}
  <2>1. stage' = "rest" /\ chosen' = chosen
    BY <1>7 DEF Begin
  <2>2. RotationTypeOK'
    BY <1>1, <1>2, <2>1 DEF RotationTypeOK
  <2>3. Envelope'
    BY <1>1, <1>2, <1>3, <1>4, <2>1 DEF Envelope, Leasing
  <2>4. Wanted' /\ TurnKept' /\ FloorsMet'
    BY <1>1, <1>2, <1>5, <1>7, <2>1 DEF Wanted, TurnKept, FloorsMet, LeftBehind
  <2>5. QED
    BY <2>2, <2>3, <2>4 DEF RotationInv
<1>8. CASE due_kinds # {}
  <2>1. stage' = "first" /\ chosen' = NextKind
    BY <1>8 DEF Begin
  <2>2. /\ chosen' \in Kind
        /\ \A k \in due_kinds : k = chosen' \/ Turns(last, chosen') < Turns(last, k)
    BY <1>6, <1>8, <2>1, NextKindIsNext
  <2>3. RotationTypeOK'
    <3>1. chosen' \in 0..KindCount
      BY <2>2 DEF Kind, RotationConstants
    <3>2. wanted' \subseteq Jobs /\ buried' \in BOOLEAN
      BY <1>1, <1>2 DEF RotationTypeOK
    <3>3. QED
      BY <1>1, <1>2, <2>1, <3>1, <3>2 DEF RotationTypeOK
  <2>4. Envelope'
    BY <1>1, <1>2, <1>3, <1>4, <2>1, <2>2 DEF Envelope, Leasing
  <2>5. TurnKept'
    <3>1. \A l, k : Turns(l, k)' = Turns(l, k)
      BY DEF Turns
    <3>2. QED
      BY <1>1, <1>2, <1>5, <2>1, <2>2, <3>1 DEF TurnKept
  <2>6. Wanted' /\ FloorsMet'
    BY <1>1, <1>2, <2>1 DEF Wanted, FloorsMet
  <2>7. QED
    BY <2>3, <2>4, <2>5, <2>6 DEF RotationInv
<1>9. QED
  BY <1>7, <1>8

\* A lease is opened with nothing selected; what is in hand is what was leased before.
LEMMA Opening ==
  ASSUME RotationConstants, RotationTypeOK, Envelope, stage \notin Leasing,
         NEW eligible \in SUBSET due, NEW limit \in Nat, NEW budget \in Nat,
         OpenLease(eligible, limit, budget), took' = took
  PROVE  /\ tx' \in OpenTx /\ InHand' = InHand /\ InHand = took
         /\ tx'.pool = eligible /\ tx'.limit = limit /\ tx'.remaining = budget
         /\ tx'.visited = 0 /\ tx'.selected = {} /\ Cardinality(tx'.selected) = 0
<1>1. /\ tx'.pool = eligible /\ tx'.limit = limit /\ tx'.remaining = budget
      /\ tx'.visited = 0 /\ tx'.selected = {}
  BY DEF OpenLease
<1>2. tx.selected = {}
  BY DEF Envelope, NoTx
<1>3. 0 \in 0..FloorCount /\ eligible \in SUBSET Jobs /\ {} \in SUBSET Jobs
  BY DEF RotationConstants, RotationTypeOK
<1>4. tx' \in OpenTx
  BY <1>3 DEF OpenLease, OpenTx
<1>5. QED
  BY <1>1, <1>2, <1>4, FS_EmptySet DEF InHand

LEMMA RotationOpensFirst ==
  ASSUME RotationConstants, RotationInv, OpenFirst PROVE RotationInv'
<1>1. RotationTypeOK /\ Envelope /\ Wanted /\ TurnKept /\ FloorsMet
  BY DEF RotationInv
<1> DEFINE eligible == {j \in due : KindOf[j] = chosen}
<1>2. /\ stage = "first" /\ stage' = "lease1" /\ OpenLease(eligible, 1, Budget)
      /\ buried' = (Cardinality(TooDear(eligible)) >= ScanLimit)
      /\ UNCHANGED <<due, cursor, last, chosen, took, wanted, kindWait, aborts>>
  BY DEF OpenFirst
<1>3. eligible \in SUBSET due /\ 1 \in Nat /\ Budget \in Nat /\ stage \notin Leasing
  BY <1>2 DEF RotationConstants, Leasing
<1>4. took' = took
  BY <1>2
<1>5. /\ tx' \in OpenTx /\ InHand' = InHand /\ InHand = took
      /\ tx'.pool = eligible /\ tx'.limit = 1 /\ tx'.remaining = Budget
      /\ tx'.visited = 0 /\ tx'.selected = {} /\ Cardinality(tx'.selected) = 0
  <2> HIDE DEF eligible
  <2>1. QED
    BY <1>1, <1>2, <1>3, <1>4, Opening
<1>6. took = {} /\ chosen \in Kind
  BY <1>1, <1>2 DEF Envelope
<1>7. CostOf(InHand') = 0
  BY <1>5, <1>6, CostOfNone
<1>8. RotationTypeOK'
  <2>1. buried' \in BOOLEAN
    BY <1>2
  <2> HIDE DEF eligible
  <2>2. QED
    BY <1>1, <1>2, <1>5, <2>1 DEF RotationTypeOK, Leasing
<1>9. Envelope'
  <2>1. tx'.remaining = Budget - CostOf(InHand') /\ Cardinality(tx'.selected) <= tx'.limit
    BY <1>3, <1>5, <1>7
  <2>2. /\ tx'.pool = {j \in due' : KindOf[j] = chosen'}
        /\ buried' = (Cardinality(TooDear(tx'.pool)) >= ScanLimit)
    BY <1>2, <1>5
  <2>3. tx'.selected \subseteq tx'.pool /\ tx'.pool \subseteq due'
    BY <1>2, <1>5
  <2> HIDE DEF eligible
  <2>4. QED
    BY <1>1, <1>2, <1>5, <1>6, <2>1, <2>2, <2>3 DEF Envelope, Leasing, TooDear
<1>10. Wanted' /\ TurnKept' /\ FloorsMet'
  BY <1>1, <1>2 DEF Wanted, TurnKept, FloorsMet, HasKind, Turns
<1>11. QED
  BY <1>8, <1>9, <1>10 DEF RotationInv

LEMMA RotationOpensRest ==
  ASSUME RotationConstants, RotationInv, OpenRest PROVE RotationInv'
<1>1. RotationTypeOK /\ Envelope /\ Wanted /\ TurnKept /\ FloorsMet
  BY DEF RotationInv
<1>2. /\ stage = "rest" /\ stage' = "lease2" /\ RestDue
      /\ OpenLease(due, PassLimit - Cardinality(took), Remaining)
      /\ UNCHANGED <<due, cursor, last, chosen, took, wanted, buried, kindWait, aborts>>
  BY DEF OpenRest, RestJobs
<1>3. stage \notin Leasing /\ tx = NoTx /\ InHand = took
  BY <1>1, <1>2 DEF Leasing, Envelope, NoTx, InHand
<1>4. Cardinality(took) \in Nat /\ CostOf(took) \in Nat
  BY <1>1, <1>3, InHandCount, InHandCost
<1>5. PassLimit - Cardinality(took) \in Nat /\ Remaining \in Nat
  BY <1>2, <1>4 DEF RestDue, Remaining, RotationConstants
<1>6. took' = took /\ due \in SUBSET due
  BY <1>2
<1>7. /\ tx' \in OpenTx /\ InHand' = InHand
      /\ tx'.pool = due /\ tx'.limit = PassLimit - Cardinality(took)
      /\ tx'.remaining = Remaining
      /\ tx'.visited = 0 /\ tx'.selected = {} /\ Cardinality(tx'.selected) = 0
  BY <1>1, <1>2, <1>3, <1>5, <1>6, Opening
<1>8. RotationTypeOK'
  BY <1>1, <1>2, <1>7 DEF RotationTypeOK, Leasing
<1>9. Envelope'
  <2>1. tx'.remaining = Budget - CostOf(InHand') /\ Cardinality(tx'.selected) <= tx'.limit
    BY <1>3, <1>5, <1>7 DEF Remaining
  <2>2. tx'.limit = PassLimit - Cardinality(took')
    BY <1>6, <1>7
  <2>3. QED
    BY <1>1, <1>2, <1>7, <2>1, <2>2 DEF Envelope, Leasing
<1>10. Wanted' /\ TurnKept'
  BY <1>1, <1>2 DEF Wanted, TurnKept, HasKind, LeftBehind, Turns
<1>11. FloorsMet'
  <2>1. 0..(tx'.visited - 1) = {} /\ Cardinality(tx'.selected) <= tx'.visited
    BY <1>7
  <2>2. QED
    BY <1>1, <1>2, <2>1 DEF FloorsMet
<1>12. QED
  BY <1>8, <1>9, <1>10, <1>11 DEF RotationInv

\* Fewer jobs remain finitely many.
LEMMA FewerDue ==
  ASSUME IsFiniteSet(due) PROVE IsFiniteSet(due \ tx.selected)
  BY FS_Difference

\* The rows of a lease are leased and its cursor written.
LEMMA Committing ==
  ASSUME RotationConstants, RotationTypeOK, Envelope, CommitLease
  PROVE  /\ took' = InHand /\ due' = due \ tx.selected /\ InHand' = InHand
         /\ tx' = NoTx /\ tx' \in OpenTx /\ cursor' \in 0..(FloorCount - 1)
         /\ took' \subseteq Jobs /\ due' \subseteq Jobs /\ took' \cap due' = {}
         /\ due' \cup took' = due \cup took
<1>1. took' = InHand /\ due' = due \ tx.selected /\ tx' = NoTx
  BY DEF CommitLease, InHand
<1>2. tx' \in OpenTx /\ InHand' = InHand
  BY <1>1 DEF NoTx, OpenTx, InHand, RotationConstants
<1>3. cursor' \in 0..(FloorCount - 1)
  <2>1. PICK n \in Nat : cursor' = n % FloorCount
    BY DEF CommitLease, RotationTypeOK, OpenTx, RotationConstants
  <2>2. QED
    BY <2>1 DEF RotationConstants
<1>4. InHand \subseteq Jobs /\ took \cap due = {} /\ tx.selected \subseteq due
  BY InHandCount DEF Envelope
<1>5. QED
  BY <1>1, <1>2, <1>3, <1>4 DEF RotationTypeOK, InHand

\* The first lease finds a job of the chosen kind if one is wanted and the rows that no
\* pass can afford leave room in its scan.
LEMMA FirstFinds ==
  ASSUME RotationConstants, RotationTypeOK, Envelope, Wanted, stage = "lease1",
         CommitLease, HasKind(chosen, wanted), ~buried
  PROVE  HasKind(chosen, InHand)
<1>1. PICK i \in wanted : KindOf[i] = chosen
  BY DEF HasKind
<1>2. /\ took = {} /\ tx.limit = 1 /\ tx.pool = {j \in due : KindOf[j] = chosen}
      /\ tx.selected \subseteq tx.pool /\ tx.remaining = Budget - CostOf(InHand)
      /\ ~(Cardinality(TooDear(tx.pool)) >= ScanLimit) /\ IsFiniteSet(due)
  BY DEF Envelope, Leasing
<1>3. i \in tx.pool /\ Cost[i] <= Budget
  BY <1>1, <1>2 DEF Wanted
<1>4. CASE tx.selected = {}
  <2>1. tx.remaining = Budget
    BY <1>2, <1>4, CostOfNone DEF InHand, RotationConstants
  <2>2. i \in Fits(tx.pool)
    BY <1>3, <1>4, <2>1 DEF Fits
  <2>3. ~Filled
    BY <1>2, <1>4, FS_EmptySet DEF Filled
  <2>4. tx.pool \subseteq Jobs /\ Budget \in Nat /\ \A j \in Jobs : Cost[j] \in Nat
    BY <1>2 DEF RotationTypeOK, RotationConstants
  <2>5. tx.pool \ Fits(tx.pool) = TooDear(tx.pool)
    BY <1>4, <2>1, <2>4 DEF Fits, TooDear
  <2>6. Cardinality(TooDear(tx.pool)) \in Nat /\ ScanLimit \in Nat
    <3>1. TooDear(tx.pool) \in SUBSET due
      BY <1>2 DEF TooDear
    <3>2. IsFiniteSet(TooDear(tx.pool))
      BY <1>2, <3>1, FS_Subset
    <3>3. QED
      BY <3>2, FS_CardinalityType DEF RotationConstants
  <2>7. Cardinality(tx.pool \ Fits(tx.pool)) < ScanLimit
    <3>1. PICK n \in Nat : n = Cardinality(TooDear(tx.pool))
      BY <2>6
    <3>2. ~(n >= ScanLimit)
      BY <1>2, <3>1
    <3>3. n < ScanLimit
      BY <2>6, <3>2
    <3>4. QED
      BY <2>5, <3>1, <3>3
  <2>8. Fits(PriorityScan) # {}
    BY <2>2, <2>7, PriorityScanReaches
  <2>9. QED
    BY <2>3, <2>8 DEF CommitLease
<1>5. CASE tx.selected # {}
  BY <1>2, <1>5 DEF HasKind, InHand
<1>6. QED
  BY <1>4, <1>5

LEMMA RotationCommitsFirst ==
  ASSUME RotationConstants, RotationInv, CommitFirst PROVE RotationInv'
<1>1. RotationTypeOK /\ Envelope /\ Wanted /\ TurnKept /\ FloorsMet
  BY DEF RotationInv
<1>2. /\ stage = "lease1" /\ stage' = "checkpoint" /\ CommitLease
      /\ UNCHANGED <<last, chosen, wanted, buried, kindWait, aborts>>
  BY DEF CommitFirst
<1>3. /\ took' = InHand /\ due' = due \ tx.selected /\ InHand' = InHand
      /\ tx' = NoTx /\ tx' \in OpenTx /\ cursor' \in 0..(FloorCount - 1)
      /\ took' \subseteq Jobs /\ due' \subseteq Jobs /\ took' \cap due' = {}
      /\ due' \cup took' = due \cup took
  BY <1>1, <1>2, Committing
<1>4. RotationTypeOK'
  BY <1>1, <1>2, <1>3 DEF RotationTypeOK
<1>5. Cardinality(took') <= 1 /\ chosen \in Kind
  <2>1. took = {} /\ tx.limit = 1 /\ chosen \in Kind /\ Cardinality(tx.selected) <= tx.limit
    BY <1>1, <1>2 DEF Envelope, Leasing
  <2>2. Cardinality(took) = 0
    BY <2>1, FS_EmptySet
  <2>3. QED
    BY <1>1, <1>3, <2>1, <2>2, InHandCount
<1>6. Envelope'
  BY <1>1, <1>2, <1>3, <1>5, FewerDue DEF Envelope, Leasing, NoTx
<1>7. Wanted'
  BY <1>1, <1>2, <1>3 DEF Wanted
<1>8. ~buried /\ HasKind(chosen, wanted) => HasKind(chosen, took')
  BY <1>1, <1>2, <1>3, FirstFinds
<1>9. TurnKept'
  <2>1. \A l, k : Turns(l, k)' = Turns(l, k)
    BY DEF Turns
  <2>2. QED
    BY <1>1, <1>2, <1>8, <2>1 DEF TurnKept, HasKind, LeftBehind
<1>10. FloorsMet'
  BY <1>1, <1>2 DEF FloorsMet
<1>11. QED
  BY <1>4, <1>6, <1>7, <1>9, <1>10 DEF RotationInv

\* The turn passes to the chosen kind: it has its job, and the others are nearer.
LEMMA RotationCheckpoints ==
  ASSUME RotationConstants, RotationInv, Checkpoint PROVE RotationInv'
<1>1. RotationTypeOK /\ Envelope /\ Wanted /\ TurnKept /\ FloorsMet
  BY DEF RotationInv
<1>2. /\ stage = "checkpoint" /\ last' = chosen /\ stage' = "rest"
      /\ UNCHANGED <<due, cursor, chosen, tx, took, wanted, buried, kindWait, aborts>>
  BY DEF Checkpoint
<1>3. InHand' = InHand
  BY <1>2, SameInHand
<1>4. RotationTypeOK'
  BY <1>1, <1>2 DEF RotationTypeOK
<1>5. Envelope'
  BY <1>1, <1>2, <1>3 DEF Envelope, Leasing
<1>6. Wanted' /\ FloorsMet'
  BY <1>1, <1>2 DEF Wanted, FloorsMet
<1>7. ASSUME NEW k \in Kind, LeftBehind(k, took)
      PROVE  kindWait[k] + 1 + Turns(chosen, k) <= KindCount
  <2>1. k # chosen /\ chosen \in Kind /\ last \in 0..KindCount /\ kindWait[k] \in Nat
    BY <1>1, <1>2, <1>7 DEF TurnKept, Envelope, RotationTypeOK, LeftBehind
  <2>2. /\ kindWait[k] + Turns(last, k) <= KindCount
        /\ Turns(last, chosen) < Turns(last, k)
    BY <1>1, <1>2, <1>7, <2>1 DEF TurnKept, LeftBehind
  <2>3. Turns(last, chosen) \in Nat \ {0} /\ Turns(last, k) \in Nat
    BY <2>1, TurnsAre
  <2>4. Turns(chosen, k) = Turns(last, k) - Turns(last, chosen)
    BY <2>1, <2>2, TurnsAre
  <2>5. KindCount \in Nat
    BY DEF RotationConstants
  <2>6. QED
    BY <2>1, <2>2, <2>3, <2>4, <2>5
<1>8. TurnKept'
  <2>1. \A l, k : Turns(l, k)' = Turns(l, k)
    BY DEF Turns
  <2>2. \A k : LeftBehind(k, took)' = LeftBehind(k, took)
    BY <1>2 DEF LeftBehind, HasKind
  <2>3. \A k : Turns(last, k)' = Turns(chosen, k)
    BY <1>2 DEF Turns
  <2>4. QED
    BY <1>2, <1>7, <2>2, <2>3 DEF TurnKept
<1>9. QED
  BY <1>4, <1>5, <1>6, <1>8 DEF RotationInv

\* The end of a pass counts those left behind: each of them still has its turn in time.
LEMMA PassEnding ==
  ASSUME RotationConstants, RotationTypeOK, TurnKept, stage \in {"rest", "lease2"},
         PassEnds, took \subseteq took'
  PROVE  kindWait' \in [Kind -> Nat] /\ TurnKept' /\ Wanted' /\ FloorsMet'
<1>1. /\ stage' = "idle" /\ last' = last
      /\ kindWait' = [k \in Kind |->
           IF LeftBehind(k, took') THEN kindWait[k] + 1 ELSE 0]
  BY DEF PassEnds
<1>2. ASSUME NEW k \in Kind
      PROVE  kindWait'[k] \in Nat /\ kindWait'[k] + Turns(last, k) <= KindCount
  <2>1. last \in 0..KindCount /\ kindWait[k] \in Nat /\ KindCount \in Nat
    BY DEF RotationTypeOK, RotationConstants
  <2>2. Turns(last, k) \in Nat /\ Turns(last, k) <= KindCount
    BY <2>1, TurnsAre
  <2>3. CASE LeftBehind(k, took')
    <3>1. LeftBehind(k, took)
      BY <2>3 DEF LeftBehind, HasKind
    <3>2. kindWait[k] + 1 + Turns(last, k) <= KindCount
      BY <2>3, <3>1 DEF TurnKept
    <3>3. kindWait'[k] = kindWait[k] + 1
      BY <1>1, <2>3
    <3>4. QED
      BY <2>1, <2>2, <3>2, <3>3
  <2>4. CASE ~LeftBehind(k, took')
    <3>1. kindWait'[k] = 0
      BY <1>1, <2>4
    <3>2. QED
      BY <2>1, <2>2, <3>1
  <2>5. QED
    BY <2>3, <2>4
<1>3. kindWait' \in [Kind -> Nat]
  <2>1. kindWait' = [k \in Kind |-> kindWait'[k]]
    BY <1>1
  <2>2. QED
    BY <1>2, <2>1
<1>4. TurnKept'
  <2>1. \A k : Turns(last, k)' = Turns(last, k)
    BY <1>1 DEF Turns
  <2>2. QED
    BY <1>1, <1>2, <2>1 DEF TurnKept
<1>5. QED
  BY <1>1, <1>3, <1>4 DEF Wanted, FloorsMet

\* The second lease with room for all floors has visited every floor when it commits.
LEMMA RestServes ==
  ASSUME RotationConstants, RotationTypeOK, Envelope, Wanted, FloorsMet,
         NEW share \in 1..Budget, HasRoom(share, wanted \cup InHand),
         stage = "lease2", CommitLease
  PROVE  \A i \in Floor :
           HasFloor(i, wanted) /\ ScanSuffices(share, i) => HasFloor(i, InHand)
<1>1. /\ Cardinality(took) <= 1 /\ tx.limit = PassLimit - Cardinality(took)
      /\ Cardinality(took) \in Nat /\ Cardinality(tx.selected) \in Nat
  BY InHandCount DEF Envelope
<1>2. /\ PassLimit > FloorCount /\ PassLimit \in Nat /\ FloorCount \in Nat
      /\ tx.visited \in 0..FloorCount
  BY DEF HasRoom, RotationConstants, RotationTypeOK, OpenTx
<1>3. tx.visited = FloorCount
  <2>1. SUFFICES ASSUME tx.visited < FloorCount PROVE FALSE
    BY <1>2
  <2>2. Filled
    BY <1>2, <2>1 DEF CommitLease
  <2>3. Cardinality(tx.selected) <= tx.visited
    BY <2>1 DEF FloorsMet
  <2>4. QED
    BY <1>1, <1>2, <2>1, <2>2, <2>3 DEF Filled
<1>4. \A v \in 0..(FloorCount - 1) :
        HasFloor(OrderedTag(v), wanted) /\ ScanSuffices(share, OrderedTag(v)) =>
          HasFloor(OrderedTag(v), InHand)
  BY <1>3 DEF FloorsMet
<1>5. \A i \in Floor : \E v \in 0..(FloorCount - 1) : OrderedTag(v) = i
  BY EveryFloorOrdered DEF RotationTypeOK
<1>6. QED
  BY <1>4, <1>5

LEMMA RotationCommitsRest ==
  ASSUME RotationConstants, RotationInv, CommitRest PROVE RotationInv'
<1>1. RotationTypeOK /\ Envelope /\ Wanted /\ TurnKept /\ FloorsMet
  BY DEF RotationInv
<1>2. /\ stage = "lease2" /\ CommitLease /\ PassEnds /\ stage' = "idle"
      /\ UNCHANGED <<last, chosen, wanted, buried, aborts>>
  BY DEF CommitRest, PassEnds
<1>3. /\ took' = InHand /\ due' = due \ tx.selected /\ InHand' = InHand
      /\ tx' = NoTx /\ tx' \in OpenTx /\ cursor' \in 0..(FloorCount - 1)
      /\ took' \subseteq Jobs /\ due' \subseteq Jobs /\ took' \cap due' = {}
      /\ due' \cup took' = due \cup took
  BY <1>1, <1>2, Committing
<1>4. took \subseteq took'
  BY <1>3 DEF InHand
<1>5. kindWait' \in [Kind -> Nat] /\ TurnKept' /\ Wanted' /\ FloorsMet'
  BY <1>1, <1>2, <1>4, PassEnding
<1>6. RotationTypeOK'
  BY <1>1, <1>2, <1>3, <1>5 DEF RotationTypeOK
<1>7. Envelope'
  BY <1>1, <1>2, <1>3, FewerDue DEF Envelope, Leasing, NoTx
<1>8. QED
  BY <1>5, <1>6, <1>7 DEF RotationInv

LEMMA RotationHasNoRest ==
  ASSUME RotationConstants, RotationInv, NoRest PROVE RotationInv'
<1>1. RotationTypeOK /\ Envelope /\ Wanted /\ TurnKept /\ FloorsMet
  BY DEF RotationInv
<1>2. /\ stage = "rest" /\ ~RestDue /\ PassEnds /\ stage' = "idle"
      /\ UNCHANGED <<due, cursor, tx, took, last, chosen, wanted, buried, aborts>>
  BY DEF NoRest, PassEnds
<1>3. InHand' = InHand
  BY <1>2, SameInHand
<1>4. kindWait' \in [Kind -> Nat] /\ TurnKept' /\ Wanted' /\ FloorsMet'
  BY <1>1, <1>2, PassEnding
<1>5. RotationTypeOK'
  BY <1>1, <1>2, <1>4 DEF RotationTypeOK
<1>6. Envelope'
  BY <1>1, <1>2, <1>3 DEF Envelope, Leasing
<1>7. QED
  BY <1>4, <1>5, <1>6 DEF RotationInv

LEMMA RotationDispatches ==
  ASSUME RotationConstants, RotationInv, Dispatched PROVE RotationInv'
<1>1. RotationTypeOK /\ Envelope /\ Wanted /\ TurnKept /\ FloorsMet
  BY DEF RotationInv
<1>2. /\ stage = "idle" /\ took' = {}
      /\ UNCHANGED <<due, cursor, last, stage, chosen, tx, wanted, buried, kindWait, aborts>>
  BY DEF Dispatched
<1>3. tx = NoTx /\ InHand' = {}
  BY <1>1, <1>2 DEF Envelope, Leasing, NoTx, InHand
<1>4. RotationTypeOK'
  BY <1>1, <1>2 DEF RotationTypeOK
<1>5. Envelope'
  BY <1>1, <1>2, <1>3, FS_EmptySet, CostOfNone DEF Envelope, Leasing, RotationConstants
<1>6. Wanted' /\ TurnKept' /\ FloorsMet'
  BY <1>1, <1>2 DEF Wanted, TurnKept, FloorsMet, Turns
<1>7. QED
  BY <1>4, <1>5, <1>6 DEF RotationInv

\* A pass that ends half-way counts for those it took, and not against the others.
LEMMA RotationAborts ==
  ASSUME RotationConstants, RotationInv, Abort PROVE RotationInv'
<1>1. RotationTypeOK /\ Envelope /\ Wanted /\ TurnKept /\ FloorsMet
  BY DEF RotationInv
<1>2. /\ stage # "idle" /\ aborts < MaxAborts /\ stage' = "idle" /\ tx' = NoTx /\ took' = {}
      /\ aborts' = aborts + 1
      /\ kindWait' = [k \in Kind |->
           IF LeftBehind(k, took) THEN kindWait[k] ELSE 0]
      /\ UNCHANGED <<due, cursor, last, chosen, wanted, buried>>
  BY DEF Abort
<1>3. ASSUME NEW k \in Kind
      PROVE  kindWait'[k] \in Nat /\ kindWait'[k] + Turns(last, k) <= KindCount
  <2>1. last \in 0..KindCount /\ kindWait[k] \in Nat /\ KindCount \in Nat
    BY <1>1 DEF RotationTypeOK, RotationConstants
  <2>2. Turns(last, k) \in Nat /\ Turns(last, k) <= KindCount
    BY <2>1, TurnsAre
  <2>3. CASE LeftBehind(k, took)
    <3>1. kindWait'[k] = kindWait[k]
      BY <1>2, <2>3
    <3>2. CASE stage \in {"first", "lease1", "checkpoint"}
      BY <1>1, <2>1, <3>1, <3>2 DEF TurnKept
    <3>3. CASE stage \in {"rest", "lease2"}
      <4>1. kindWait[k] + 1 + Turns(last, k) <= KindCount
        BY <1>1, <2>3, <3>3 DEF TurnKept
      <4>2. QED
        BY <2>1, <2>2, <3>1, <4>1
    <3>4. QED
      BY <1>1, <1>2, <3>2, <3>3 DEF RotationTypeOK, Leasing
  <2>4. CASE ~LeftBehind(k, took)
    <3>1. kindWait'[k] = 0
      BY <1>2, <2>4
    <3>2. QED
      BY <2>1, <2>2, <3>1
  <2>5. QED
    BY <2>3, <2>4
<1>4. RotationTypeOK'
  <2>1. kindWait' = [k \in Kind |-> kindWait'[k]]
    BY <1>2
  <2>2. kindWait' \in [Kind -> Nat]
    BY <1>3, <2>1
  <2>3. aborts' \in 0..MaxAborts /\ NoTx \in OpenTx
    BY <1>1, <1>2 DEF RotationTypeOK, RotationConstants, NoTx, OpenTx
  <2>4. QED
    BY <1>1, <1>2, <2>2, <2>3 DEF RotationTypeOK
<1>5. InHand' = {}
  BY <1>2 DEF InHand, NoTx
<1>6. Envelope'
  BY <1>1, <1>2, <1>5, FS_EmptySet, CostOfNone DEF Envelope, Leasing, RotationConstants, NoTx
<1>7. TurnKept'
  <2>1. \A k : Turns(last, k)' = Turns(last, k)
    BY <1>2 DEF Turns
  <2>2. QED
    BY <1>2, <1>3, <2>1 DEF TurnKept
<1>8. Wanted' /\ FloorsMet'
  BY <1>1, <1>2 DEF Wanted, FloorsMet
<1>9. QED
  BY <1>4, <1>6, <1>7, <1>8 DEF RotationInv

\* The other writers of the queue run while no lease is open.
LEMMA RotationQueueMoves ==
  ASSUME RotationConstants, RotationInv, NEW j \in Jobs, Arrive(j) \/ Withdraw(j)
  PROVE  RotationInv'
<1>1. RotationTypeOK /\ Envelope /\ Wanted /\ TurnKept /\ FloorsMet
  BY DEF RotationInv
<1>2. /\ stage \notin Leasing
      /\ \/ due' = due \cup {j} /\ j \notin took /\ wanted' = wanted
         \/ due' = due \ {j} /\ j \in due /\ wanted' = wanted \ {j}
      /\ UNCHANGED <<cursor, last, stage, chosen, tx, took, buried, kindWait, aborts>>
  BY DEF Arrive, Withdraw
<1>3. InHand' = InHand /\ tx = NoTx
  BY <1>1, <1>2, SameInHand DEF Envelope
<1>4. wanted' \subseteq wanted /\ \A k, S : HasKind(k, wanted') => HasKind(k, wanted)
  BY <1>2 DEF HasKind
<1>5. RotationTypeOK'
  BY <1>1, <1>2 DEF RotationTypeOK
<1>6. Envelope'
  <2>1. IsFiniteSet(due')
    <3>1. IsFiniteSet(due) /\ IsFiniteSet(due \cup {j}) /\ IsFiniteSet(due \ {j})
      BY <1>1, FS_AddElement, FS_RemoveElement DEF Envelope
    <3>2. QED
      BY <1>2, <3>1
  <2>2. QED
    BY <1>1, <1>2, <1>3, <2>1 DEF Envelope, Leasing, NoTx
<1>7. Wanted'
  BY <1>1, <1>2 DEF Wanted
<1>8. TurnKept'
  <2>1. \A l, k : Turns(l, k)' = Turns(l, k)
    BY DEF Turns
  <2>2. QED
    BY <1>1, <1>2, <1>4, <2>1 DEF TurnKept, HasKind, LeftBehind
<1>9. FloorsMet'
  BY <1>1, <1>2 DEF FloorsMet, Leasing
<1>10. QED
  BY <1>5, <1>6, <1>7, <1>8, <1>9 DEF RotationInv

\* The invariant of the rotation: what is in hand fits the envelope, what was wanted is
\* taken or still due, the turns of the kinds and the floors met.
THEOREM RotationInvariant == SpecRotation => []RotationInv
<1>1. InitRotation => RotationInv
  <2> SUFFICES ASSUME InitRotation PROVE RotationInv
    OBVIOUS
  <2>1. /\ due = {} /\ cursor = 0 /\ last = 0 /\ stage = "idle" /\ chosen = 0
        /\ tx = NoTx /\ took = {} /\ wanted = {} /\ buried = FALSE
        /\ kindWait = [k \in Kind |-> 0] /\ aborts = 0
    BY DEF InitRotation
  <2>2. NoTx \in OpenTx /\ InHand = {}
    BY <2>1, RotationConstants DEF RotationConstants, NoTx, OpenTx, InHand
  <2>3. RotationTypeOK
    <3>1. /\ 0 \in 0..(FloorCount - 1) /\ 0 \in 0..KindCount /\ 0 \in 0..MaxAborts
          /\ [k \in Kind |-> 0] \in [Kind -> Nat]
      BY RotationConstants DEF RotationConstants
    <3>2. QED
      BY <2>1, <2>2, <3>1 DEF RotationTypeOK
  <2>4. Envelope
    BY <2>1, <2>2, RotationConstants, FS_EmptySet, CostOfNone
    DEF RotationConstants, Envelope, Leasing, NoTx
  <2>5. \A k \in Kind : kindWait[k] + Turns(last, k) <= KindCount
    <3>1. 0 \in 0..KindCount /\ KindCount \in Nat
      BY RotationConstants DEF RotationConstants
    <3>2. \A k \in Kind : Turns(last, k) \in Nat /\ Turns(last, k) <= KindCount
      BY <2>1, <3>1, RotationConstants, TurnsAre
    <3>3. \A k \in Kind : kindWait[k] = 0
      BY <2>1
    <3>4. QED
      BY <3>1, <3>2, <3>3
  <2>6. Wanted /\ TurnKept /\ FloorsMet
    BY <2>1, <2>5 DEF Wanted, TurnKept, FloorsMet
  <2>7. QED
    BY <2>3, <2>4, <2>6 DEF RotationInv
<1>2. RotationInv /\ [NextRotation]_rotationVars => RotationInv'
  <2> SUFFICES ASSUME RotationInv, [NextRotation]_rotationVars PROVE RotationInv'
    OBVIOUS
  <2>1. CASE NextRotation
    BY <2>1, RotationConstants, RotationBegins, RotationOpensFirst, RotationCommitsFirst,
       RotationCheckpoints, RotationOpensRest, RotationCommitsRest, RotationHasNoRest,
       RotationVisits, RotationTakes, RotationDispatches, RotationAborts, RotationQueueMoves,
       Zenon
    DEF NextRotation
  <2>2. CASE UNCHANGED rotationVars
    <3>1. /\ due' = due /\ cursor' = cursor /\ last' = last /\ stage' = stage
          /\ chosen' = chosen /\ tx' = tx /\ took' = took /\ wanted' = wanted
          /\ buried' = buried /\ kindWait' = kindWait /\ aborts' = aborts
      BY <2>2 DEF rotationVars
    <3>2. RotationTypeOK' /\ InHand' = InHand
      BY <3>1 DEF RotationInv, RotationTypeOK, InHand
    <3>3. Envelope'
      BY <3>1, <3>2 DEF RotationInv, Envelope, TooDear
    <3>4. Wanted' /\ TurnKept'
      BY <3>1 DEF RotationInv, Wanted, TurnKept, HasKind, LeftBehind, Turns
    <3>5. \A v, i, share : /\ OrderedTag(v)' = OrderedTag(v)
                           /\ ScanSuffices(share, i)' = ScanSuffices(share, i)
      BY <3>1 DEF OrderedTag, ScanSuffices
    <3>6. FloorsMet'
      BY <3>1, <3>2, <3>5 DEF RotationInv, FloorsMet, HasFloor, HasRoom
    <3>7. QED
      BY <3>2, <3>3, <3>4, <3>6 DEF RotationInv
  <2>3. QED
    BY <2>1, <2>2
<1>3. QED
  BY <1>1, <1>2, PTL DEF SpecRotation

\* Every variable of the rotation has its type.
THEOREM RotationTyped == SpecRotation => []RotationTypeOK
<1>1. RotationInv => RotationTypeOK
  BY DEF RotationInv
<1>2. QED
  BY <1>1, RotationInvariant, PTL

\* Between passes a kind that waits has its turn left, so it has not waited too long.
LEMMA IdleKindsRotate ==
  ASSUME RotationConstants, RotationTypeOK, TurnKept, stage = "idle" PROVE KindsRotate
<1> SUFFICES ASSUME NEW k \in Kind PROVE kindWait[k] < KindCount
  BY DEF KindsRotate
<1>1. last \in 0..KindCount /\ kindWait[k] \in Nat /\ KindCount \in Nat
  BY DEF RotationConstants, RotationTypeOK
<1>2. kindWait[k] + Turns(last, k) <= KindCount /\ Turns(last, k) \in Nat \ {0}
  BY <1>1, TurnsAre DEF TurnKept
<1>3. QED
  BY <1>1, <1>2

\* No kind with affordable work is left behind by as many whole passes in a row as there
\* are kinds, unless its own turn found a scan full of rows no pass can afford: only the
\* end of a pass counts, and then its turn still comes in time.
THEOREM KindsAlwaysRotate == SpecRotation => []KindsRotate
<1>1. InitRotation => KindsRotate
  BY RotationConstants DEF InitRotation, KindsRotate, RotationConstants
<1>2. RotationInv /\ stage = "idle" => KindsRotate
  BY RotationConstants, IdleKindsRotate DEF RotationInv
<1>3. KindsRotate /\ [NextRotation]_rotationVars => KindsRotate' \/ (stage = "idle")'
  <2> SUFFICES ASSUME KindsRotate, [NextRotation]_rotationVars
               PROVE  KindsRotate' \/ (stage = "idle")'
    OBVIOUS
  <2>1. kindWait' = kindWait \/ stage' = "idle"
    BY Zenon DEF NextRotation, rotationVars, Begin, OpenFirst, CommitFirst, Checkpoint, OpenRest,
       CommitRest, NoRest, PassEnds, VisitFloor, TakeBest, Dispatched, Abort, Arrive, Withdraw
  <2>2. QED
    BY <2>1 DEF KindsRotate
<1>4. QED
  BY <1>1, <1>2, <1>3, RotationInvariant, PTL DEF SpecRotation

\* A pass keeps within its limit and its budget, whatever its two leases take.
THEOREM PassesKeepEnvelope == SpecRotation => []PassWithinEnvelope
<1>1. RotationInv => PassWithinEnvelope
  <2> SUFFICES ASSUME RotationInv PROVE PassWithinEnvelope
    OBVIOUS
  <2>1. RotationTypeOK /\ Envelope /\ IsFiniteSet(InHand)
    BY DEF RotationInv, Envelope
  <2>2. /\ IsFiniteSet(took) /\ Cardinality(took) \in Nat /\ Cardinality(tx.selected) \in Nat
        /\ Cardinality(InHand) = Cardinality(took) + Cardinality(tx.selected)
        /\ InHand \in SUBSET Jobs /\ took \in SUBSET Jobs
    BY <2>1, InHandCount DEF RotationTypeOK
  <2>3. Cardinality(InHand) <= PassLimit /\ CostOf(InHand) <= Budget
        /\ \A j \in InHand : Cost[j] <= Budget
    BY <2>1 DEF Envelope
  <2>4. Budget \in Nat /\ PassLimit \in Nat
    BY RotationConstants DEF RotationConstants
  <2>5. Cardinality(took) <= PassLimit
    BY <2>2, <2>3, <2>4
  <2>6. IsFiniteSet(Units(InHand)) /\ CostOf(InHand) = Cardinality(Units(InHand))
        /\ CostOf(InHand) \in Nat
    BY <2>1, <2>2, <2>3, <2>4, RotationConstants, CostBound
  <2>7. Units(took) \in SUBSET Units(InHand)
    BY DEF Units, InHand
  <2>8. Cardinality(Units(took)) <= Cardinality(Units(InHand)) /\ IsFiniteSet(Units(took))
    BY <2>6, <2>7, FS_Subset
  <2>9. CostOf(took) = Cardinality(Units(took)) /\ CostOf(took) \in Nat
    BY <2>8, FS_CardinalityType DEF CostOf, Units
  <2>10. CostOf(took) <= Budget
    BY <2>3, <2>4, <2>6, <2>8, <2>9
  <2>11. QED
    BY <2>5, <2>10 DEF PassWithinEnvelope
<1>2. QED
  BY <1>1, RotationInvariant, PTL

\* A pass with room for all floors has room for its second lease.
LEMMA RoomForRest ==
  ASSUME RotationConstants, RotationTypeOK, Envelope, stage = "rest",
         NEW share \in 1..Budget, HasRoom(share, wanted \cup took)
  PROVE  RestDue
<1> DEFINE W == wanted \cup took
<1>1. /\ Cardinality(took) <= 1 /\ IsFiniteSet(took) /\ Cardinality(took) \in Nat
      /\ W \in SUBSET Jobs /\ took \in SUBSET W /\ HasRoom(share, W)
  BY InHandCount DEF Envelope, RotationTypeOK
<1>2. PassLimit > FloorCount /\ FloorCount \in Nat \ {0} /\ PassLimit \in Nat /\ Budget \in Nat
  BY DEF HasRoom, RotationConstants
<1> HIDE DEF W
<1>3. CostOf(took) \in Nat /\ CostOf(took) < Budget
  <2>1. Cardinality(took) <= FloorCount
    BY <1>1, <1>2
  <2>2. CostOf(took) \in Nat /\ CostOf(took) + share <= Budget
    BY <1>1, <2>1, RoomLeft
  <2>3. QED
    BY <1>2, <2>2
<1>4. QED
  BY <1>1, <1>2, <1>3 DEF RestDue, Remaining

\* A whole pass ends with the commit of its second lease, or without one.
LEMMA WholePassIs ==
  ASSUME RotationInv, NextRotation, WholePassEnds
  PROVE  CommitRest \/ NoRest
<1>1. aborts' = aborts /\ stage # "idle" /\ stage' = "idle" /\ aborts \in Nat
  BY RotationConstants DEF WholePassEnds, RotationInv, RotationTypeOK, RotationConstants
<1>2. ~Abort
  BY <1>1 DEF Abort
<1>3. ~Begin /\ ~OpenFirst /\ ~CommitFirst /\ ~Checkpoint /\ ~OpenRest /\ ~Dispatched
  BY <1>1 DEF Begin, OpenFirst, CommitFirst, Checkpoint, OpenRest, Dispatched
<1>4. ~VisitFloor /\ ~TakeBest
  BY <1>1 DEF VisitFloor, TakeBest
<1>5. ~\E j \in Jobs : Arrive(j) \/ Withdraw(j)
  BY <1>1 DEF Arrive, Withdraw
<1>6. QED
  BY <1>2, <1>3, <1>4, <1>5 DEF NextRotation

\* A whole pass with room for what it wants and takes leaves no floor behind that has
\* affordable work which its scan can reach: it makes its second lease, and that lease
\* visits every floor.
THEOREM FloorsAlwaysServed == SpecRotation => FloorsServed
<1>1. ASSUME RotationInv, [NextRotation]_rotationVars
      PROVE  [WholePassEnds =>
                \A share \in 1..Budget : HasRoom(share, wanted \cup took') =>
                  \A i \in Floor : HasFloor(i, wanted) /\ ScanSuffices(share, i) =>
                    HasFloor(i, took')]_rotationVars
  <2> SUFFICES ASSUME NextRotation, WholePassEnds,
                      NEW share \in 1..Budget, HasRoom(share, wanted \cup took')
               PROVE  \A i \in Floor :
                        HasFloor(i, wanted) /\ ScanSuffices(share, i) => HasFloor(i, took')
    BY <1>1
  <2>1. RotationTypeOK /\ Envelope /\ Wanted /\ FloorsMet
    BY <1>1 DEF RotationInv
  <2>2. CASE CommitRest
    <3>1. stage = "lease2" /\ CommitLease
      BY <2>2 DEF CommitRest
    <3>2. took' = InHand
      BY <2>1, <3>1, RotationConstants, Committing
    <3>3. QED
      BY <2>1, <3>1, <3>2, RotationConstants, RestServes
  <2>3. CASE NoRest
    <3>1. stage = "rest" /\ ~RestDue /\ took' = took
      BY <2>3 DEF NoRest
    <3>2. QED
      BY <2>1, <3>1, RotationConstants, RoomForRest
  <2>4. QED
    BY <1>1, <2>2, <2>3, WholePassIs
<1>2. QED
  BY <1>1, RotationInvariant, PTL DEF SpecRotation, FloorsServed
=============================================================================
