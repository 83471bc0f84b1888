----------------------------- MODULE RpcBudget -----------------------------
(***************************************************************************)
(* The durable allocation of one RPC credential, shared by the desk and    *)
(* its sidecars: RPCBudget of src/chains/rpc_budget.py.                    *)
(*                                                                         *)
(* A process reads its clock before it waits for the database's write      *)
(* lock, so the time it reserves with can be older than the last           *)
(* reservation in the row, and belong to an earlier day or month.          *)
(***************************************************************************)
EXTENDS Naturals

CONSTANTS
    Proc,       \* tasks of any process that call acquire
    Method,     \* what a call reserves for: a method, or a batch of them
    Cost,       \* RPCBudget.cost summed over the batch, in units
    Gap,        \* len(methods) / rps, in ticks
    Sends,      \* those with sendTransaction, which has a rate slot of its own
    SendGap,    \* one second, in ticks
    Daily,      \* daily allocation
    Monthly,    \* monthly allocation
    MaxLag,     \* longest wait for the write lock (sqlite timeout)
    End,        \* bound: last tick
    DayOf,      \* calendar day of a tick
    MonthOf     \* calendar month of a tick

Time == 0..End

ASSUME BudgetConstants ==
    /\ Cost \in [Method -> Nat] /\ Sends \subseteq Method
    /\ Gap \in [Method -> Nat \ {0}] /\ SendGap \in Nat
    /\ Daily \in Nat /\ Monthly \in Nat /\ MaxLag \in Nat /\ End \in Nat

ASSUME Calendar ==
    /\ DayOf \in [Time -> Nat] /\ MonthOf \in [Time -> Nat]
    /\ \A s, t \in Time : s <= t => DayOf[s] <= DayOf[t] /\ MonthOf[s] <= MonthOf[t]

VARIABLES
    now,        \* the wall clock
    pc,         \* per task: "idle", "locking", "asleep", "exhausted"
    want,       \* per task: the method it reserves for
    seen,       \* per task: the time it read
    wake,       \* per task: when its sleep ends
    row,        \* the row of rpc_allocation
    spentDay,   \* history: units granted, per day they were granted for
    spentMonth, \* history: the same, per month
    lastSend    \* history: time of the last granted sendTransaction, plus SendGap

vars == <<now, pc, want, seen, wake, row, spentDay, spentMonth, lastSend>>

\* A new database has no row, which reads as one of no day with nothing spent.
Row == [day: Nat, month: Nat, daily: Nat, monthly: Nat, nextAt: Nat, nextSend: Nat]
Days == {DayOf[t] : t \in Time}
Months == {MonthOf[t] : t \in Time}

\* Every variable has its type.
TypeOK ==
    /\ now \in Time
    /\ pc \in [Proc -> {"idle", "locking", "asleep", "exhausted"}]
    /\ want \in [Proc -> Method]
    /\ seen \in [Proc -> Time] /\ wake \in [Proc -> Nat]
    /\ row \in Row
    /\ spentDay \in [Days -> Nat] /\ spentMonth \in [Months -> Nat]
    /\ lastSend \in Nat

Init ==
    /\ now = 0
    /\ pc = [p \in Proc |-> "idle"] /\ want \in [Proc -> Method]
    /\ seen = [p \in Proc |-> 0] /\ wake = [p \in Proc |-> 0]
    /\ row = [day |-> DayOf[0], month |-> MonthOf[0], daily |-> 0, monthly |-> 0,
              nextAt |-> 0, nextSend |-> 0]
    /\ spentDay = [d \in Days |-> 0] /\ spentMonth = [m \in Months |-> 0]
    /\ lastSend = 0

-----------------------------------------------------------------------------
\* reserve reads the clock, then asks for the write lock (BEGIN IMMEDIATE).
ReadClock(p) ==
    /\ pc[p] = "idle" \/ (pc[p] = "asleep" /\ wake[p] <= now)
    /\ pc' = [pc EXCEPT ![p] = "locking"]
    /\ seen' = [seen EXCEPT ![p] = now]
    /\ UNCHANGED <<now, want, wake, row, spentDay, spentMonth, lastSend>>

UsedDay(p) == IF row.day = DayOf[seen[p]] THEN row.daily ELSE 0

\* Mutant: the monthly figure starts afresh with the day.
UsedMonthByDay(p) == IF row.day = DayOf[seen[p]] THEN row.monthly ELSE 0

UsedMonth(p) == IF row.month = MonthOf[seen[p]] THEN row.monthly ELSE 0

\* Neither allocation would be exceeded.
Fits(p) ==
    UsedMonth(p) + Cost[want[p]] <= Monthly /\ UsedDay(p) + Cost[want[p]] <= Daily

\* Mutant: a request of another kind than the last one need not wait.
FreeAtForSends(p) == IF want[p] \in Sends THEN row.nextSend ELSE 0

\* Mutant: sendTransaction shares the general rate slot.
FreeAtShared(p) == row.nextAt

\* When the rate slots a request needs are free.
FreeAt(p) ==
    IF want[p] \in Sends /\ row.nextSend > row.nextAt THEN row.nextSend ELSE row.nextAt

\* The transaction took longer than sqlite waits: OperationalError.
LockTimesOut(p) ==
    /\ pc[p] = "locking" /\ now > seen[p] + MaxLag
    /\ pc' = [pc EXCEPT ![p] = "idle"]
    /\ UNCHANGED <<now, want, seen, wake, row, spentDay, spentMonth, lastSend>>

Locked(p) == pc[p] = "locking" /\ now <= seen[p] + MaxLag

\* reserve raises RPCBudgetExhausted; the caller cools the endpoint until then.
Exhausted(p) ==
    /\ Locked(p) /\ ~Fits(p)
    /\ pc' = [pc EXCEPT ![p] = "exhausted"]
    /\ UNCHANGED <<now, want, seen, wake, row, spentDay, spentMonth, lastSend>>

\* reserve returns a delay and acquire sleeps, a second at most.
Delayed(p) ==
    /\ Locked(p) /\ Fits(p) /\ FreeAt(p) > seen[p]
    /\ pc' = [pc EXCEPT ![p] = "asleep"]
    /\ wake' = [wake EXCEPT ![p] = now + (IF FreeAt(p) - seen[p] < SendGap
                                            THEN FreeAt(p) - seen[p] ELSE SendGap)]
    /\ UNCHANGED <<now, want, seen, row, spentDay, spentMonth, lastSend>>

\* reserve writes the row and returns 0; the task's next call may be for
\* another method.
Grant(p) ==
    LET t == seen[p]
        units == Cost[want[p]]
    IN /\ Locked(p) /\ Fits(p) /\ FreeAt(p) <= t
       /\ row' = [day |-> DayOf[t], month |-> MonthOf[t],
                  daily |-> UsedDay(p) + units, monthly |-> UsedMonth(p) + units,
                  nextAt |-> t + Gap[want[p]],
                  nextSend |-> IF want[p] \in Sends THEN t + SendGap ELSE row.nextSend]
       /\ spentDay' = [spentDay EXCEPT ![DayOf[t]] = @ + units]
       /\ spentMonth' = [spentMonth EXCEPT ![MonthOf[t]] = @ + units]
       /\ lastSend' = IF want[p] \in Sends THEN t + SendGap ELSE lastSend
       /\ pc' = [pc EXCEPT ![p] = "idle"]
       /\ \E m \in Method : want' = [want EXCEPT ![p] = m]
       /\ UNCHANGED <<now, seen, wake>>

\* The caller gives up while it sleeps: nothing was reserved.
CancelWait(p) ==
    /\ pc[p] = "asleep"
    /\ pc' = [pc EXCEPT ![p] = "idle"]
    /\ UNCHANGED <<now, want, seen, wake, row, spentDay, spentMonth, lastSend>>

\* An exhausted endpoint is asked again when its cooldown is over: at midnight,
\* or, for the month, on its first day (here: on any later day).
AskAgain(p) ==
    /\ pc[p] = "exhausted" /\ DayOf[now] > DayOf[seen[p]]
    /\ pc' = [pc EXCEPT ![p] = "idle"]
    /\ UNCHANGED <<now, want, seen, wake, row, spentDay, spentMonth, lastSend>>

Tick ==
    /\ now < End
    /\ now' = now + 1
    /\ UNCHANGED <<pc, want, seen, wake, row, spentDay, spentMonth, lastSend>>

Step(p) ==
    ReadClock(p) \/ LockTimesOut(p) \/ Exhausted(p) \/ Delayed(p) \/ Grant(p)
    \/ CancelWait(p) \/ AskAgain(p)

Next == Tick \/ \E p \in Proc : Step(p)

Spec == Init /\ [][Next]_vars

-----------------------------------------------------------------------------
\* The units granted for a calendar day never exceed the daily allocation and
\* those granted for a month the monthly one, whatever the order in which
\* processes that read their clocks before midnight get the write lock after it.
AllocationHeld ==
    /\ \A d \in Days : spentDay[d] <= Daily
    /\ \A m \in Months : spentMonth[m] <= Monthly

\* The row never loses a reservation: it holds exactly what was granted for its
\* own day and month, and nothing has been granted for a later one.
RowIsLedger ==
    /\ row.day \in Days /\ row.daily = spentDay[row.day]
    /\ row.month \in Months /\ row.monthly = spentMonth[row.month]
    /\ \A d \in Days : d > row.day => spentDay[d] = 0
    /\ \A m \in Months : m > row.month => spentMonth[m] = 0

\* Grants are at least a rate slot apart and never go back in time, and two
\* sendTransaction grants are a second apart even when others lie between them.
SlotsKept ==
    [][\A p \in Proc : Grant(p) => /\ row'.nextAt >= row.nextAt + Gap[want[p]]
                                   /\ want[p] \in Sends => lastSend' >= lastSend + SendGap
                                   /\ row'.day >= row.day]_vars
=============================================================================
