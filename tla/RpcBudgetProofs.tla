-------------------------- MODULE RpcBudgetProofs --------------------------
(***************************************************************************)
(* The allocation of RpcBudget holds for any number of tasks, any calendar *)
(* and any wait for the write lock.                                        *)
(***************************************************************************)
EXTENDS RpcBudget, TLAPS

\* The day and month of the row are those of a time no later than its rate slot:
\* what makes a reservation with an old clock wait instead of reopening a day.
RowTime ==
    \E t \in Time : /\ row.day = DayOf[t] /\ row.month = MonthOf[t]
                    /\ t <= row.nextAt

SendIsRow == row.nextSend = lastSend

IInv == TypeOK /\ RowIsLedger /\ AllocationHeld /\ RowTime /\ SendIsRow

LEMMA TimeFacts ==
    /\ Time \subseteq Nat /\ 0 \in Time
    /\ \A t \in Time : DayOf[t] \in Days /\ DayOf[t] \in Nat
    /\ \A t \in Time : MonthOf[t] \in Months /\ MonthOf[t] \in Nat
    /\ Days \subseteq Nat /\ Months \subseteq Nat
<1>1. Time \subseteq Nat /\ 0 \in Time
  BY BudgetConstants DEF Time
<1>2. DayOf \in [Time -> Nat] /\ MonthOf \in [Time -> Nat]
  BY Calendar
<1> QED
  BY <1>1, <1>2 DEF Days, Months

\* A new row belongs to the calendar's first day and holds nothing.
LEMMA InitIInv == Init => IInv
<1> SUFFICES ASSUME Init PROVE IInv
  OBVIOUS
<1>1. TypeOK
  BY TimeFacts DEF Init, TypeOK, Row
<1>2. RowIsLedger
  BY TimeFacts DEF Init, RowIsLedger
<1>3. AllocationHeld
  BY BudgetConstants DEF Init, AllocationHeld
<1>4. RowTime
  BY TimeFacts DEF Init, RowTime
<1> QED
  BY <1>1, <1>2, <1>3, <1>4 DEF IInv, SendIsRow, Init

\* A granted request has read a clock at or after the row's slot, so its day and
\* month are the row's or later ones.
LEMMA GrantIsLater ==
    ASSUME IInv, NEW p \in Proc, Grant(p)
    PROVE  /\ seen[p] \in Time
           /\ row.nextAt <= seen[p]
           /\ row.day <= DayOf[seen[p]] /\ row.month <= MonthOf[seen[p]]
           /\ Cost[want[p]] \in Nat /\ Gap[want[p]] \in Nat \ {0} /\ want[p] \in Method
           /\ UsedDay(p) = spentDay[DayOf[seen[p]]]
           /\ UsedMonth(p) = spentMonth[MonthOf[seen[p]]]
<1>1. seen[p] \in Time /\ seen[p] \in Nat /\ want[p] \in Method
  BY TimeFacts DEF IInv, TypeOK
<1>2. row.nextAt \in Nat /\ row.nextSend \in Nat /\ row.day \in Nat /\ row.month \in Nat
  BY DEF IInv, TypeOK, Row
<1>3. FreeAt(p) <= seen[p]
  BY DEF Grant
<1>4. row.nextAt <= seen[p]
  BY <1>1, <1>2, <1>3 DEF FreeAt
<1>5. PICK t \in Time : row.day = DayOf[t] /\ row.month = MonthOf[t] /\ t <= row.nextAt
  BY DEF IInv, RowTime
<1>6. t <= seen[p]
  BY <1>1, <1>2, <1>4, <1>5, TimeFacts
<1>7. row.day <= DayOf[seen[p]] /\ row.month <= MonthOf[seen[p]]
  BY <1>1, <1>5, <1>6, Calendar
<1>8. Cost[want[p]] \in Nat /\ Gap[want[p]] \in Nat \ {0}
  BY <1>1, BudgetConstants
<1>9. DayOf[seen[p]] \in Days /\ DayOf[seen[p]] \in Nat
      /\ MonthOf[seen[p]] \in Months /\ MonthOf[seen[p]] \in Nat
  BY <1>1, TimeFacts
<1>10. UsedDay(p) = spentDay[DayOf[seen[p]]]
  BY <1>2, <1>7, <1>9 DEF IInv, RowIsLedger, UsedDay
<1>11. UsedMonth(p) = spentMonth[MonthOf[seen[p]]]
  BY <1>2, <1>7, <1>9 DEF IInv, RowIsLedger, UsedMonth
<1> QED
  BY <1>1, <1>4, <1>7, <1>8, <1>10, <1>11

\* The row written by a grant, component by component.
LEMMA GrantWrites ==
    ASSUME IInv, NEW p \in Proc, Grant(p)
    PROVE  /\ row'.day = DayOf[seen[p]] /\ row'.month = MonthOf[seen[p]]
           /\ row'.daily = spentDay[DayOf[seen[p]]] + Cost[want[p]]
           /\ row'.monthly = spentMonth[MonthOf[seen[p]]] + Cost[want[p]]
           /\ row'.nextAt = seen[p] + Gap[want[p]]
           /\ row'.nextSend = IF want[p] \in Sends THEN seen[p] + SendGap ELSE row.nextSend
           /\ spentDay' = [spentDay EXCEPT ![DayOf[seen[p]]] = @ + Cost[want[p]]]
           /\ spentMonth' = [spentMonth EXCEPT ![MonthOf[seen[p]]] = @ + Cost[want[p]]]
           /\ spentDay[DayOf[seen[p]]] + Cost[want[p]] <= Daily
           /\ spentMonth[MonthOf[seen[p]]] + Cost[want[p]] <= Monthly
<1> DEFINE D == UsedDay(p) + Cost[want[p]]
           N == UsedMonth(p) + Cost[want[p]]
<1>1. D = spentDay[DayOf[seen[p]]] + Cost[want[p]]
      /\ N = spentMonth[MonthOf[seen[p]]] + Cost[want[p]]
  BY GrantIsLater
<1>2. row' = [day |-> DayOf[seen[p]], month |-> MonthOf[seen[p]], daily |-> D,
              monthly |-> N, nextAt |-> seen[p] + Gap[want[p]],
              nextSend |-> IF want[p] \in Sends THEN seen[p] + SendGap ELSE row.nextSend]
  BY DEF Grant
<1>3. D <= Daily /\ N <= Monthly
  BY DEF Grant, Fits
<1>4. /\ spentDay' = [spentDay EXCEPT ![DayOf[seen[p]]] = @ + Cost[want[p]]]
      /\ spentMonth' = [spentMonth EXCEPT ![MonthOf[seen[p]]] = @ + Cost[want[p]]]
  BY DEF Grant
<1> HIDE DEF D, N
<1> QED
  BY <1>1, <1>2, <1>3, <1>4

LEMMA GrantTypeOK ==
    ASSUME IInv, NEW p \in Proc, Grant(p)
    PROVE  TypeOK'
<1> DEFINE d == DayOf[seen[p]]
           m == MonthOf[seen[p]]
           u == Cost[want[p]]
<1>1. /\ seen[p] \in Nat /\ d \in Days /\ d \in Nat /\ m \in Months /\ m \in Nat
      /\ u \in Nat /\ Gap[want[p]] \in Nat /\ SendGap \in Nat
  BY GrantIsLater, TimeFacts, BudgetConstants
<1>2. spentDay \in [Days -> Nat] /\ spentMonth \in [Months -> Nat] /\ row.nextSend \in Nat
  BY DEF IInv, TypeOK, Row
<1>3. spentDay[d] + u \in Nat /\ spentMonth[m] + u \in Nat
  BY <1>1, <1>2
<1>4. spentDay' \in [Days -> Nat] /\ spentMonth' \in [Months -> Nat]
  BY <1>1, <1>2, <1>3, GrantWrites
<1>5. row' \in Row
  <2> DEFINE ns == IF want[p] \in Sends THEN seen[p] + SendGap ELSE row.nextSend
             D == UsedDay(p) + u
             N == UsedMonth(p) + u
             na == seen[p] + Gap[want[p]]
  <2>1. ns \in Nat /\ na \in Nat
    BY <1>1, <1>2
  <2>2. D \in Nat /\ N \in Nat
    BY <1>1, <1>3, GrantIsLater
  <2>3. row' = [day |-> d, month |-> m, daily |-> D, monthly |-> N, nextAt |-> na,
                nextSend |-> ns]
    BY DEF Grant
  <2> HIDE DEF ns, na, D, N, d, m, u
  <2> QED
    BY <1>1, <2>1, <2>2, <2>3 DEF Row
<1>6. lastSend' \in Nat
  BY <1>1 DEF Grant, IInv, TypeOK
<1>7. want' \in [Proc -> Method] /\ pc' \in [Proc -> {"idle", "locking", "asleep", "exhausted"}]
  BY DEF Grant, IInv, TypeOK
<1>8. now' \in Time /\ seen' \in [Proc -> Time] /\ wake' \in [Proc -> Nat]
  BY DEF Grant, IInv, TypeOK
<1> QED
  BY <1>4, <1>5, <1>6, <1>7, <1>8 DEF TypeOK

LEMMA GrantLedger ==
    ASSUME IInv, NEW p \in Proc, Grant(p)
    PROVE  RowIsLedger' /\ AllocationHeld'
<1> DEFINE d == DayOf[seen[p]]
           m == MonthOf[seen[p]]
           u == Cost[want[p]]
<1>1. d \in Days /\ d \in Nat /\ m \in Months /\ m \in Nat /\ u \in Nat
  BY GrantIsLater, TimeFacts
<1>2. /\ spentDay \in [Days -> Nat] /\ spentMonth \in [Months -> Nat]
      /\ row.day \in Nat /\ row.month \in Nat
  BY DEF IInv, TypeOK, Row
<1>3. row.day <= d /\ row.month <= m
  BY GrantIsLater
<1>4. /\ row'.day = d /\ row'.month = m
      /\ row'.daily = spentDay[d] + u /\ row'.monthly = spentMonth[m] + u
      /\ spentDay' = [spentDay EXCEPT ![d] = @ + u]
      /\ spentMonth' = [spentMonth EXCEPT ![m] = @ + u]
      /\ spentDay[d] + u <= Daily /\ spentMonth[m] + u <= Monthly
  BY GrantWrites
<1> HIDE DEF d, m, u
<1>5. spentDay'[d] = spentDay[d] + u /\ spentMonth'[m] = spentMonth[m] + u
  BY <1>1, <1>2, <1>4
<1>6. \A e \in Days : e # d => spentDay'[e] = spentDay[e]
  BY <1>2, <1>4
<1>7. \A e \in Months : e # m => spentMonth'[e] = spentMonth[e]
  BY <1>2, <1>4
<1>8. \A e \in Days : e > d => e > row.day /\ e # d
  BY <1>1, <1>2, <1>3, TimeFacts
<1>9. \A e \in Months : e > m => e > row.month /\ e # m
  BY <1>1, <1>2, <1>3, TimeFacts
<1>10. RowIsLedger'
  BY <1>1, <1>4, <1>5, <1>6, <1>7, <1>8, <1>9 DEF IInv, RowIsLedger
<1>11. AllocationHeld'
  BY <1>4, <1>5, <1>6, <1>7 DEF IInv, AllocationHeld
<1> QED
  BY <1>10, <1>11

LEMMA GrantTime ==
    ASSUME IInv, NEW p \in Proc, Grant(p)
    PROVE  RowTime' /\ SendIsRow'
<1>1. seen[p] \in Time /\ seen[p] \in Nat /\ Gap[want[p]] \in Nat
  BY GrantIsLater, TimeFacts
<1>2. seen[p] <= row'.nextAt
  BY <1>1, GrantWrites
<1>3. RowTime'
  BY <1>1, <1>2, GrantWrites DEF RowTime
<1>4. lastSend' = IF want[p] \in Sends THEN seen[p] + SendGap ELSE lastSend
  BY DEF Grant
<1>5. SendIsRow'
  BY <1>4, GrantWrites DEF SendIsRow, IInv
<1> QED
  BY <1>3, <1>5

\* The other steps leave the row and what was granted alone.
LEMMA QuietStep ==
    ASSUME IInv, TypeOK', UNCHANGED <<row, spentDay, spentMonth, lastSend>>
    PROVE  IInv'
  BY DEF IInv, RowIsLedger, AllocationHeld, RowTime, SendIsRow

LEMMA StepTypeOK ==
    ASSUME IInv, NEW p \in Proc,
           ReadClock(p) \/ LockTimesOut(p) \/ Exhausted(p) \/ CancelWait(p) \/ AskAgain(p)
    PROVE  TypeOK' /\ UNCHANGED <<row, spentDay, spentMonth, lastSend>>
  BY DEF IInv, TypeOK, ReadClock, LockTimesOut, Exhausted, CancelWait, AskAgain

LEMMA DelayedTypeOK ==
    ASSUME IInv, NEW p \in Proc, Delayed(p)
    PROVE  TypeOK' /\ UNCHANGED <<row, spentDay, spentMonth, lastSend>>
<1>1. now \in Nat /\ seen[p] \in Nat /\ SendGap \in Nat
  BY TimeFacts, BudgetConstants DEF IInv, TypeOK
<1>2. row.nextAt \in Nat /\ row.nextSend \in Nat
  BY DEF IInv, TypeOK, Row
<1>3. FreeAt(p) \in Nat
  BY <1>2 DEF FreeAt
<1>4. FreeAt(p) > seen[p]
  BY DEF Delayed
<1> DEFINE w == now + (IF FreeAt(p) - seen[p] < SendGap THEN FreeAt(p) - seen[p] ELSE SendGap)
<1>5. w \in Nat
  BY <1>1, <1>3, <1>4
<1>6. wake' = [wake EXCEPT ![p] = w]
  BY DEF Delayed
<1> HIDE DEF w
<1>7. wake' \in [Proc -> Nat]
  BY <1>5, <1>6 DEF IInv, TypeOK
<1> QED
  BY <1>7 DEF IInv, TypeOK, Delayed

LEMMA NextIInv == IInv /\ [Next]_vars => IInv'
<1> SUFFICES ASSUME IInv, [Next]_vars PROVE IInv'
  OBVIOUS
<1>1. CASE Tick
  <2>1. now' \in Time
    BY <1>1, BudgetConstants DEF Tick, IInv, TypeOK, Time
  <2> QED
    BY <1>1, <2>1, QuietStep DEF Tick, IInv, TypeOK
<1>2. ASSUME NEW p \in Proc, Step(p) PROVE IInv'
  <2>1. CASE Grant(p)
    BY <2>1, GrantTypeOK, GrantLedger, GrantTime DEF IInv
  <2>2. CASE Delayed(p)
    BY <2>2, DelayedTypeOK, QuietStep
  <2>3. CASE ReadClock(p) \/ LockTimesOut(p) \/ Exhausted(p) \/ CancelWait(p) \/ AskAgain(p)
    BY <2>3, StepTypeOK, QuietStep
  <2> QED
    BY <1>2, <2>1, <2>2, <2>3 DEF Step
<1>3. CASE UNCHANGED vars
  <2>1. TypeOK'
    BY <1>3 DEF vars, IInv, TypeOK
  <2> QED
    BY <1>3, <2>1, QuietStep DEF vars
<1> QED
  BY <1>1, <1>2, <1>3 DEF Next

LEMMA SpecIInv == Spec => []IInv
  BY InitIInv, NextIInv, PTL DEF Spec

\* Every variable of the shared allocation keeps its type.
THEOREM BudgetTyped == Spec => []TypeOK
<1>1. IInv => TypeOK
  BY DEF IInv
<1> QED
  BY SpecIInv, <1>1, PTL

\* No calendar day and no month is granted more than its allocation, for every
\* calendar, rate and wait for the lock (RPCBudget.reserve).
THEOREM BudgetHeld == Spec => []AllocationHeld
<1>1. IInv => AllocationHeld
  BY DEF IInv
<1> QED
  BY SpecIInv, <1>1, PTL

\* The row never loses a reservation of its day or month (RPCBudget.reserve).
THEOREM BudgetLedger == Spec => []RowIsLedger
<1>1. IInv => RowIsLedger
  BY DEF IInv
<1> QED
  BY SpecIInv, <1>1, PTL

\* Grants keep the rate slots and never go back to an earlier day.
THEOREM BudgetSlots == Spec => SlotsKept
<1> DEFINE Kept == \A p \in Proc : Grant(p) =>
                     /\ row'.nextAt >= row.nextAt + Gap[want[p]]
                     /\ want[p] \in Sends => lastSend' >= lastSend + SendGap
                     /\ row'.day >= row.day
<1>1. IInv => Kept
  <2> SUFFICES ASSUME IInv, NEW p \in Proc, Grant(p)
               PROVE /\ row'.nextAt >= row.nextAt + Gap[want[p]]
                     /\ want[p] \in Sends => lastSend' >= lastSend + SendGap
                     /\ row'.day >= row.day
    OBVIOUS
  <2>1. /\ seen[p] \in Nat /\ row.nextAt \in Nat /\ row.nextSend \in Nat /\ row.day \in Nat
        /\ Gap[want[p]] \in Nat /\ SendGap \in Nat /\ DayOf[seen[p]] \in Nat
    BY GrantIsLater, TimeFacts, BudgetConstants DEF IInv, TypeOK, Row
  <2>2. row'.nextAt >= row.nextAt + Gap[want[p]] /\ row'.day >= row.day
    BY <2>1, GrantIsLater, GrantWrites
  <2>3. want[p] \in Sends => row.nextSend <= seen[p]
    BY <2>1 DEF Grant, FreeAt
  <2>4. want[p] \in Sends => lastSend' = seen[p] + SendGap
    BY DEF Grant
  <2>5. lastSend = row.nextSend
    BY DEF IInv, SendIsRow
  <2> QED
    BY <2>1, <2>2, <2>3, <2>4, <2>5
<1>2. IInv /\ [Next]_vars => [Kept]_vars
  BY <1>1
<1> QED
  BY SpecIInv, <1>2, PTL DEF Spec, SlotsKept
=============================================================================
