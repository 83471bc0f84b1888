------------------------- MODULE PositionBookProofs -------------------------
(***************************************************************************)
(* What PositionBook promises for any number of tokens, workers and        *)
(* positions, any queue size and any lot.                                  *)
(***************************************************************************)
EXTENDS PositionBook, SequenceTheorems, FiniteSetTheorems, TLAPS

Tasks == [at : {"idle", "decide", "selling", "adding", "check", "room", "buying"},
          tok : Tokens \cup {None}, obj : Nat, cur : Nat, amt : Nat]

\* The variables as functions and sequences; TypeOK follows from Shapes and Referenced.
Shapes ==
    /\ pos \in Seq(Positions) /\ Len(pos) <= MaxPos
    /\ open \in [Tokens -> Nat] /\ wallet \in [Tokens -> Nat] /\ tries \in [Tokens -> 0..Tries]
    /\ missed \in [Tokens -> Nat]
    /\ queue \in Seq(Tokens) /\ Len(queue) <= QueueSize
    /\ pending \subseteq Tokens /\ unseen \subseteq Tokens /\ unbooked \in BOOLEAN
    /\ task \in [Agents -> Tasks] /\ todo \subseteq Tokens \X Nat
    /\ floating \subseteq [side : {"buy", "sell"}, tok : Tokens, amt : Nat] /\ lost \in 0..Unconfirmed

\* A reference someone keeps to the position of a token.
Refers(o, t) == o \in 1..Len(pos) /\ pos[o].tok = t

\* What an agent awaits fits the objects there are.
Sound(k) ==
    /\ k.at \in {"decide", "selling", "adding"} => k.tok \in Tokens /\ Refers(k.obj, k.tok)
    /\ k.obj <= Len(pos) /\ k.amt <= k.cur

\* Every reference leads to an object made for the token it is kept under, in the book
\* (open_positions), in a decision or an order under way, and in the sweep's list.
Referenced ==
    /\ \A t \in Tokens : open[t] # None => Refers(open[t], t)
    /\ \A a \in Agents : Sound(task[a])
    /\ \A next \in todo : Refers(next[2], next[1])

\* Only pipelines evaluate candidates and buy.
ManagersDoNotBuy == \A m \in Managers : task[m].at \in {"idle", "decide", "selling", "adding"}

\* A pipeline that is selling an incumbent, asking for room or buying has not bought yet.
NotYetBought ==
    \A t \in Tokens : task[t].at \notin {"idle", "check"} => open[t] = None

\* _redecide holds each pending token once and nothing else.
QueueIsPending ==
    /\ \A t \in Tokens : t \in pending <=> \E i \in 1..Len(queue) : queue[i] = t
    /\ \A i, j \in 1..Len(queue) : queue[i] = queue[j] => i = j

-----------------------------------------------------------------------------
(***************************************************************************)
(* Operators.                                                              *)
(***************************************************************************)

LEMMA IdleTask == Idle \in Tasks /\ Idle.at = "idle" /\ Idle.obj = 0 /\ Idle.amt = 0 /\ Idle.cur = 0
  BY DEF Idle, Tasks, None

LEMMA IdleBut ==
    ASSUME NEW x \in {"check", "room", "buying"}
    PROVE  /\ [Idle EXCEPT !.at = x] \in Tasks /\ [Idle EXCEPT !.at = x].at = x
           /\ [Idle EXCEPT !.at = x].obj = 0 /\ [Idle EXCEPT !.at = x].amt = 0 /\ [Idle EXCEPT !.at = x].cur = 0
  BY DEF Idle, Tasks, None

LEMMA WhoAreAgents == Tokens \subseteq Agents /\ Managers \subseteq Agents /\ Workers \subseteq Managers /\ Sweep \in Managers
  BY DEF Agents, Managers

\* A sell order is for at least nothing and at most the size that was read.
LEMMA PartBounds == ASSUME NEW cur \in Nat, NEW full \in BOOLEAN PROVE Part(cur, full) \in 0..cur
<1>1. CASE full
  BY <1>1 DEF Part
<1>2. CASE ~full
  <2>1. \A a, b \in Nat : Max({a, b}) \in {a, b} /\ Min({a, b}) \in {a, b} /\ Min({a, b}) <= a
    <3> SUFFICES ASSUME NEW a \in Nat, NEW b \in Nat
                 PROVE  Max({a, b}) \in {a, b} /\ Min({a, b}) \in {a, b} /\ Min({a, b}) <= a
      OBVIOUS
    <3>1. \E x \in {a, b} : \A y \in {a, b} : x >= y
      OBVIOUS
    <3>2. \E x \in {a, b} : \A y \in {a, b} : x =< y
      OBVIOUS
    <3> QED BY <3>1, <3>2 DEF Max, Min
  <2>2. cur \div 2 \in Nat
    OBVIOUS
  <2>3. Max({1, cur \div 2}) \in Nat
    BY <2>1, <2>2
  <2> QED BY <1>2, <2>1, <2>3 DEF Part
<1> QED BY <1>1, <1>2

\* Writing one object leaves the others and the number of objects alone.
LEMMA ObjectWritten ==
    ASSUME pos \in Seq(Positions), NEW o \in 1..Len(pos), NEW p \in Positions,
           pos' = [pos EXCEPT ![o] = p]
    PROVE  /\ pos' \in Seq(Positions) /\ Len(pos') = Len(pos)
           /\ \A i \in 1..Len(pos) : pos'[i] = IF i = o THEN p ELSE pos[i]
  BY ExceptSeq, LenProperties

LEMMA ReducedPosition ==
    ASSUME NEW p \in Positions, NEW amt \in Nat
    PROVE  /\ Reduced(p, amt) \in Positions /\ Reduced(p, amt).tok = p.tok
           /\ Reduced(p, amt).size = IF p.size > amt THEN p.size - amt ELSE 0
  BY DEF Reduced, Positions

\* A position that was added to is one, for the same token.
LEMMA GrownPosition ==
    ASSUME NEW p \in Positions
    PROVE  /\ [p EXCEPT !.size = @ + Lot, !.added = TRUE] \in Positions
           /\ [p EXCEPT !.size = @ + Lot, !.added = TRUE].tok = p.tok
           /\ [p EXCEPT !.size = @ + Lot, !.added = TRUE].size = p.size + Lot
<1>1. Lot \in Nat
  BY BookConstants
<1>2. p.size + Lot \in Nat
  BY <1>1 DEF Positions
<1> QED BY <1>2 DEF Positions

LEMMA ObjectTyped == ASSUME Shapes, NEW o \in 1..Len(pos) PROVE pos[o] \in Positions /\ o \in Nat
<1>1. pos \in Seq(Positions)
  BY DEF Shapes
<1> QED BY <1>1, LenProperties

\* What an agent turns to after its order refers to no object.
LEMMA AfterTask ==
    ASSUME NEW a, NEW opened
    PROVE  /\ After(a, opened) \in Tasks /\ After(a, opened).at \in {"idle", "check", "room"}
           /\ After(a, opened).obj = 0 /\ After(a, opened).amt = 0 /\ After(a, opened).cur = 0
           /\ a \in Managers => After(a, opened).at = "idle"
  BY DEF After, Idle, Tasks, None

-----------------------------------------------------------------------------
(***************************************************************************)
(* Types and references.                                                   *)
(***************************************************************************)

LEMMA ShapesStep == Shapes /\ Referenced /\ ManagersDoNotBuy /\ [Next]_bvars => Shapes'
<1> SUFFICES ASSUME Shapes, Referenced, ManagersDoNotBuy, [Next]_bvars PROVE Shapes'
  OBVIOUS
<1> USE BookConstants, WhoAreAgents
<1>0. CASE UNCHANGED bvars
  BY <1>0 DEF Shapes, bvars
<1>1. ASSUME NEW t \in Tokens, RequestRedecision(t) PROVE Shapes'
  <2>1. queue' \in Seq(Tokens) /\ Len(queue') <= QueueSize
    <3>1. CASE UNCHANGED queue
      BY <3>1 DEF Shapes
    <3>2. CASE Len(queue) # QueueSize /\ queue' = Append(queue, t)
      <4>1. Len(queue) \in Nat /\ Len(queue) <= QueueSize /\ queue \in Seq(Tokens)
        BY LenProperties DEF Shapes
      <4> QED BY <3>2, <4>1, AppendProperties
    <3> QED BY <1>1, <3>1, <3>2 DEF RequestRedecision, redecisions
  <2>2. pending' \subseteq Tokens /\ unseen' \subseteq Tokens
    BY <1>1 DEF Shapes, RequestRedecision, redecisions
  <2> QED BY <1>1, <2>1, <2>2 DEF Shapes, RequestRedecision, book, orders
<1>2. ASSUME NEW w \in Workers, WorkerTake(w) PROVE Shapes'
  <2>1. queue' \in Seq(Tokens) /\ Len(queue') <= QueueSize /\ Head(queue) \in Tokens
    BY <1>2, HeadTailProperties, LenProperties DEF Shapes, WorkerTake
  <2>2. task' \in [Agents -> Tasks]
    BY <1>2, <2>1 DEF Shapes, WorkerTake, OpenTokens, Idle, Tasks, None, Agents, Managers
  <2> QED BY <1>2, <2>1, <2>2 DEF Shapes, WorkerTake, book, orders
<1>3. CASE SweepBegin
  BY <1>3 DEF Shapes, SweepBegin, OpenTokens, book, redecisions, orders
<1>4. CASE SweepNext
  <2>1. task' \in [Agents -> Tasks]
    <3>1. PICK next \in todo :
             task' = [task EXCEPT ![Sweep] = [at |-> "decide", tok |-> next[1], obj |-> next[2], cur |-> 0, amt |-> 0]]
      BY <1>4 DEF SweepNext
    <3>2. next[1] \in Tokens /\ next[2] \in Nat
      BY DEF Shapes
    <3> QED BY <3>1, <3>2 DEF Shapes, Tasks
  <2> QED BY <1>4, <2>1 DEF Shapes, SweepNext, book, redecisions, orders
<1>5. ASSUME NEW m \in Managers, Hold(m) PROVE Shapes'
  BY <1>5, IdleTask DEF Shapes, Hold, book, redecisions, orders
<1>6. ASSUME NEW m \in Managers, Sell(m) PROVE Shapes'
  <2>1. PICK full \in BOOLEAN : BeginSell(m, task[m].tok, task[m].obj, full)
    BY <1>6 DEF Sell
  <2>2. task[m].tok \in Tokens /\ pos[task[m].obj] \in Positions /\ task[m].obj \in Nat
    BY <1>6, LenProperties DEF Sell, Referenced, Sound, Refers, Shapes, Agents
  <2>3. Part(pos[task[m].obj].size, full) \in Nat
    BY <2>2, PartBounds DEF Positions
  <2>4. task' \in [Agents -> Tasks]
    BY <2>1, <2>2, <2>3, IdleTask DEF Shapes, BeginSell, Tasks, Positions
  <2> QED BY <1>6, <2>4 DEF Shapes, Sell, book, redecisions, orders
<1>7. ASSUME NEW m \in Managers, Add(m) PROVE Shapes'
  <2>1. task' \in [Agents -> Tasks]
    <3>1. task[m] \in Tasks
      BY <1>7, WhoAreAgents DEF Shapes
    <3>2. [task[m] EXCEPT !.at = "adding"] \in Tasks
      BY <3>1 DEF Tasks
    <3>3. task' = [task EXCEPT ![m] = [task[m] EXCEPT !.at = "adding"]]
      BY <1>7 DEF Add
    <3> QED BY <3>2, <3>3 DEF Shapes
  <2> QED BY <1>7, <2>1 DEF Shapes, Add, book, redecisions, orders
<1>8. ASSUME NEW m \in Managers, AddFilled(m) PROVE Shapes'
  <2> DEFINE o == task[m].obj
             p == [pos[o] EXCEPT !.size = @ + Lot, !.added = TRUE]
  <2>1. task[m].tok \in Tokens /\ o \in 1..Len(pos) /\ pos[o] \in Positions
    BY <1>8, LenProperties DEF AddFilled, Referenced, Sound, Refers, Shapes, Agents
  <2>2. p \in Positions
    BY <2>1, GrownPosition
  <2>3. (UNCHANGED pos /\ Unproven) \/ (pos' = [pos EXCEPT ![o] = p] /\ UNCHANGED lost)
    BY <1>8, <2>1, LenProperties DEF AddFilled, Shapes, Positions
  <2>4. pos' \in Seq(Positions) /\ Len(pos') = Len(pos) /\ lost' \in 0..Unconfirmed
    <3>1. CASE UNCHANGED pos /\ Unproven
      BY <3>1 DEF Unproven, Shapes
    <3>2. CASE pos' = [pos EXCEPT ![o] = p] /\ UNCHANGED lost
      <4> HIDE DEF p
      <4> QED BY <2>1, <2>2, <3>2, ObjectWritten DEF Shapes
    <3> QED BY <2>3, <3>1, <3>2
  <2>5. task' \in [Agents -> Tasks] /\ wallet' \in [Tokens -> Nat]
    <3>1. wallet' \in [Tokens -> Nat]
      <4>1. wallet' = [wallet EXCEPT ![task[m].tok] = @ + Lot]
        BY <1>8 DEF AddFilled
      <4>2. wallet \in [Tokens -> Nat] /\ Lot \in Nat
        BY BookConstants DEF Shapes
      <4> QED BY <2>1, <4>1, <4>2
    <3>2. task' \in [Agents -> Tasks]
      BY <1>8, IdleTask DEF Shapes, AddFilled
    <3> QED BY <3>1, <3>2
  <2>6. UNCHANGED <<open, missed, queue, pending, unseen, unbooked, todo, tries, floating>>
    BY <1>8 DEF AddFilled, redecisions
  <2>7. Len(pos') <= MaxPos
    BY <2>4 DEF Shapes
  <2> QED BY <2>4, <2>5, <2>6, <2>7 DEF Shapes
<1>9. ASSUME NEW a \in Agents, SellFilled(a) PROVE Shapes'
  <2> DEFINE t == task[a].tok
  <2>1. PICK taken \in 0..wallet[t] :
          /\ wallet' = [wallet EXCEPT ![t] = @ - taken]
          /\ SellBooked(a, taken) \/ SellBlocked(a, taken)
    BY <1>9 DEF SellFilled
  <2>2. t \in Tokens /\ wallet[t] \in Nat /\ taken \in Nat /\ taken <= wallet[t]
    BY <1>9 DEF SellFilled, Referenced, Sound, Shapes
  <2>3. wallet' \in [Tokens -> Nat]
    BY <2>1, <2>2 DEF Shapes
  <2>4. UNCHANGED <<queue, pending, unseen, floating, unbooked>>
    BY <1>9 DEF SellFilled, redecisions
  <2>5. CASE SellBlocked(a, taken)
    <3>1. task' \in [Agents -> Tasks]
      BY <2>5, AfterTask DEF Shapes, SellBlocked
    <3>2. missed' \in [Tokens -> Nat] /\ lost' \in 0..Unconfirmed
      BY <2>2, <2>5 DEF Shapes, SellBlocked, Unproven
    <3> QED BY <2>3, <2>4, <2>5, <3>1, <3>2 DEF Shapes, SellBlocked
  <2>6. CASE SellBooked(a, taken) /\ open[t] = None
    <3>1. task' \in [Agents -> Tasks]
      BY <2>6, IdleTask DEF Shapes, SellBooked
    <3>2. tries' \in [Tokens -> 0..Tries] /\ todo' \subseteq Tokens \X Nat
      <4>1. tries' = tries \/ (a \in Tokens /\ tries' = [tries EXCEPT ![a] = 0])
        BY <2>6 DEF SellBooked
      <4>2. todo' \subseteq todo
        BY <2>6 DEF SellBooked
      <4>3. 0 \in 0..Tries
        OBVIOUS
      <4> QED BY <4>1, <4>2, <4>3 DEF Shapes
    <3>3. UNCHANGED <<pos, open, lost, missed>>
      BY <2>6 DEF SellBooked
    <3> QED BY <2>3, <2>4, <3>1, <3>2, <3>3 DEF Shapes
  <2>7. CASE SellBooked(a, taken) /\ open[t] # None
    <3>1. open[t] \in 1..Len(pos) /\ pos[open[t]] \in Positions
      BY <2>2, <2>7, LenProperties DEF Referenced, Sound, Refers, Shapes
    <3>2. /\ pos' = [pos EXCEPT ![open[t]] = Reduced(pos[open[t]], taken)]
          /\ UNCHANGED <<tries, todo, lost, missed>>
      BY <2>7 DEF SellBooked
    <3>3. pos' \in Seq(Positions) /\ Len(pos') = Len(pos)
      BY <2>2, <3>1, <3>2, ReducedPosition, ObjectWritten DEF Shapes
    <3>4. open' \in [Tokens -> Nat] /\ task' \in [Agents -> Tasks]
      <4>1. open' = [open EXCEPT ![t] = IF Emptied(pos'[open[t]]) THEN None ELSE open[t]]
        BY <2>7 DEF SellBooked
      <4>2. task' = [task EXCEPT ![a] = After(a, {u \in Tokens : open'[u] # None})]
        BY <2>7 DEF SellBooked
      <4>3. open' \in [Tokens -> Nat]
        BY <4>1 DEF Shapes, None
      <4> QED BY <4>2, <4>3, AfterTask DEF Shapes
    <3> QED BY <2>3, <2>4, <3>2, <3>3, <3>4 DEF Shapes
  <2> QED BY <2>1, <2>5, <2>6, <2>7
<1>10. ASSUME NEW a \in Agents, OrderFails(a) PROVE Shapes'
  <2>1. task' \in [Agents -> Tasks]
    BY <1>10, AfterTask DEF Shapes, OrderFails, Idle, Tasks, None
  <2>2. a \in Tokens \/ task[a].at = "buying" \/ task[a].tok \in Tokens
    BY <1>10 DEF OrderFails, Referenced, Sound
  <2>3. /\ floating' \subseteq [side : {"buy", "sell"}, tok : Tokens, amt : Nat] /\ lost' \in 0..Unconfirmed
        /\ UNCHANGED missed
    <3> DEFINE given == IF task[a].at = "selling" THEN [side |-> "sell", tok |-> task[a].tok, amt |-> task[a].amt]
                        ELSE [side |-> "buy", tok |-> IF a \in Tokens THEN a ELSE task[a].tok, amt |-> Lot]
    <3>1. UNCHANGED orders \/ (lost < Unconfirmed /\ lost' = lost + 1 /\ floating' = floating \cup {given} /\ UNCHANGED missed)
      BY <1>10 DEF OrderFails
    <3>2. a \in Managers => task[a].at # "buying"
      BY DEF ManagersDoNotBuy
    <3>3. task[a].at = "selling" => task[a].tok \in Tokens
      BY DEF Referenced, Sound
    <3>4. task[a].amt \in Nat /\ Lot \in Nat
      BY DEF Shapes, Tasks
    <3>5. given \in [side : {"buy", "sell"}, tok : Tokens, amt : Nat]
      BY <2>2, <3>2, <3>3, <3>4 DEF Agents
    <3> HIDE DEF given
    <3> QED BY <3>1, <3>5 DEF Shapes, orders
  <2> QED BY <1>10, <2>1, <2>3 DEF Shapes, OrderFails, book, redecisions
<1>11. CASE Lands
  <2>1. PICK f \in floating :
          /\ floating' = floating \ {f}
          /\ \/ wallet' = [wallet EXCEPT ![f.tok] = @ + f.amt] /\ UNCHANGED missed
             \/ /\ wallet[f.tok] >= f.amt /\ wallet' = [wallet EXCEPT ![f.tok] = @ - f.amt]
                /\ missed' = [missed EXCEPT ![f.tok] = @ + f.amt]
             \/ UNCHANGED <<wallet, missed>>
    BY <1>11 DEF Lands
  <2>2. f.tok \in Tokens /\ f.amt \in Nat /\ wallet[f.tok] \in Nat
    BY DEF Shapes
  <2>3. wallet' \in [Tokens -> Nat] /\ missed' \in [Tokens -> Nat]
    <3>1. wallet \in [Tokens -> Nat] /\ missed \in [Tokens -> Nat]
      BY DEF Shapes
    <3>2. wallet[f.tok] + f.amt \in Nat /\ missed[f.tok] + f.amt \in Nat
      BY <2>2, <3>1
    <3>3. wallet[f.tok] >= f.amt => wallet[f.tok] - f.amt \in Nat
      BY <2>2
    <3> QED BY <2>1, <3>1, <3>2, <3>3
  <2> QED BY <1>11, <2>1, <2>3 DEF Shapes, Lands, redecisions
<1>12. ASSUME NEW t \in Tokens, Dispatch(t) \/ PipelineEnds(t) \/ Fund(t) PROVE Shapes'
  <2>1. task' \in [Agents -> Tasks]
    <3>1. task' = [task EXCEPT ![t] = Idle] \/ \E x \in {"check", "buying"} : task' = [task EXCEPT ![t] = [Idle EXCEPT !.at = x]]
      BY <1>12 DEF Dispatch, PipelineEnds, Fund
    <3>2. \A x \in Tasks : [task EXCEPT ![t] = x] \in [Agents -> Tasks]
      BY DEF Shapes
    <3> QED BY <3>1, <3>2, IdleTask, IdleBut
  <2>2. tries' \in [Tokens -> 0..Tries]
    <3>1. 0 \in 0..Tries /\ Tries \in 0..Tries
      OBVIOUS
    <3> QED BY <1>12, <3>1 DEF Shapes, Dispatch, PipelineEnds, Fund
  <2> QED BY <1>12, <2>1, <2>2 DEF Shapes, Dispatch, PipelineEnds, Fund, book, redecisions, orders
<1>13. ASSUME NEW t \in Tokens, Evaluate(t) PROVE Shapes'
  <2>1. ASSUME NEW u \in OpenTokens, BeginSell(t, u, open[u], TRUE) PROVE task' \in [Agents -> Tasks]
    <3>1. u \in Tokens /\ open[u] \in Nat /\ pos[open[u]] \in Positions
      BY LenProperties DEF OpenTokens, Referenced, Sound, Refers, Shapes
    <3>2. Part(pos[open[u]].size, TRUE) \in Nat
      BY <3>1 DEF Part, Positions
    <3> QED BY <2>1, <3>1, <3>2, IdleTask DEF Shapes, BeginSell, Tasks, Positions
  <2>2. task' \in [Agents -> Tasks]
    <3>1. CASE UNCHANGED task
      BY <3>1 DEF Shapes
    <3>2. CASE task' = [task EXCEPT ![t] = [Idle EXCEPT !.at = "buying"]]
      BY <3>2, IdleBut DEF Shapes
    <3> QED BY <1>13, <2>1, <3>1, <3>2 DEF Evaluate
  <2>3. tries' \in [Tokens -> 0..Tries]
    BY <1>13 DEF Shapes, Evaluate
  <2> QED BY <1>13, <2>2, <2>3 DEF Shapes, Evaluate, book, redecisions, orders
<1>14. ASSUME NEW t \in Tokens, BuyFilled(t) PROVE Shapes'
  <2>1. task' \in [Agents -> Tasks]
    <3>1. task' = [task EXCEPT ![t] = Idle] \/ task' = [task EXCEPT ![t] = [Idle EXCEPT !.at = "check"]]
      BY <1>14 DEF BuyFilled, BuyBooked, BuyBlocked
    <3>2. \A x \in Tasks : [task EXCEPT ![t] = x] \in [Agents -> Tasks]
      BY DEF Shapes
    <3> QED BY <3>1, <3>2, IdleTask, IdleBut
  <2>2. pos' \in Seq(Positions) /\ Len(pos') <= MaxPos /\ open' \in [Tokens -> Nat]
    <3>1. CASE UNCHANGED <<pos, open>>
      BY <3>1 DEF Shapes
    <3>2. CASE BuyBooked(t) /\ t \notin OpenTokens
      <4>1. [tok |-> t, size |-> Lot, added |-> FALSE] \in Positions
        BY DEF Positions
      <4>2. pos' = Append(pos, [tok |-> t, size |-> Lot, added |-> FALSE]) /\ Len(pos) < MaxPos
            /\ open' = [open EXCEPT ![t] = Len(pos) + 1]
        BY <1>14, <3>2 DEF BuyFilled, BuyBooked
      <4>3. Len(pos) \in Nat /\ pos \in Seq(Positions) /\ open \in [Tokens -> Nat]
        BY LenProperties DEF Shapes
      <4> HIDE BookConstants
      <4>4. MaxPos \in Nat
        BY BookConstants
      <4> QED BY <4>1, <4>2, <4>3, <4>4, AppendProperties
    <3> QED BY <1>14, <3>1, <3>2 DEF BuyFilled, BuyBooked, BuyBlocked
  <2>3. wallet' \in [Tokens -> Nat] /\ tries' \in [Tokens -> 0..Tries]
    <3>1. 0 \in 0..Tries
      OBVIOUS
    <3>2. tries' = tries \/ tries' = [tries EXCEPT ![t] = 0]
      BY <1>14 DEF BuyFilled, BuyBooked, BuyBlocked
    <3>3. wallet' = [wallet EXCEPT ![t] = @ + Lot]
      BY <1>14 DEF BuyFilled
    <3>4. wallet \in [Tokens -> Nat] /\ tries \in [Tokens -> 0..Tries] /\ Lot \in Nat
      BY DEF Shapes
    <3>5. wallet' \in [Tokens -> Nat]
      BY <3>3, <3>4
    <3> QED BY <3>1, <3>2, <3>4, <3>5
  <2>4. unseen' \subseteq Tokens /\ unbooked' \in BOOLEAN
    BY <1>14 DEF Shapes, BuyFilled, BuyBooked, BuyBlocked
  <2>5. lost' \in 0..Unconfirmed
    BY <1>14 DEF Shapes, BuyFilled, BuyBooked, BuyBlocked, Unproven
  <2> QED BY <1>14, <2>1, <2>2, <2>3, <2>4, <2>5 DEF Shapes, BuyFilled
<1> QED BY <1>0, <1>1, <1>2, <1>3, <1>4, <1>5, <1>6, <1>7, <1>8, <1>9, <1>10, <1>11, <1>12, <1>13, <1>14
        DEF Next, Manage

\* Objects are only ever added, and keep their token.
Kept == Len(pos') >= Len(pos) /\ \A i \in 1..Len(pos) : pos'[i].tok = pos[i].tok

LEMMA RefersKept ==
    ASSUME Shapes, Shapes', Kept, NEW o, NEW t, Refers(o, t) PROVE Refers(o, t)'
  BY LenProperties DEF Shapes, Kept, Refers

LEMMA SoundKept ==
    ASSUME Shapes, Shapes', Kept, NEW k \in Tasks, Sound(k)
    PROVE  /\ k.at \in {"decide", "selling", "adding"} => k.tok \in Tokens /\ Refers(k.obj, k.tok)'
           /\ k.obj <= Len(pos') /\ k.amt <= k.cur
<1>1. Len(pos) \in Nat /\ Len(pos') \in Nat
  BY LenProperties DEF Shapes
<1> QED BY <1>1, RefersKept DEF Sound, Kept, Tasks

\* A step that keeps the objects, and adds only good references, keeps them all good.
LEMMA ReferencedKept ==
    ASSUME Shapes, Shapes', Referenced, Kept,
           \A t \in Tokens : open'[t] = open[t] \/ open'[t] = None \/ Refers(open[t], t)',
           \A a \in Agents : task'[a] = task[a] \/ Sound(task[a])',
           \A next \in todo' : next \in todo \/ Refers(next[2], next[1])'
    PROVE  Referenced'
<1>1. ASSUME NEW t \in Tokens, open'[t] # None PROVE Refers(open[t], t)'
  BY <1>1, RefersKept DEF Referenced, Refers
<1>2. ASSUME NEW a \in Agents PROVE Sound(task[a])'
  <2>1. task[a] \in Tasks /\ Sound(task[a])
    BY DEF Shapes, Referenced
  <2>2. CASE task'[a] = task[a]
    BY <2>1, <2>2, SoundKept DEF Sound, Refers
  <2> QED BY <2>2
<1>3. ASSUME NEW next \in todo' PROVE Refers(next[2], next[1])'
  BY RefersKept DEF Referenced, Refers
<1> QED BY <1>1, <1>2, <1>3 DEF Referenced

\* A task without an object is sound.
LEMMA SoundWithout ==
    ASSUME Shapes, NEW k \in Tasks, k.at \in {"idle", "check", "room", "buying"},
           k.obj = 0, k.amt = 0, k.cur = 0
    PROVE  Sound(k)
  BY LenProperties DEF Shapes, Sound

\* _execute_exit starts from an object in the book or in hand, and offers at most its size.
LEMMA SoundSell ==
    ASSUME Shapes, NEW a \in Agents, NEW t \in Tokens, NEW o, Refers(o, t), NEW full \in BOOLEAN,
           BeginSell(a, t, o, full), UNCHANGED pos
    PROVE  Sound(task'[a])
<1>1. pos[o].size \in Nat /\ o \in Nat /\ o <= Len(pos)
  <2>1. pos[o] \in Positions /\ o \in Nat /\ o <= Len(pos)
    BY LenProperties DEF Shapes, Refers
  <2> QED BY <2>1 DEF Positions
<1> DEFINE cur == pos[o].size
           amt == Part(cur, full)
<1>2. amt \in 0..cur
  BY <1>1, PartBounds
<1>3. CASE cur = 0
  <2>1. task'[a] = Idle
    BY <1>3 DEF BeginSell, Shapes
  <2> QED BY <2>1, IdleTask, SoundWithout
<1>4. CASE cur # 0
  <2>1. task'[a] = [at |-> "selling", tok |-> t, obj |-> o, cur |-> cur, amt |-> amt]
    BY <1>4 DEF BeginSell, Shapes
  <2> HIDE DEF amt, cur
  <2>2. amt <= cur
    BY <1>2
  <2> QED BY <1>1, <2>1, <2>2 DEF Sound
<1> QED BY <1>3, <1>4

LEMMA ReferencedStep ==
    Shapes /\ Shapes' /\ Referenced /\ ManagersDoNotBuy /\ [Next]_bvars => Referenced' /\ ManagersDoNotBuy' /\ Kept
<1> SUFFICES ASSUME Shapes, Shapes', Referenced, ManagersDoNotBuy, [Next]_bvars
             PROVE  Referenced' /\ ManagersDoNotBuy' /\ Kept
  OBVIOUS
<1> USE WhoAreAgents, BookConstants
<1>a. Len(pos) \in Nat /\ (UNCHANGED pos => Kept)
  BY LenProperties DEF Shapes, Kept
<1>n. Len(pos') \in Nat
  <2>1. pos' \in Seq(Positions)
    BY DEF Shapes
  <2> QED BY <2>1, LenProperties
\* A step of one agent that leaves the book and the sweep's list alone.
<1>b. ASSUME NEW a \in Agents, UNCHANGED <<pos, open, todo>>, NEW k, task' = [task EXCEPT ![a] = k],
             Sound(k), a \in Managers => k.at \in {"idle", "decide", "selling", "adding"}
      PROVE  Referenced' /\ ManagersDoNotBuy' /\ Kept
  <2>1. \A b \in Agents : task'[b] = task[b] \/ Sound(task[b])'
    BY <1>b DEF Shapes, Sound, Refers
  <2>2. ManagersDoNotBuy'
    BY <1>b DEF Shapes, ManagersDoNotBuy
  <2> QED BY <1>a, <1>b, <2>1, <2>2, ReferencedKept
<1>0. CASE UNCHANGED bvars
  BY <1>0, <1>a, ReferencedKept DEF bvars, ManagersDoNotBuy
<1>1. ASSUME NEW t \in Tokens, RequestRedecision(t) PROVE Referenced' /\ ManagersDoNotBuy' /\ Kept
  BY <1>1, <1>a, ReferencedKept DEF RequestRedecision, book, ManagersDoNotBuy
<1>2. ASSUME NEW w \in Workers, WorkerTake(w) PROVE Referenced' /\ ManagersDoNotBuy' /\ Kept
  <2> DEFINE t == Head(queue)
             k == [at |-> "decide", tok |-> t, obj |-> open[t], cur |-> 0, amt |-> 0]
  <2>1. UNCHANGED <<pos, open, todo>>
    BY <1>2 DEF WorkerTake, book
  <2>2. CASE t \in OpenTokens
    <3>1. task' = [task EXCEPT ![w] = k]
      BY <1>2, <2>2 DEF WorkerTake
    <3>2. t \in Tokens /\ Refers(open[t], t)
      BY <2>2 DEF OpenTokens, Referenced
    <3>3. Sound(k)
      BY <1>a, <3>2 DEF Sound, Refers
    <3> QED BY <1>b, <2>1, <3>1, <3>3
  <2>3. CASE t \notin OpenTokens
    BY <1>2, <1>a, <2>1, <2>3, ReferencedKept DEF WorkerTake, ManagersDoNotBuy
  <2> QED BY <2>2, <2>3
<1>3. CASE SweepBegin
  <2>1. \A next \in todo' : Refers(next[2], next[1])'
    BY <1>3 DEF SweepBegin, book, OpenTokens, Referenced, Refers
  <2> QED BY <1>3, <1>a, <2>1, ReferencedKept DEF SweepBegin, book, ManagersDoNotBuy
<1>4. CASE SweepNext
  <2>1. PICK next \in todo :
          /\ todo' = todo \ {next}
          /\ task' = [task EXCEPT ![Sweep] = [at |-> "decide", tok |-> next[1], obj |-> next[2], cur |-> 0, amt |-> 0]]
    BY <1>4 DEF SweepNext
  <2>2. UNCHANGED <<pos, open>>
    BY <1>4 DEF SweepNext, book
  <2>3. next[1] \in Tokens /\ Refers(next[2], next[1])'
    BY <2>2 DEF Shapes, Referenced, Refers
  <2>4. Sound(task[Sweep])' /\ task'[Sweep].at = "decide"
    BY <1>a, <2>1, <2>2, <2>3 DEF Shapes, Sound, Refers
  <2>5. \A a \in Agents : task'[a] = task[a] \/ Sound(task[a])'
    BY <2>1, <2>4 DEF Shapes
  <2>6. ManagersDoNotBuy'
    BY <2>1, <2>4 DEF Shapes, ManagersDoNotBuy
  <2> QED BY <1>a, <2>1, <2>2, <2>5, <2>6, ReferencedKept
<1>5. ASSUME NEW m \in Managers, Hold(m) PROVE Referenced' /\ ManagersDoNotBuy' /\ Kept
  <2>1. Sound(Idle)
    BY IdleTask, SoundWithout
  <2> QED BY <1>5, <1>b, <2>1, IdleTask DEF Hold, book
<1>6. ASSUME NEW m \in Managers, Sell(m) PROVE Referenced' /\ ManagersDoNotBuy' /\ Kept
  <2>1. PICK full \in BOOLEAN : BeginSell(m, task[m].tok, task[m].obj, full)
    BY <1>6 DEF Sell
  <2>2. UNCHANGED <<pos, open, todo>>
    BY <1>6 DEF Sell, book
  <2>3. task[m].tok \in Tokens /\ Refers(task[m].obj, task[m].tok)
    BY <1>6 DEF Sell, Referenced, Sound
  <2>4. Sound(task'[m])
    BY <2>1, <2>2, <2>3, SoundSell
  <2>5. PICK k \in {Idle, [at |-> "selling", tok |-> task[m].tok, obj |-> task[m].obj, cur |-> pos[task[m].obj].size,
                          amt |-> Part(pos[task[m].obj].size, full)]} : task' = [task EXCEPT ![m] = k]
    BY <2>1 DEF BeginSell
  <2>6. k.at \in {"idle", "selling"} /\ Sound(k)
    BY <2>4, <2>5, IdleTask DEF Shapes
  <2> QED BY <1>b, <2>2, <2>5, <2>6
<1>7. ASSUME NEW m \in Managers, Add(m) PROVE Referenced' /\ ManagersDoNotBuy' /\ Kept
  <2> DEFINE k == [task[m] EXCEPT !.at = "adding"]
  <2>1. task[m] \in Tasks /\ Sound(task[m]) /\ task[m].at = "decide"
    BY <1>7 DEF Add, Shapes, Referenced
  <2>2. Sound(k) /\ k.at = "adding"
    BY <2>1 DEF Sound, Tasks
  <2>3. task' = [task EXCEPT ![m] = k]
    BY <1>7 DEF Add
  <2> QED BY <1>7, <1>b, <2>2, <2>3 DEF Add, book
<1>8. ASSUME NEW m \in Managers, AddFilled(m) PROVE Referenced' /\ ManagersDoNotBuy' /\ Kept
  <2> DEFINE o == task[m].obj
             p == [pos[o] EXCEPT !.size = @ + Lot, !.added = TRUE]
  <2>1. o \in 1..Len(pos) /\ pos[o] \in Positions
    <3>1. o \in 1..Len(pos)
      BY <1>8 DEF AddFilled, Referenced, Sound, Refers
    <3> QED BY <3>1, ObjectTyped
  <2>2. UNCHANGED pos \/ pos' = [pos EXCEPT ![o] = p]
    <3>1. UNCHANGED pos \/ pos' = [pos EXCEPT ![o].size = @ + Lot, ![o].added = TRUE]
      BY <1>8 DEF AddFilled
    <3>2. pos \in Seq(Positions)
      BY DEF Shapes
    <3> QED BY <2>1, <3>1, <3>2, LenProperties DEF Positions
  <2>3. p.tok = pos[o].tok
    BY <2>1, GrownPosition
  <2> HIDE DEF p
  <2>4. ASSUME pos' = [pos EXCEPT ![o] = p]
        PROVE  Len(pos') = Len(pos) /\ \A i \in 1..Len(pos) : pos'[i] = IF i = o THEN p ELSE pos[i]
    BY <2>1, <2>4, LenProperties DEF Shapes
  <2>5. Kept
    BY <1>a, <2>2, <2>3, <2>4 DEF Kept
  <2>6. Sound(Idle)'
    BY IdleTask, SoundWithout, LenProperties DEF Shapes, Sound
  <2>7. \A a \in Agents : task'[a] = task[a] \/ Sound(task[a])'
    BY <1>8, <2>6 DEF AddFilled, Shapes, Sound, Refers
  <2>8. ManagersDoNotBuy'
    BY <1>8, IdleTask DEF AddFilled, Shapes, ManagersDoNotBuy
  <2> QED BY <1>8, <2>5, <2>7, <2>8, ReferencedKept DEF AddFilled
<1>9. ASSUME NEW a \in Agents, SellFilled(a) PROVE Referenced' /\ ManagersDoNotBuy' /\ Kept
  <2> DEFINE t == task[a].tok
  <2>1. PICK taken \in 0..wallet[t] : SellBooked(a, taken) \/ SellBlocked(a, taken)
    BY <1>9 DEF SellFilled
  <2>2. t \in Tokens /\ taken \in Nat
    BY <1>9 DEF SellFilled, Referenced, Sound, Shapes
  <2>3. PICK k \in Tasks : /\ task' = [task EXCEPT ![a] = k] /\ k.at \in {"idle", "check", "room"}
                          /\ k.obj = 0 /\ k.amt = 0 /\ k.cur = 0 /\ (a \in Managers => k.at = "idle")
    <3>1. \/ task' = [task EXCEPT ![a] = Idle] \/ task' = [task EXCEPT ![a] = After(a, OpenTokens)]
          \/ task' = [task EXCEPT ![a] = After(a, {u \in Tokens : open'[u] # None})]
      BY <2>1 DEF SellBooked, SellBlocked
    <3> QED BY <3>1, IdleTask, AfterTask
  <2>4. \A b \in Agents : task'[b] = task[b] \/ Sound(task[b])'
    <3>1. Len(pos') \in Nat
      BY <1>n
    <3>2. Sound(k)'
      BY <2>3, <3>1 DEF Sound
    <3>3. \A b \in Agents : task'[b] = IF b = a THEN k ELSE task[b]
      BY <2>3 DEF Shapes
    <3> QED BY <3>2, <3>3
  <2>5. ManagersDoNotBuy'
    BY <2>3 DEF Shapes, ManagersDoNotBuy
  <2>6. Kept /\ \A u \in Tokens : open'[u] = open[u] \/ open'[u] = None
    <3>1. CASE UNCHANGED <<pos, open>>
      BY <1>a, <3>1
    <3>2. CASE SellBooked(a, taken) /\ open[t] # None
      <4>1. open[t] \in 1..Len(pos) /\ pos[open[t]] \in Positions
        <5>1. open[t] \in 1..Len(pos)
          BY <2>2, <3>2 DEF Referenced, Refers
        <5> QED BY <5>1, ObjectTyped
      <4>2. pos' = [pos EXCEPT ![open[t]] = Reduced(pos[open[t]], taken)]
        BY <3>2 DEF SellBooked
      <4>3. Reduced(pos[open[t]], taken).tok = pos[open[t]].tok
        BY <2>2, <4>1, ReducedPosition
      <4>4. Len(pos') = Len(pos)
            /\ \A i \in 1..Len(pos) : pos'[i] = IF i = open[t] THEN Reduced(pos[open[t]], taken) ELSE pos[i]
        <5>1. pos \in Seq(Positions)
          BY DEF Shapes
        <5> QED BY <4>1, <4>2, <5>1, LenProperties
      <4>5. Kept
        BY <1>a, <4>3, <4>4 DEF Kept
      <4> QED BY <3>2, <4>5 DEF SellBooked, Shapes
    <3> QED BY <2>1, <3>1, <3>2 DEF SellBooked, SellBlocked
  <2>7. todo' \subseteq todo
    BY <2>1 DEF SellBooked, SellBlocked
  <2> QED BY <2>4, <2>5, <2>6, <2>7, ReferencedKept
<1>10. ASSUME NEW a \in Agents, OrderFails(a) PROVE Referenced' /\ ManagersDoNotBuy' /\ Kept
  <2>1. PICK k \in Tasks : /\ task' = [task EXCEPT ![a] = k] /\ k.at \in {"idle", "check", "room"}
                          /\ k.obj = 0 /\ k.amt = 0 /\ k.cur = 0 /\ (a \in Managers => k.at = "idle")
    <3>1. CASE task[a].at = "buying"
      BY <1>10, <3>1, IdleBut DEF OrderFails, ManagersDoNotBuy
    <3>2. CASE task[a].at # "buying"
      <4>1. task' = [task EXCEPT ![a] = After(a, OpenTokens)]
        BY <1>10, <3>2 DEF OrderFails
      <4> QED BY <4>1, AfterTask
    <3> QED BY <3>1, <3>2
  <2>2. Sound(k)
    BY <2>1, SoundWithout
  <2> QED BY <1>10, <1>b, <2>1, <2>2 DEF OrderFails, book
<1>11. CASE Lands
  BY <1>11, <1>a, ReferencedKept DEF Lands, ManagersDoNotBuy
<1>12. ASSUME NEW t \in Tokens, Dispatch(t) \/ PipelineEnds(t) \/ Fund(t) PROVE Referenced' /\ ManagersDoNotBuy' /\ Kept
  <2>1. task' = [task EXCEPT ![t] = Idle] \/ \E x \in {"check", "buying"} : task' = [task EXCEPT ![t] = [Idle EXCEPT !.at = x]]
    BY <1>12 DEF Dispatch, PipelineEnds, Fund
  <2>2. Sound(Idle) /\ \A x \in {"check", "buying"} : Sound([Idle EXCEPT !.at = x])
    BY IdleTask, IdleBut, SoundWithout
  <2>3. UNCHANGED <<pos, open, todo>>
    BY <1>12 DEF Dispatch, PipelineEnds, Fund, book
  <2>4. t \notin Managers
    OBVIOUS
  <2> QED BY <1>b, <2>1, <2>2, <2>3, <2>4
<1>13. ASSUME NEW t \in Tokens, Evaluate(t) PROVE Referenced' /\ ManagersDoNotBuy' /\ Kept
  <2>1. UNCHANGED <<pos, open, todo>> /\ t \notin Managers
    BY <1>13 DEF Evaluate, book
  <2>2. CASE UNCHANGED task
    BY <1>a, <2>1, <2>2, ReferencedKept DEF ManagersDoNotBuy
  <2>3. CASE task' = [task EXCEPT ![t] = [Idle EXCEPT !.at = "buying"]]
    <3>1. Sound([Idle EXCEPT !.at = "buying"])
      BY IdleBut, SoundWithout
    <3> QED BY <1>b, <2>1, <2>3, <3>1
  <2>4. ASSUME NEW u \in OpenTokens, BeginSell(t, u, open[u], TRUE) PROVE Referenced' /\ ManagersDoNotBuy' /\ Kept
    <3>1. u \in Tokens /\ Refers(open[u], u)
      BY DEF OpenTokens, Referenced
    <3>2. Sound(task'[t])
      BY <2>1, <2>4, <3>1, SoundSell, TRUE \in BOOLEAN
    <3>3. \A b \in Agents : task'[b] = task[b] \/ Sound(task[b])'
      BY <2>1, <2>4, <3>2 DEF BeginSell, Shapes, Sound, Refers
    <3>4. ManagersDoNotBuy'
      BY <2>1, <2>4 DEF BeginSell, Shapes, ManagersDoNotBuy
    <3> QED BY <1>a, <2>1, <3>3, <3>4, ReferencedKept
  <2> QED BY <1>13, <2>2, <2>3, <2>4 DEF Evaluate
<1>14. ASSUME NEW t \in Tokens, BuyFilled(t) PROVE Referenced' /\ ManagersDoNotBuy' /\ Kept
  <2>1. CASE BuyBlocked(t) \/ (BuyBooked(t) /\ t \in OpenTokens)
    <3>1. Sound(Idle) /\ Sound([Idle EXCEPT !.at = "check"]) /\ t \notin Managers
      BY IdleTask, IdleBut, SoundWithout
    <3>2. UNCHANGED <<pos, open, todo>>
      BY <1>14, <2>1 DEF BuyFilled, BuyBlocked, BuyBooked
    <3>3. PICK k \in {Idle, [Idle EXCEPT !.at = "check"]} : task' = [task EXCEPT ![t] = k]
      BY <2>1 DEF BuyBlocked, BuyBooked
    <3> QED BY <1>b, <3>1, <3>2, <3>3
  <2>2. CASE BuyBooked(t) /\ t \notin OpenTokens
    <3> DEFINE p == [tok |-> t, size |-> Lot, added |-> FALSE]
    <3>1. /\ pos' = Append(pos, p) /\ open' = [open EXCEPT ![t] = Len(pos) + 1] /\ UNCHANGED todo
          /\ task' = [task EXCEPT ![t] = [Idle EXCEPT !.at = "check"]]
      BY <1>14, <2>2 DEF BuyFilled, BuyBooked
    <3>2. p \in Positions
      BY DEF Positions
    <3>3. /\ Len(pos') = Len(pos) + 1 /\ pos'[Len(pos) + 1] = p
          /\ \A i \in 1..Len(pos) : pos'[i] = pos[i]
      BY <3>1, <3>2, AppendProperties DEF Shapes
    <3>4. Kept
      BY <1>a, <3>3 DEF Kept
    <3>5. \A u \in Tokens : open'[u] = open[u] \/ Refers(open[u], u)'
      <4>1. open \in [Tokens -> Nat] /\ p.tok = t
        BY DEF Shapes
      <4>2. open'[t] = Len(pos) + 1 /\ \A u \in Tokens \ {t} : open'[u] = open[u]
        BY <3>1, <4>1
      <4>3. Refers(open[t], t)'
        BY <1>a, <3>3, <4>1, <4>2 DEF Refers
      <4> QED BY <4>2, <4>3
    <3>6. Sound([Idle EXCEPT !.at = "check"])'
      <4>1. Len(pos') \in Nat
        BY LenProperties DEF Shapes
      <4>2. "check" \in {"check", "room", "buying"}
        OBVIOUS
      <4> QED BY <4>1, <4>2, IdleBut DEF Sound
    <3>7. \A b \in Agents : task'[b] = task[b] \/ Sound(task[b])'
      BY <3>1, <3>6 DEF Shapes, Sound, Refers
    <3>8. ManagersDoNotBuy'
      BY <3>1 DEF Shapes, ManagersDoNotBuy
    <3> QED BY <3>1, <3>4, <3>5, <3>7, <3>8, ReferencedKept
  <2> QED BY <1>14, <2>1, <2>2 DEF BuyFilled
<1> QED BY <1>0, <1>1, <1>2, <1>3, <1>4, <1>5, <1>6, <1>7, <1>8, <1>9, <1>10, <1>11, <1>12, <1>13, <1>14
        DEF Next, Manage

Book == Shapes /\ Referenced /\ ManagersDoNotBuy

LEMMA BookInit == Init => Book
<1> SUFFICES ASSUME Init PROVE Book
  OBVIOUS
<1> USE BookConstants
<1>1. Shapes
  <2>1. pos \in Seq(Positions) /\ Len(pos) = 0 /\ queue \in Seq(Tokens) /\ Len(queue) = 0
    BY EmptySeq DEF Init
  <2>2. open \in [Tokens -> Nat] /\ wallet \in [Tokens -> Nat] /\ tries \in [Tokens -> 0..Tries]
    BY DEF Init, None
  <2>6. missed \in [Tokens -> Nat]
    BY DEF Init
  <2>3. task \in [Agents -> Tasks]
    BY IdleTask DEF Init
  <2>4. Len(pos) <= MaxPos /\ Len(queue) <= QueueSize /\ lost \in 0..Unconfirmed
    BY <2>1 DEF Init
  <2>5. /\ pending = {} /\ unseen = {} /\ todo = {} /\ floating = {} /\ unbooked \in BOOLEAN
    BY DEF Init
  <2> QED BY <2>1, <2>2, <2>3, <2>4, <2>5, <2>6 DEF Shapes
<1>2. Referenced
  BY IdleTask, EmptySeq DEF Init, Referenced, Sound, None
<1>3. ManagersDoNotBuy
  BY IdleTask, WhoAreAgents DEF Init, ManagersDoNotBuy
<1> QED BY <1>1, <1>2, <1>3 DEF Book

LEMMA BookStep == Book /\ [Next]_bvars => Book' /\ Kept
  BY ShapesStep, ReferencedStep DEF Book

LEMMA BookInvariant == Spec => []Book
  BY BookInit, BookStep, PTL DEF Spec

\* Every variable keeps its type, and every reference to a position leads to an object that
\* exists: what open_positions holds and what a coroutine kept over its await.
THEOREM TypeCorrect == Spec => []TypeOK
<1>1. Book => TypeOK
  <2> SUFFICES ASSUME Book PROVE TypeOK
    OBVIOUS
  <2>1. Len(pos) \in Nat
    BY LenProperties DEF Book, Shapes
  <2>2. \A t \in Tokens : open[t] \in 0..Len(pos)
    BY <2>1 DEF Book, Shapes, Referenced, Refers, None
  <2>3. ASSUME NEW a \in Agents
        PROVE  /\ task[a].at \in {"idle", "decide", "selling", "adding", "check", "room", "buying"}
               /\ task[a].obj \in 0..Len(pos) /\ task[a].cur \in Nat /\ task[a].amt \in 0..task[a].cur
    <3>1. task[a] \in Tasks /\ Sound(task[a])
      BY DEF Book, Shapes, Referenced
    <3> QED BY <2>1, <3>1 DEF Tasks, Sound
  <2>4. todo \subseteq Tokens \X Objs
    BY <2>1, BookConstants DEF Book, Shapes, Referenced, Refers, Objs
  <2>5. \A t \in Tokens : wallet[t] \in Nat /\ missed[t] \in Nat /\ tries[t] \in 0..Tries
    BY DEF Book, Shapes
  <2> QED BY <2>2, <2>3, <2>4, <2>5 DEF Book, Shapes, TypeOK
<1> QED BY <1>1, BookInvariant, PTL

-----------------------------------------------------------------------------
(***************************************************************************)
(* Entries.                                                                *)
(***************************************************************************)

LEMMA BoughtStep == Book /\ Book' /\ NotYetBought /\ ~unbooked /\ [Next]_bvars => NotYetBought' /\ ~unbooked'
<1> SUFFICES ASSUME Book, Book', NotYetBought, ~unbooked, [Next]_bvars PROVE NotYetBought' /\ ~unbooked'
  OBVIOUS
<1> USE WhoAreAgents, BookConstants
<1>a. task \in [Agents -> Tasks] /\ open \in [Tokens -> Nat]
  BY DEF Book, Shapes
<1>0. CASE UNCHANGED bvars
  BY <1>0 DEF bvars, NotYetBought
<1>1. ASSUME NEW t \in Tokens, RequestRedecision(t) PROVE NotYetBought' /\ ~unbooked'
  BY <1>1 DEF RequestRedecision, book, NotYetBought
<1>2. ASSUME NEW w \in Workers, WorkerTake(w) PROVE NotYetBought' /\ ~unbooked'
  BY <1>2, <1>a DEF WorkerTake, book, NotYetBought
<1>3. CASE SweepBegin
  BY <1>3 DEF SweepBegin, book, NotYetBought
<1>4. CASE SweepNext
  BY <1>4, <1>a DEF SweepNext, book, NotYetBought
<1>5. ASSUME NEW m \in Managers, Hold(m) \/ Sell(m) \/ Add(m) \/ AddFilled(m) PROVE NotYetBought' /\ ~unbooked'
  BY <1>5, <1>a DEF Hold, Sell, BeginSell, Add, AddFilled, book, NotYetBought
<1>6. ASSUME NEW a \in Agents, SellFilled(a) PROVE NotYetBought' /\ ~unbooked'
  <2>1. \A u \in Tokens : open'[u] = open[u] \/ open'[u] = None
    BY <1>6, <1>a DEF SellFilled, SellBooked, SellBlocked
  <2>2. \A u \in Tokens \ {a} : task'[u] = task[u]
    BY <1>6, <1>a DEF SellFilled, SellBooked, SellBlocked
  <2>3. task[a].at = "selling" /\ ~unbooked'
    BY <1>6 DEF SellFilled
  <2> QED BY <2>1, <2>2, <2>3 DEF NotYetBought
<1>7. ASSUME NEW a \in Agents, OrderFails(a) PROVE NotYetBought' /\ ~unbooked'
  <2>1. UNCHANGED open /\ ~unbooked'
    BY <1>7 DEF OrderFails, book
  <2>2. \A u \in Tokens \ {a} : task'[u] = task[u]
    BY <1>7, <1>a DEF OrderFails
  <2>3. a \in Tokens => open[a] = None
    BY <1>7 DEF OrderFails, NotYetBought
  <2> QED BY <2>1, <2>2, <2>3 DEF NotYetBought
<1>8. CASE Lands
  BY <1>8 DEF Lands, NotYetBought
<1>9. ASSUME NEW t \in Tokens, Dispatch(t) \/ PipelineEnds(t) PROVE NotYetBought' /\ ~unbooked'
  <2>1. task'[t].at \in {"idle", "check"}
    BY <1>9, <1>a, IdleTask, IdleBut DEF Dispatch, PipelineEnds
  <2>2. \A u \in Tokens \ {t} : task'[u] = task[u]
    BY <1>9, <1>a DEF Dispatch, PipelineEnds
  <2>3. UNCHANGED <<open, unbooked>>
    BY <1>9 DEF Dispatch, PipelineEnds, book
  <2> QED BY <2>1, <2>2, <2>3 DEF NotYetBought
<1>10. ASSUME NEW t \in Tokens, Evaluate(t) PROVE NotYetBought' /\ ~unbooked'
  BY <1>10, <1>a DEF Evaluate, BeginSell, OpenTokens, book, NotYetBought
<1>11. ASSUME NEW t \in Tokens, Fund(t) PROVE NotYetBought' /\ ~unbooked'
  BY <1>11, <1>a DEF Fund, book, NotYetBought
<1>12. ASSUME NEW t \in Tokens, BuyFilled(t) PROVE NotYetBought' /\ ~unbooked'
  <2>1. t \notin OpenTokens
    BY <1>12 DEF BuyFilled, NotYetBought, OpenTokens
  <2>2. task' = [task EXCEPT ![t] = [Idle EXCEPT !.at = "check"]] /\ ~unbooked'
    BY <1>12, <2>1 DEF BuyFilled, BuyBooked, BuyBlocked
  <2>3. \A u \in Tokens \ {t} : open'[u] = open[u]
    BY <1>12, <1>a, <2>1 DEF BuyFilled, BuyBooked, BuyBlocked
  <2>4. task'[t].at = "check" /\ \A u \in Tokens \ {t} : task'[u] = task[u]
    BY <1>a, <2>2, IdleBut
  <2> QED BY <2>2, <2>3, <2>4 DEF NotYetBought
<1> QED BY <1>0, <1>1, <1>2, <1>3, <1>4, <1>5, <1>6, <1>7, <1>8, <1>9, <1>10, <1>11, <1>12 DEF Next, Manage

\* A buy whose cost the wallet proves finds its place in the book free when it fills, so
\* update_position never raises, whatever filled unseen or was sold meanwhile, for any number of pipelines, workers and contests.
THEOREM EveryEntryIsBooked == Spec => []EntriesBooked
<1>1. Init => NotYetBought /\ ~unbooked
  BY IdleTask, WhoAreAgents DEF Init, NotYetBought
<1>2. Book /\ Book' /\ NotYetBought /\ ~unbooked /\ [Next]_bvars => NotYetBought' /\ ~unbooked'
  BY BoughtStep
<1>3. ~unbooked => EntriesBooked
  BY DEF EntriesBooked
<1> QED BY <1>1, <1>2, <1>3, BookInvariant, PTL DEF Spec

-----------------------------------------------------------------------------
(***************************************************************************)
(* Redecisions.                                                            *)
(***************************************************************************)

\* The trades no decision has started after, as far as their tokens are held.
UnseenIsPending == unseen \cap OpenTokens \subseteq pending

Redecided == QueueIsPending /\ UnseenIsPending

LEMMA RedecidedStep == Book /\ Book' /\ Redecided /\ [Next]_bvars => Redecided'
<1> SUFFICES ASSUME Book, Book', Redecided, [Next]_bvars PROVE Redecided'
  OBVIOUS
<1>a. open \in [Tokens -> Nat] /\ queue \in Seq(Tokens) /\ Len(queue) \in Nat
  BY LenProperties DEF Book, Shapes
\* A step that leaves the redecisions alone and opens nothing.
<1>b. ASSUME UNCHANGED redecisions, \A t \in Tokens : open'[t] # None => open[t] # None PROVE Redecided'
  BY <1>b DEF redecisions, Redecided, QueueIsPending, UnseenIsPending, OpenTokens
<1>0. CASE UNCHANGED bvars
  BY <1>0, <1>b DEF bvars, redecisions
<1>1. ASSUME NEW t \in Tokens, RequestRedecision(t) PROVE Redecided'
  <2>1. UNCHANGED open
    BY <1>1 DEF RequestRedecision, book
  <2>2. CASE t \in pending
    BY <1>1, <2>1, <2>2 DEF RequestRedecision, Redecided, QueueIsPending, UnseenIsPending, OpenTokens
  <2>3. CASE t \notin pending /\ Len(queue) = QueueSize
    BY <1>1, <1>b, <2>1, <2>3 DEF RequestRedecision
  <2>4. CASE t \notin pending /\ Len(queue) # QueueSize
    <3>1. queue' = Append(queue, t) /\ pending' = pending \cup {t} /\ unseen' = unseen \cup {t}
      BY <1>1, <2>4 DEF RequestRedecision
    <3>2. /\ Len(queue') = Len(queue) + 1 /\ queue'[Len(queue) + 1] = t
          /\ \A i \in 1..Len(queue) : queue'[i] = queue[i]
      BY <1>a, <3>1, AppendProperties
    <3>3. QueueIsPending'
      BY <1>a, <2>4, <3>1, <3>2 DEF Redecided, QueueIsPending
    <3>4. UnseenIsPending'
      BY <2>1, <3>1 DEF Redecided, UnseenIsPending, OpenTokens
    <3> QED BY <3>3, <3>4 DEF Redecided
  <2> QED BY <2>2, <2>3, <2>4
<1>2. ASSUME NEW w \in Workers, WorkerTake(w) PROVE Redecided'
  <2> DEFINE t == Head(queue)
  <2>1. /\ queue # <<>> /\ queue' = Tail(queue) /\ pending' = pending \ {t} /\ unseen' = unseen \ {t}
        /\ UNCHANGED open
    BY <1>2 DEF WorkerTake, book
  <2>2. Len(queue) >= 1 /\ t = queue[1]
    BY <1>a, <2>1
  <2>3. Len(queue') = Len(queue) - 1 /\ \A i \in 1..Len(queue') : queue'[i] = queue[i + 1]
    BY <1>a, <2>1, HeadTailProperties
  <2> HIDE DEF t
  <2>4. QueueIsPending'
    <3>1. ASSUME NEW u \in Tokens PROVE u \in pending' <=> \E i \in 1..Len(queue') : queue'[i] = u
      <4>1. ASSUME u \in pending' PROVE \E i \in 1..Len(queue') : queue'[i] = u
        <5>1. PICK j \in 1..Len(queue) : queue[j] = u
          BY <2>1, <4>1 DEF Redecided, QueueIsPending
        <5>2. j # 1
          BY <2>1, <2>2, <4>1, <5>1
        <5>3. j - 1 \in 1..Len(queue') /\ queue'[j - 1] = u
          BY <1>a, <2>3, <5>1, <5>2
        <5> QED BY <5>3
      <4>2. ASSUME NEW i \in 1..Len(queue'), queue'[i] = u PROVE u \in pending'
        <5>1. i + 1 \in 1..Len(queue) /\ 1 \in 1..Len(queue) /\ i + 1 # 1 /\ queue[i + 1] = u
          BY <1>a, <2>2, <2>3, <4>2
        <5>2. u # t /\ u \in pending
          BY <2>2, <5>1 DEF Redecided, QueueIsPending
        <5> QED BY <2>1, <5>2
      <4> QED BY <4>1, <4>2
    <3>2. ASSUME NEW i \in 1..Len(queue'), NEW j \in 1..Len(queue'), queue'[i] = queue'[j] PROVE i = j
      <4>1. i + 1 \in 1..Len(queue) /\ j + 1 \in 1..Len(queue) /\ queue[i + 1] = queue[j + 1]
        BY <1>a, <2>3, <3>2
      <4>2. i + 1 = j + 1
        BY <4>1 DEF Redecided, QueueIsPending
      <4> QED BY <4>2, <1>a, <2>3
    <3> QED BY <3>1, <3>2 DEF QueueIsPending
  <2>5. UnseenIsPending'
    BY <2>1 DEF Redecided, UnseenIsPending, OpenTokens
  <2> QED BY <2>4, <2>5 DEF Redecided
<1>3. CASE SweepBegin \/ SweepNext \/ Lands
  BY <1>3, <1>b DEF SweepBegin, SweepNext, Lands, book
<1>4. ASSUME NEW m \in Managers, Hold(m) \/ Sell(m) \/ Add(m) \/ AddFilled(m) PROVE Redecided'
  BY <1>4, <1>b DEF Hold, Sell, Add, AddFilled, book
<1>5. ASSUME NEW a \in Agents, SellFilled(a) PROVE Redecided'
  <2>1. UNCHANGED redecisions /\ \A t \in Tokens : open'[t] = open[t] \/ open'[t] = None
    BY <1>5, <1>a DEF SellFilled, SellBooked, SellBlocked
  <2> QED BY <1>b, <2>1
<1>6. ASSUME NEW a \in Agents, OrderFails(a) PROVE Redecided'
  BY <1>6, <1>b DEF OrderFails, book
<1>7. ASSUME NEW t \in Tokens, Dispatch(t) \/ PipelineEnds(t) \/ Evaluate(t) \/ Fund(t) PROVE Redecided'
  BY <1>7, <1>b DEF Dispatch, PipelineEnds, Evaluate, Fund, book
<1>8. ASSUME NEW t \in Tokens, BuyFilled(t) PROVE Redecided'
  <2>1. CASE BuyBlocked(t) \/ (BuyBooked(t) /\ t \in OpenTokens)
    BY <1>8, <1>b, <2>1 DEF BuyFilled, BuyBooked, BuyBlocked, redecisions
  <2>2. CASE BuyBooked(t) /\ t \notin OpenTokens
    <3>1. UNCHANGED <<queue, pending>> /\ unseen' = unseen \ {t} /\ \A u \in Tokens \ {t} : open'[u] = open[u]
      BY <1>8, <1>a, <2>2 DEF BuyFilled, BuyBooked
    <3> QED BY <3>1 DEF Redecided, QueueIsPending, UnseenIsPending, OpenTokens
  <2> QED BY <1>8, <2>1, <2>2 DEF BuyFilled
<1> QED BY <1>0, <1>1, <1>2, <1>3, <1>4, <1>5, <1>6, <1>7, <1>8 DEF Next, Manage

\* A trade on a held token that _request_redecision accepted is followed by a decision that
\* starts after it: its token is queued exactly once, for any queue size and number of workers.
THEOREM EveryEventReachesADecision == Spec => []EventsReachADecision
<1>1. Init => Redecided
  BY EmptySeq DEF Init, Redecided, QueueIsPending, UnseenIsPending
<1>2. Book /\ Redecided => EventsReachADecision
  <2> SUFFICES ASSUME Book, Redecided PROVE EventsReachADecision
    OBVIOUS
  <2>1. ASSUME NEW t \in Tokens
        PROVE  Cardinality({i \in 1..Len(queue) : queue[i] = t}) = (IF t \in pending THEN 1 ELSE 0)
    <3> DEFINE places == {i \in 1..Len(queue) : queue[i] = t}
    <3>1. CASE t \notin pending
      <4>1. places = {}
        BY <3>1 DEF Redecided, QueueIsPending
      <4> QED BY <3>1, <4>1, FS_EmptySet
    <3>2. CASE t \in pending
      <4>1. PICK i \in 1..Len(queue) : queue[i] = t
        BY <3>2 DEF Redecided, QueueIsPending
      <4>2. places = {i}
        BY <4>1 DEF Redecided, QueueIsPending
      <4> QED BY <3>2, <4>2, FS_Singleton
    <3> QED BY <3>1, <3>2
  <2> QED BY <2>1 DEF Redecided, UnseenIsPending, EventsReachADecision
<1> QED BY <1>1, <1>2, RedecidedStep, BookInvariant, PTL DEF Spec

-----------------------------------------------------------------------------
(***************************************************************************)
(* The book and the wallet.                                                *)
(***************************************************************************)

LEMMA CoveredStep == Book /\ Book' /\ BookCovered /\ [Next]_bvars => BookCovered'
<1> SUFFICES ASSUME Book, Book', BookCovered, [Next]_bvars PROVE BookCovered'
  OBVIOUS
<1> USE WhoAreAgents, BookConstants
<1>a. /\ open \in [Tokens -> Nat] /\ wallet \in [Tokens -> Nat] /\ missed \in [Tokens -> Nat]
      /\ pos \in Seq(Positions) /\ Len(pos) \in Nat /\ task \in [Agents -> Tasks]
  BY LenProperties DEF Book, Shapes
<1>b. \A t \in OpenTokens : t \in Tokens /\ open[t] \in 1..Len(pos) /\ pos[open[t]].tok = t /\ pos[open[t]] \in Positions
  BY LenProperties DEF Book, Shapes, Referenced, Refers, OpenTokens
\* Two tokens never share an object.
<1>c. \A t, u \in OpenTokens : open[t] = open[u] => t = u
  BY <1>b
<1>d. ASSUME UNCHANGED <<book, missed>> PROVE BookCovered'
  BY <1>d DEF book, BookCovered, OpenTokens
\* What the wallet and the sales the book missed add up to, where the book does not change.
<1>e. ASSUME UNCHANGED <<pos, open>>, \A u \in OpenTokens : wallet'[u] + missed'[u] >= wallet[u] + missed[u]
      PROVE  BookCovered'
  <2>1. ASSUME NEW u \in OpenTokens PROVE pos[open[u]].size <= wallet'[u] + missed'[u]
    <3>1. pos[open[u]].size \in Nat /\ pos[open[u]].size <= wallet[u] + missed[u]
      BY <1>b DEF BookCovered, Positions
    <3>2. wallet[u] \in Nat /\ missed[u] \in Nat /\ wallet'[u] \in Nat /\ missed'[u] \in Nat
      BY <1>a, <1>b DEF Book, Shapes
    <3> QED BY <1>e, <3>1, <3>2
  <2> QED BY <1>e, <2>1 DEF BookCovered, OpenTokens
<1>0. CASE UNCHANGED bvars
  BY <1>0, <1>d DEF bvars, book
<1>1. ASSUME NEW t \in Tokens,
             RequestRedecision(t) \/ Dispatch(t) \/ PipelineEnds(t) \/ Evaluate(t) \/ Fund(t)
      PROVE  BookCovered'
  BY <1>1, <1>d DEF RequestRedecision, Dispatch, PipelineEnds, Evaluate, Fund, orders
<1>2. ASSUME NEW w \in Workers, WorkerTake(w) PROVE BookCovered'
  BY <1>2, <1>d DEF WorkerTake, orders
<1>3. CASE SweepBegin \/ SweepNext
  BY <1>3, <1>d DEF SweepBegin, SweepNext, orders
<1>4. ASSUME NEW m \in Managers, Hold(m) \/ Sell(m) \/ Add(m) PROVE BookCovered'
  BY <1>4, <1>d DEF Hold, Sell, Add, orders
\* An order that was given up and lands takes from the wallet what the book then misses.
<1>5. CASE Lands
  <2>1. PICK f \in floating :
          /\ \/ wallet' = [wallet EXCEPT ![f.tok] = @ + f.amt] /\ UNCHANGED missed
             \/ /\ wallet[f.tok] >= f.amt /\ wallet' = [wallet EXCEPT ![f.tok] = @ - f.amt]
                /\ missed' = [missed EXCEPT ![f.tok] = @ + f.amt]
             \/ UNCHANGED <<wallet, missed>>
    BY <1>5 DEF Lands
  <2>2. f.tok \in Tokens /\ f.amt \in Nat
    BY DEF Book, Shapes
  <2>3. ASSUME NEW u \in Tokens PROVE wallet'[u] + missed'[u] >= wallet[u] + missed[u]
    <3>1. wallet[u] \in Nat /\ missed[u] \in Nat /\ wallet[f.tok] \in Nat /\ missed[f.tok] \in Nat
      BY <1>a, <2>2
    <3>2. CASE wallet' = [wallet EXCEPT ![f.tok] = @ + f.amt] /\ UNCHANGED missed
      <4>1. wallet'[u] \in {wallet[u], wallet[u] + f.amt}
        BY <1>a, <2>2, <3>2
      <4> QED BY <2>2, <3>1, <3>2, <4>1
    <3>3. CASE /\ wallet' = [wallet EXCEPT ![f.tok] = @ - f.amt]
               /\ missed' = [missed EXCEPT ![f.tok] = @ + f.amt]
      <4>1. \/ wallet'[u] = wallet[u] /\ missed'[u] = missed[u]
            \/ wallet'[u] = wallet[u] - f.amt /\ missed'[u] = missed[u] + f.amt
        BY <1>a, <2>2, <3>3
      <4> QED BY <2>2, <3>1, <4>1
    <3>4. CASE UNCHANGED <<wallet, missed>>
      BY <3>1, <3>4
    <3> QED BY <2>1, <3>2, <3>3, <3>4
  <2> QED BY <1>5, <1>e, <2>3 DEF Lands, OpenTokens
<1>6. ASSUME NEW a \in Agents, OrderFails(a) PROVE BookCovered'
  BY <1>6, <1>d DEF OrderFails, orders
\* A fill lowers the wallet by what was sold, and the position by as much or to nothing; or
\* what was sold is missed.
<1>7. ASSUME NEW a \in Agents, SellFilled(a) PROVE BookCovered'
  <2> DEFINE t == task[a].tok
  <2>1. PICK taken \in 0..wallet[t] :
          /\ wallet' = [wallet EXCEPT ![t] = @ - taken]
          /\ SellBooked(a, taken) \/ SellBlocked(a, taken)
    BY <1>7 DEF SellFilled
  <2>2. t \in Tokens /\ wallet[t] \in Nat /\ missed[t] \in Nat /\ taken \in Nat /\ taken <= wallet[t]
    BY <1>7, <1>a DEF SellFilled, Book, Referenced, Sound
  <2>3. CASE SellBlocked(a, taken)
    <3>1. missed' = [missed EXCEPT ![t] = @ + taken] /\ UNCHANGED <<pos, open>>
      BY <2>3 DEF SellBlocked
    <3>2. ASSUME NEW u \in Tokens PROVE wallet'[u] + missed'[u] >= wallet[u] + missed[u]
      <4>1. wallet[u] \in Nat /\ missed[u] \in Nat
        BY <1>a
      <4>2. \/ wallet'[u] = wallet[u] /\ missed'[u] = missed[u]
            \/ wallet'[u] = wallet[u] - taken /\ missed'[u] = missed[u] + taken
        BY <1>a, <2>1, <2>2, <3>1
      <4> QED BY <2>2, <4>1, <4>2
    <3> QED BY <1>e, <3>1, <3>2 DEF OpenTokens
  <2>4. CASE SellBooked(a, taken) /\ open[t] = None
    <3>1. UNCHANGED <<pos, open, missed>> /\ t \notin OpenTokens
      BY <2>4 DEF SellBooked, OpenTokens
    <3>2. \A u \in OpenTokens : wallet'[u] = wallet[u]
      BY <1>a, <1>b, <2>1, <3>1
    <3> QED BY <3>1, <3>2 DEF BookCovered, OpenTokens
  <2>5. CASE SellBooked(a, taken) /\ open[t] # None
    <3> DEFINE p == Reduced(pos[open[t]], taken)
    <3>1. t \in OpenTokens /\ UNCHANGED missed
      BY <2>2, <2>5 DEF SellBooked, OpenTokens
    <3>2. pos' = [pos EXCEPT ![open[t]] = p]
      BY <2>5 DEF SellBooked
    <3>3. \A u \in Tokens : open'[u] = open[u] \/ open'[u] = None
      BY <1>a, <2>5 DEF SellBooked
    <3>4. p \in Positions /\ p.size = IF pos[open[t]].size > taken THEN pos[open[t]].size - taken ELSE 0
      BY <1>b, <2>2, <3>1, ReducedPosition
    <3> HIDE DEF p
    <3>5. \A i \in 1..Len(pos) : pos'[i] = IF i = open[t] THEN p ELSE pos[i]
      BY <1>a, <1>b, <3>1, <3>2, LenProperties
    <3>6. ASSUME NEW u \in OpenTokens' PROVE pos'[open'[u]].size <= wallet'[u] + missed'[u]
      <4>1. u \in OpenTokens /\ open'[u] = open[u]
        BY <3>3, <3>6 DEF OpenTokens
      <4>2. pos[open[u]].size <= wallet[u] + missed[u]
        BY <4>1 DEF BookCovered
      <4>3. CASE u = t
        <5>1. pos'[open'[u]].size = p.size /\ wallet'[u] = wallet[u] - taken
          BY <1>a, <1>b, <2>1, <3>5, <4>1, <4>3
        <5>2. pos[open[t]].size \in Nat
          BY <1>b, <3>1 DEF Positions
        <5> QED BY <2>2, <3>1, <3>4, <4>2, <4>3, <5>1, <5>2
      <4>4. CASE u # t
        <5>1. pos'[open'[u]] = pos[open[u]] /\ wallet'[u] = wallet[u]
          BY <1>a, <1>b, <1>c, <2>1, <3>1, <3>5, <4>1, <4>4
        <5> QED BY <3>1, <4>2, <5>1
      <4> QED BY <4>3, <4>4
    <3> QED BY <3>6 DEF BookCovered
  <2> QED BY <2>1, <2>3, <2>4, <2>5
\* A scale-in grows the object and the wallet alike, or the wallet alone; if the book has the
\* object, then under the token that was bought.
<1>8. ASSUME NEW m \in Managers, AddFilled(m) PROVE BookCovered'
  <2> DEFINE o == task[m].obj
             t == task[m].tok
             p == [pos[o] EXCEPT !.size = @ + Lot, !.added = TRUE]
  <2>1. t \in Tokens /\ o \in 1..Len(pos) /\ pos[o].tok = t /\ pos[o] \in Positions
    BY <1>8, <1>a, LenProperties DEF AddFilled, Book, Referenced, Sound, Refers
  <2>2. UNCHANGED pos \/ pos' = [pos EXCEPT ![o] = p]
    BY <1>8, <1>a, <2>1, LenProperties DEF AddFilled, Positions
  <2>3. p.size = pos[o].size + Lot
    BY <2>1 DEF Positions
  <2>4. wallet' = [wallet EXCEPT ![t] = @ + Lot] /\ UNCHANGED <<open, missed>>
    BY <1>8 DEF AddFilled
  <2> HIDE DEF p
  <2>5. CASE UNCHANGED pos
    <3>1. \A u \in Tokens : wallet'[u] + missed'[u] >= wallet[u] + missed[u]
      BY <1>a, <2>1, <2>4
    <3> QED BY <1>e, <2>4, <2>5, <3>1 DEF OpenTokens
  <2>6. CASE pos' = [pos EXCEPT ![o] = p]
    <3>1. \A i \in 1..Len(pos) : pos'[i] = IF i = o THEN p ELSE pos[i]
      BY <1>a, <2>1, <2>6, LenProperties
    <3>2. ASSUME NEW u \in OpenTokens' PROVE pos'[open'[u]].size <= wallet'[u] + missed'[u]
      <4>1. u \in OpenTokens /\ open'[u] = open[u]
        BY <2>4, <3>2 DEF OpenTokens
      <4>2. /\ pos[open[u]].size <= wallet[u] + missed[u] /\ pos[open[u]].size \in Nat
            /\ wallet[u] \in Nat /\ missed[u] \in Nat
        BY <1>a, <1>b, <4>1 DEF BookCovered, Positions
      <4>3. CASE open[u] = o
        <5>1. u = t
          BY <1>b, <2>1, <4>1, <4>3
        <5>2. wallet'[u] = wallet[u] + Lot /\ pos'[open'[u]].size = pos[open[u]].size + Lot
          BY <1>a, <1>b, <2>1, <2>3, <2>4, <3>1, <4>1, <4>3, <5>1
        <5> QED BY <2>4, <4>2, <5>2
      <4>4. CASE open[u] # o
        <5>1. pos'[open'[u]] = pos[open[u]]
          BY <1>b, <3>1, <4>1, <4>4
        <5>2. wallet'[u] = wallet[u] \/ wallet'[u] = wallet[u] + Lot
          BY <1>a, <1>b, <2>4, <4>1
        <5> QED BY <2>4, <4>2, <5>1, <5>2
      <4> QED BY <4>3, <4>4
    <3> QED BY <3>2 DEF BookCovered
  <2> QED BY <2>2, <2>5, <2>6
<1>9. ASSUME NEW t \in Tokens, BuyFilled(t) PROVE BookCovered'
  <2>1. wallet' = [wallet EXCEPT ![t] = @ + Lot] /\ UNCHANGED missed /\ (BuyBooked(t) \/ BuyBlocked(t))
    BY <1>9 DEF BuyFilled
  <2>2. \A u \in Tokens : /\ wallet'[u] >= wallet[u] /\ wallet[u] \in Nat /\ wallet'[u] \in Nat
                         /\ missed[u] \in Nat /\ missed'[u] = missed[u]
    BY <1>a, <2>1
  <2>3. CASE UNCHANGED <<pos, open>>
    BY <1>e, <2>2, <2>3 DEF OpenTokens
  <2>4. CASE BuyBooked(t) /\ t \notin OpenTokens
    <3> DEFINE p == [tok |-> t, size |-> Lot, added |-> FALSE]
    <3>1. pos' = Append(pos, p) /\ open' = [open EXCEPT ![t] = Len(pos) + 1]
      BY <2>4 DEF BuyBooked
    <3>2. p \in Positions /\ p.size = Lot
      BY DEF Positions
    <3> HIDE DEF p
    <3>3. /\ pos'[Len(pos) + 1] = p /\ \A i \in 1..Len(pos) : pos'[i] = pos[i]
      BY <1>a, <3>1, <3>2, AppendProperties
    <3>4. ASSUME NEW u \in OpenTokens' PROVE pos'[open'[u]].size <= wallet'[u] + missed'[u]
      <4>1. CASE u = t
        <5>1. wallet'[u] = wallet[u] + Lot /\ pos'[open'[u]].size = Lot
          BY <1>a, <2>1, <3>1, <3>2, <3>3, <4>1
        <5> QED BY <2>2, <4>1, <5>1
      <4>2. CASE u # t
        <5>1. u \in OpenTokens /\ open'[u] = open[u]
          BY <1>a, <3>1, <3>4, <4>2 DEF OpenTokens
        <5>2. pos'[open'[u]] = pos[open[u]]
          BY <1>b, <3>3, <5>1
        <5>3. pos[open[u]].size <= wallet[u] + missed[u] /\ pos[open[u]].size \in Nat
          BY <1>b, <5>1 DEF BookCovered, Positions
        <5> QED BY <1>b, <2>2, <5>1, <5>2, <5>3
      <4> QED BY <4>1, <4>2
    <3> QED BY <3>4 DEF BookCovered
  <2> QED BY <2>1, <2>3, <2>4 DEF BuyBooked, BuyBlocked
<1> QED BY <1>0, <1>1, <1>2, <1>3, <1>4, <1>5, <1>6, <1>7, <1>8, <1>9 DEF Next, Manage

\* What an open position claims and the wallet does not hold left the wallet in a sale the book
\* was never told of: given up and landed later, or filled with nothing to prove the amount.
\* Sells, adds and contests that change objects they read before their await open no other gap
\* (_execute_exit, _consider_scale_in, reduce_position).
THEOREM BookIsCovered == Spec => []BookCovered
<1>1. Init => BookCovered
  BY DEF Init, BookCovered, OpenTokens
<1> QED BY <1>1, CoveredStep, BookInvariant, PTL DEF Spec
=============================================================================
