---------------------------- MODULE PositionBook ----------------------------
(***************************************************************************)
(* The desk's open positions: candidate pipelines buy, redecision workers  *)
(* and the safety sweep decide and sell, all coroutines of one event loop  *)
(* (src/main.py, the book in strategies/multihead_predictor.py,            *)
(* runtime/capital_runtime.py).                                            *)
(* What a coroutine does between two awaits is one step; every order is    *)
(* awaited, and everything else may happen meanwhile.                      *)
(*                                                                         *)
(* A position is a mutable object.  Whoever manages it keeps a reference,  *)
(* which stays good after the book has dropped it, so objects are numbered *)
(* and the book maps tokens to numbers.  An entry or an add buys Lot       *)
(* tokens.  Orders are real ones: what a simulated fill does differently,  *)
(* costs, returns and the staged ladders are left out.                     *)
(***************************************************************************)
EXTENDS Naturals, Sequences, FiniteSets, FiniteSetsExt

CONSTANTS
    Tokens,
    Workers, Sweep,   \* the redecision workers and the safety sweep
    QueueSize,        \* redecision_queue_size
    MaxOpen,          \* max_concurrent_positions
    Lot,              \* tokens an order buys
    Tries,            \* candidate_recheck_delays_seconds: evaluations per pipeline
    Contests,         \* a candidate may displace an incumbent
    Adds,             \* scale-ins happen
    Unconfirmed,      \* bound: orders that may fill without a fill the book can account for
    MaxPos            \* bound: positions ever opened

None == 0
Managers == Workers \cup {Sweep}
Agents == Managers \cup Tokens      \* a pipeline is named by its token
Objs == 1..MaxPos

ASSUME BookConstants ==
    /\ Sweep \notin Workers /\ Managers \cap Tokens = {} /\ IsFiniteSet(Tokens)
    /\ QueueSize \in Nat \ {0} /\ MaxOpen \in Nat \ {0} /\ Lot \in Nat \ {0}
    /\ Tries \in Nat \ {0} /\ MaxPos \in Nat
    /\ Contests \in BOOLEAN /\ Adds \in BOOLEAN /\ Unconfirmed \in Nat

VARIABLES
    pos,        \* the position objects made so far
    open,       \* open_positions: token to object
    wallet,     \* tokens the wallet really holds
    queue, pending,  \* _redecide and _redecide_pending
    task,       \* per agent: what it awaits, and what it read before
    todo,       \* positions the running sweep has yet to visit
    tries,      \* per token: evaluations its pipeline has left
    floating,   \* orders given up by the desk and still able to land
    lost,       \* how many orders were given up, or filled with nothing to prove the amounts
    missed,     \* tokens that left the wallet in sales the book was not told of
    unseen,     \* open tokens with a trade that no decision has started after
    unbooked    \* update_position refused a filled buy

bvars == <<pos, open, wallet, queue, pending, task, todo, tries, floating, lost, missed, unseen, unbooked>>
redecisions == <<queue, pending, unseen>>
book == <<pos, open, wallet>>
orders == <<floating, lost, missed>>

Idle == [at |-> "idle", tok |-> None, obj |-> None, cur |-> 0, amt |-> 0]
Positions == [tok : Tokens, size : Nat, added : BOOLEAN]

\* Every variable has its type.
TypeOK ==
    /\ pos \in Seq(Positions) /\ Len(pos) <= MaxPos
    /\ \A t \in Tokens : open[t] \in 0..Len(pos)
    /\ \A t \in Tokens : wallet[t] \in Nat /\ missed[t] \in Nat /\ tries[t] \in 0..Tries
    /\ queue \in Seq(Tokens) /\ Len(queue) <= QueueSize
    /\ pending \subseteq Tokens /\ unseen \subseteq Tokens /\ unbooked \in BOOLEAN
    /\ \A a \in Agents : /\ task[a].at \in {"idle", "decide", "selling", "adding", "check", "room", "buying"}
                         /\ task[a].obj \in 0..Len(pos) /\ task[a].cur \in Nat /\ task[a].amt \in 0..task[a].cur
    /\ todo \subseteq Tokens \X Objs
    /\ floating \subseteq [side : {"buy", "sell"}, tok : Tokens, amt : Nat] /\ lost \in 0..Unconfirmed

Init ==
    /\ pos = <<>> /\ open = [t \in Tokens |-> None] /\ wallet = [t \in Tokens |-> 0]
    /\ queue = <<>> /\ pending = {}
    /\ task = [a \in Agents |-> Idle] /\ todo = {} /\ tries = [t \in Tokens |-> 0]
    /\ floating = {} /\ lost = 0 /\ missed = [t \in Tokens |-> 0] /\ unseen = {} /\ unbooked = FALSE

OpenTokens == {t \in Tokens : open[t] # None}

-----------------------------------------------------------------------------
(***************************************************************************)
(* Redecisions.                                                            *)
(***************************************************************************)
\* A trade on a held token asks for a redecision, once while one is pending.
RequestRedecision(t) ==
    /\ t \in OpenTokens
    /\ IF t \in pending
       THEN unseen' = unseen \cup {t} /\ UNCHANGED <<queue, pending>>
       ELSE IF Len(queue) = QueueSize
            THEN UNCHANGED redecisions
            ELSE /\ queue' = Append(queue, t) /\ pending' = pending \cup {t}
                 /\ unseen' = unseen \cup {t}
    /\ UNCHANGED <<book, task, todo, tries, orders, unbooked>>

\* Mutant: the token stays pending until its worker has decided.
MutWorkerTakeLate(w) ==
    /\ task[w] = Idle /\ queue # <<>>
    /\ queue' = Tail(queue) /\ unseen' = unseen \ {Head(queue)}
    /\ LET t == Head(queue)
       IN  task' = IF t \in OpenTokens
                   THEN [task EXCEPT ![w] = [at |-> "decide", tok |-> t, obj |-> open[t], cur |-> 0, amt |-> 0]]
                   ELSE task
    /\ UNCHANGED <<pending, book, todo, tries, orders, unbooked>>

WorkerTake(w) ==
    /\ task[w] = Idle /\ queue # <<>>
    /\ queue' = Tail(queue)
    /\ LET t == Head(queue)
       IN  /\ pending' = pending \ {t} /\ unseen' = unseen \ {t}
           /\ task' = IF t \in OpenTokens
                      THEN [task EXCEPT ![w] = [at |-> "decide", tok |-> t, obj |-> open[t], cur |-> 0, amt |-> 0]]
                      ELSE task
    /\ UNCHANGED <<book, todo, tries, orders, unbooked>>

\* The sweep goes over the positions that were open when it began.
SweepBegin ==
    /\ task[Sweep] = Idle /\ todo = {} /\ OpenTokens # {}
    /\ todo' = {<<t, open[t]>> : t \in OpenTokens}
    /\ UNCHANGED <<book, redecisions, task, tries, orders, unbooked>>

SweepNext ==
    /\ task[Sweep] = Idle
    /\ \E next \in todo :
          /\ todo' = todo \ {next}
          /\ task' = [task EXCEPT ![Sweep] = [at |-> "decide", tok |-> next[1], obj |-> next[2], cur |-> 0, amt |-> 0]]
    /\ UNCHANGED <<book, redecisions, tries, orders, unbooked>>

-----------------------------------------------------------------------------
(***************************************************************************)
(* Deciding.  _manage_one_position awaits marks and predictions, then      *)
(* holds, sells a part or adds, from what the position says at that point. *)
(***************************************************************************)
Hold(m) ==
    /\ task[m].at = "decide" /\ task' = [task EXCEPT ![m] = Idle]
    /\ UNCHANGED <<book, redecisions, todo, tries, orders, unbooked>>

\* How many tokens a fraction of cur is: at least one, at most all.
Part(cur, full) == IF full THEN cur ELSE Min({cur, Max({1, cur \div 2})})

\* _execute_exit up to its await: the sizes are read now.
BeginSell(a, t, o, full) ==
    LET cur == pos[o].size
    IN  task' = [task EXCEPT ![a] = IF cur = 0 THEN Idle     \* the engine refuses an amount of 0
                                    ELSE [at |-> "selling", tok |-> t, obj |-> o, cur |-> cur, amt |-> Part(cur, full)]]

Sell(m) ==
    /\ task[m].at = "decide"
    /\ \E full \in BOOLEAN : BeginSell(m, task[m].tok, task[m].obj, full)
    /\ UNCHANGED <<book, redecisions, todo, tries, orders, unbooked>>

Add(m) ==
    /\ Adds /\ task[m].at = "decide" /\ ~pos[task[m].obj].added    \* bound: one add per position
    /\ task' = [task EXCEPT ![m].at = "adding"]
    /\ UNCHANGED <<book, redecisions, todo, tries, orders, unbooked>>

-----------------------------------------------------------------------------
(***************************************************************************)
(* What an agent does after its order.  A pipeline that sold an incumbent  *)
(* goes on to its own buy only if the incumbent is gone and there is room. *)
(***************************************************************************)
HasRoom(opened) == Cardinality(opened) < MaxOpen

After(a, opened) ==
    IF a \in Managers THEN Idle
    ELSE [Idle EXCEPT !.at = IF task[a].tok \in opened THEN "check" ELSE "room"]

\* Mutant: a last token always stays.
MutReducedToOne(p, amt) == [p EXCEPT !.size = IF @ > amt THEN @ - amt ELSE 1]

\* reduce_position on the object the book has under this token.
Reduced(p, amt) == [p EXCEPT !.size = IF @ > amt THEN @ - amt ELSE 0]

\* close_position when nothing is left.
Emptied(p) == p.size = 0

(***************************************************************************)
(* _execute_exit after a fill that took tokens out of the wallet.  What    *)
(* was sold is what the transaction's balances say, not what was asked.    *)
(***************************************************************************)
\* A fill whose balances prove nothing: the amounts are not used.
Unproven == lost < Unconfirmed /\ lost' = lost + 1

\* The balances show no decrease, or a larger one than the size that was read: the attempt is
\* recorded as DATA_BLOCKED_ACCOUNTING and the book stays as it is.
SellBlocked(a, taken) ==
    /\ Unproven /\ missed' = [missed EXCEPT ![task[a].tok] = @ + taken]
    /\ task' = [task EXCEPT ![a] = After(a, OpenTokens)]
    /\ UNCHANGED <<pos, open, tries, todo>>

\* The size now comes from the object as it has become.
SellBooked(a, sold) ==
    /\ sold \in 1..task[a].cur
    /\ LET t == task[a].tok
       IN  IF open[t] = None
           THEN \* reduce_position raises; a sweep gives up its remaining positions
                /\ task' = [task EXCEPT ![a] = Idle]
                /\ tries' = IF a \in Tokens THEN [tries EXCEPT ![a] = 0] ELSE tries
                /\ todo' = IF a = Sweep THEN {} ELSE todo
                /\ UNCHANGED <<pos, open>>
           ELSE /\ pos' = [pos EXCEPT ![open[t]] = Reduced(@, sold)]
                /\ open' = [open EXCEPT ![t] = IF Emptied(pos'[@]) THEN None ELSE @]
                /\ task' = [task EXCEPT ![a] = After(a, {u \in Tokens : open'[u] # None})]
                /\ UNCHANGED <<tries, todo>>
    /\ UNCHANGED <<lost, missed>>

SellFilled(a) ==
    /\ task[a].at = "selling" /\ wallet[task[a].tok] >= task[a].amt
    /\ \E taken \in 0..wallet[task[a].tok] :
          /\ wallet' = [wallet EXCEPT ![task[a].tok] = @ - taken]
          /\ SellBooked(a, taken) \/ SellBlocked(a, taken)
    /\ UNCHANGED <<redecisions, floating, unbooked>>

\* The order is refused or fails; or it is given up and may still land.
OrderFails(a) ==
    /\ task[a].at \in {"selling", "adding", "buying"}
    /\ task' = [task EXCEPT ![a] = IF task[a].at = "buying" THEN [Idle EXCEPT !.at = "check"] ELSE After(a, OpenTokens)]
    /\ \/ UNCHANGED orders
       \/ /\ lost < Unconfirmed /\ lost' = lost + 1
          /\ floating' = floating \cup
                {IF task[a].at = "selling" THEN [side |-> "sell", tok |-> task[a].tok, amt |-> task[a].amt]
                 ELSE [side |-> "buy", tok |-> IF a \in Tokens THEN a ELSE task[a].tok, amt |-> Lot]}
          /\ UNCHANGED missed
    /\ UNCHANGED <<book, redecisions, todo, tries, unbooked>>

\* A given-up order lands; nothing in the desk looks for it.
Lands ==
    /\ \E f \in floating :
          /\ floating' = floating \ {f}
          /\ \/ /\ f.side = "buy" /\ UNCHANGED missed
                /\ wallet' = [wallet EXCEPT ![f.tok] = @ + f.amt]
             \/ /\ f.side = "sell" /\ wallet[f.tok] >= f.amt
                /\ wallet' = [wallet EXCEPT ![f.tok] = @ - f.amt]
                /\ missed' = [missed EXCEPT ![f.tok] = @ + f.amt]
             \/ f.side = "sell" /\ wallet[f.tok] < f.amt /\ UNCHANGED <<wallet, missed>>
    /\ UNCHANGED lost /\ UNCHANGED <<pos, open, redecisions, task, todo, tries, unbooked>>

\* _consider_scale_in after a fill: the object grows, whether or not it is still in the book,
\* unless the added cost comes out as nothing.
AddFilled(m) ==
    /\ task[m].at = "adding"
    /\ wallet' = [wallet EXCEPT ![task[m].tok] = @ + Lot]
    /\ \/ pos' = [pos EXCEPT ![task[m].obj].size = @ + Lot, ![task[m].obj].added = TRUE] /\ UNCHANGED lost
       \/ Unproven /\ UNCHANGED pos
    /\ task' = [task EXCEPT ![m] = Idle]
    /\ UNCHANGED <<open, redecisions, todo, tries, floating, missed, unbooked>>

-----------------------------------------------------------------------------
(***************************************************************************)
(* Candidate pipelines.                                                    *)
(***************************************************************************)
\* One pipeline per token.
Dispatch(t) ==
    /\ task[t] = Idle /\ tries[t] = 0 /\ Len(pos) < MaxPos
    /\ tries' = [tries EXCEPT ![t] = Tries] /\ task' = [task EXCEPT ![t] = [Idle EXCEPT !.at = "check"]]
    /\ UNCHANGED <<book, redecisions, todo, orders, unbooked>>

\* The pipeline is over when its token is held or its checkpoints are used up.
PipelineEnds(t) ==
    /\ task[t].at = "check" /\ (t \in OpenTokens \/ tries[t] = 0)
    /\ task' = [task EXCEPT ![t] = Idle] /\ tries' = [tries EXCEPT ![t] = 0]
    /\ UNCHANGED <<book, redecisions, todo, orders, unbooked>>

\* Mutant: nobody asks whether the token is already held.
MutEvaluateHeld(t) ==
    /\ task[t].at = "check" /\ tries[t] > 0 /\ Len(pos) < MaxPos
    /\ tries' = [tries EXCEPT ![t] = @ - 1]
    /\ task' = [task EXCEPT ![t] = [Idle EXCEPT !.at = "buying"]]
    /\ UNCHANGED <<book, redecisions, todo, orders, unbooked>>

\* A checkpoint screens the candidate out, or admits it, or lets it contest a place.
Evaluate(t) ==
    /\ task[t].at = "check" /\ t \notin OpenTokens /\ tries[t] > 0
    /\ tries' = [tries EXCEPT ![t] = @ - 1]
    /\ \/ UNCHANGED task
       \/ /\ HasRoom(OpenTokens) /\ Len(pos) < MaxPos
          /\ task' = [task EXCEPT ![t] = [Idle EXCEPT !.at = "buying"]]
       \/ /\ Contests /\ ~HasRoom(OpenTokens) /\ Len(pos) < MaxPos
          /\ \E incumbent \in OpenTokens : BeginSell(t, incumbent, open[incumbent], TRUE)
    /\ UNCHANGED <<book, redecisions, todo, orders, unbooked>>

\* After a displacement the portfolio is refreshed and the limits asked again.
Fund(t) ==
    /\ task[t].at = "room"
    /\ task' = [task EXCEPT ![t] = [Idle EXCEPT !.at = IF HasRoom(OpenTokens) /\ Len(pos) < MaxPos
                                                      THEN "buying" ELSE "check"]]
    /\ UNCHANGED <<book, redecisions, todo, tries, orders, unbooked>>

\* The entry filled but no wallet delta proves what it cost: it is recorded as
\* DATA_BLOCKED_ACCOUNTING and not booked, and the pipeline goes on with its checkpoints.
BuyBlocked(t) ==
    /\ Unproven /\ task' = [task EXCEPT ![t] = [Idle EXCEPT !.at = "check"]]
    /\ UNCHANGED <<pos, open, unseen, tries, unbooked>>

\* update_position, which raises when the token is already in the book.
BuyBooked(t) ==
    /\ IF t \in OpenTokens
       THEN /\ unbooked' = TRUE /\ task' = [task EXCEPT ![t] = Idle] /\ tries' = [tries EXCEPT ![t] = 0]
            /\ UNCHANGED <<pos, open, unseen>>
       ELSE /\ pos' = Append(pos, [tok |-> t, size |-> Lot, added |-> FALSE])
            /\ open' = [open EXCEPT ![t] = Len(pos) + 1]
            /\ task' = [task EXCEPT ![t] = [Idle EXCEPT !.at = "check"]]
            /\ unseen' = unseen \ {t}
            /\ UNCHANGED <<unbooked, tries>>
    /\ UNCHANGED lost

BuyFilled(t) ==
    /\ task[t].at = "buying" /\ Len(pos) < MaxPos
    /\ wallet' = [wallet EXCEPT ![t] = @ + Lot]
    /\ BuyBooked(t) \/ BuyBlocked(t)
    /\ UNCHANGED <<queue, pending, todo, floating, missed>>

-----------------------------------------------------------------------------
Manage(m) == Hold(m) \/ Sell(m) \/ Add(m) \/ AddFilled(m)

Next ==
    \/ \E t \in Tokens : RequestRedecision(t) \/ Dispatch(t) \/ PipelineEnds(t) \/ Evaluate(t) \/ Fund(t) \/ BuyFilled(t)
    \/ \E w \in Workers : WorkerTake(w)
    \/ SweepBegin \/ SweepNext \/ Lands
    \/ \E m \in Managers : Manage(m)
    \/ \E a \in Agents : SellFilled(a) \/ OrderFails(a)

Spec == Init /\ [][Next]_bvars

-----------------------------------------------------------------------------
(***************************************************************************)
(* Properties.                                                             *)
(***************************************************************************)
\* A trade on a held token that was not counted as dropped is followed by a decision that starts
\* after it: its token is queued, exactly once, however many workers are deciding.
EventsReachADecision ==
    /\ unseen \cap OpenTokens \subseteq pending
    /\ \A t \in Tokens : Cardinality({i \in 1..Len(queue) : queue[i] = t}) = (IF t \in pending THEN 1 ELSE 0)

\* A buy whose cost the wallet proves finds its place in the book free when it fills, whatever
\* was bought unseen or sold meanwhile: update_position does not raise.
EntriesBooked == ~unbooked

\* What the book claims and the wallet does not hold left the wallet in a sale that the book was
\* never told of, one given up or one with nothing to prove its amount; managers, contests and
\* adds that sell and grow objects they read before their await open no other gap.
BookCovered ==
    \A t \in OpenTokens : pos[open[t]].size <= wallet[t] + missed[t]
=============================================================================
