----------------------------- MODULE LandingRace -----------------------------
(***************************************************************************)
(* From a signed transaction to an ExecutionResult: LandingRouter.race of  *)
(* src/src/execution/landing_router.py, and _submit_signed with the waits  *)
(* it makes for a bundle, a landing and a fill                             *)
(* (src/src/execution/jupiter_jito.py).                                    *)
(*                                                                         *)
(* An order is one signed transaction.  The chain executes it at most once *)
(* and may do so until its blockhash expires, whatever became of the       *)
(* answers of the routes that carried it.                                  *)
(***************************************************************************)
EXTENDS Integers, FiniteSets

CONSTANTS
    Orders,
    Routes,   \* the enabled routes
    Bundle,   \* the route jito_bundle
    Tipped,   \* orders built for the bundle lane (use_jito)
    Forks     \* whether a processed transaction may be dropped with its fork

ASSUME ConstantsAssumption ==
    /\ IsFiniteSet(Orders) /\ IsFiniteSet(Routes) /\ Tipped \subseteq Orders
    /\ Forks \in BOOLEAN /\ "none" \notin Routes

VARIABLES
    pc,        \* where _submit_signed stands
    sub,       \* each route's attempt
    chain,     \* what the chain did with the transaction
    accepted,  \* RaceOutcome.accepted
    winner,    \* RaceOutcome.winner
    stats,     \* RouteStats per route
    pending,   \* LandingRouter._pending
    result     \* ExecutionResult.status

vars == <<pc, sub, chain, accepted, winner, stats, pending, result>>

Init ==
    /\ pc = [o \in Orders |-> "idle"]
    /\ sub = [o \in Orders |-> [r \in Routes |-> "off"]]
    /\ chain = [o \in Orders |-> "no"]
    /\ accepted = [o \in Orders |-> {}] /\ winner = [o \in Orders |-> "none"]
    /\ stats = [r \in Routes |-> [attempts |-> 0, accepted |-> 0, failures |-> 0,
                                  resolved |-> 0, landed |-> 0]]
    /\ pending = {} /\ result = [o \in Orders |-> "none"]

-----------------------------------------------------------------------------
(* The chain.  A request that was lost or cut may have been carried.        *)

Carried(o) == \E r \in Routes : sub[o][r] \in {"sent", "ok", "lost", "cut"}

Move(o, from, to) == /\ chain[o] = from /\ chain' = [chain EXCEPT ![o] = to]
                     /\ UNCHANGED <<pc, sub, accepted, winner, stats, pending, result>>

ChainStep(o) ==
    \/ Carried(o) /\ (Move(o, "no", "processed") \/ Move(o, "no", "failed"))
    \/ Move(o, "processed", "confirmed")
    \/ Forks /\ Move(o, "processed", "no")
    \/ Move(o, "no", "expired")

-----------------------------------------------------------------------------
(* LandingRouter.race                                                       *)

\* enabled_routes
Enabled(o) == IF o \in Tipped THEN Routes ELSE Routes \ {Bundle}

Start(o) ==
    /\ pc[o] = "idle" /\ Enabled(o) # {}
    /\ pc' = [pc EXCEPT ![o] = "race"]
    /\ sub' = [sub EXCEPT ![o] = [r \in Routes |-> IF r \in Enabled(o) THEN "sent" ELSE "off"]]
    /\ stats' = [r \in Routes |-> IF r \in Enabled(o)
                                  THEN [stats[r] EXCEPT !.attempts = @ + 1] ELSE stats[r]]
    /\ UNCHANGED <<chain, accepted, winner, pending, result>>

\* What an answer adds to the route's statistics, in the race or after it.
Counted(r, how) == IF how = "ok" THEN [stats EXCEPT ![r].accepted = @ + 1]
                   ELSE [stats EXCEPT ![r].failures = @ + 1]

First(o, r) == IF winner[o] = "none" THEN r ELSE winner[o]

\* A route answers while the race is on.  Several may answer before the race
\* returns.
Answer(o, r) ==
    /\ pc[o] = "race" /\ sub[o][r] = "sent"
    /\ \E how \in {"ok", "refused", "lost"} :
         /\ sub' = [sub EXCEPT ![o][r] = how]
         /\ stats' = Counted(r, how)
         /\ accepted' = IF how = "ok" THEN [accepted EXCEPT ![o] = @ \union {r}] ELSE accepted
         /\ winner' = IF how = "ok" THEN [winner EXCEPT ![o] = First(o, r)] ELSE winner
    /\ UNCHANGED <<pc, chain, pending, result>>

\* A bug: an answer after the race is dropped.
MutFolded(r, how) == stats

Folded(r, how) == Counted(r, how)

\* _fold_late
FoldLate(o, r) ==
    /\ pc[o] \notin {"idle", "race"} /\ sub[o][r] = "sent"
    /\ \E how \in {"ok", "refused", "lost"} :
         sub' = [sub EXCEPT ![o][r] = how] /\ stats' = Folded(r, how)
    /\ UNCHANGED <<pc, chain, accepted, winner, pending, result>>

\* The race returns with a winner; the other submissions run on.
RaceWon(o) ==
    /\ pc[o] = "race" /\ winner[o] # "none"
    /\ pending' = pending \union {o}
    /\ pc' = [pc EXCEPT ![o] = IF Bundle \in accepted[o] THEN "bundle" ELSE "await"]
    /\ UNCHANGED <<sub, chain, accepted, winner, stats, result>>

Finish(o, status) == /\ pc' = [pc EXCEPT ![o] = "done"]
                     /\ result' = [result EXCEPT ![o] = status]

\* Nobody acknowledged: every route failed, or the deadline came.
RaceLost(o) ==
    /\ pc[o] = "race" /\ winner[o] = "none"
    /\ sub' = [sub EXCEPT ![o] = [r \in Routes |-> IF @[r] = "sent" THEN "cut" ELSE @[r]]]
    /\ Finish(o, "FAILED")
    /\ UNCHANGED <<chain, accepted, winner, stats, pending>>

-----------------------------------------------------------------------------
(* _submit_signed after the race                                            *)

\* _wait_for_bundle found the landed transaction of the bundle.
BundleLanded(o) ==
    /\ pc[o] = "bundle" /\ chain[o] = "confirmed"
    /\ pc' = [pc EXCEPT ![o] = "await"]
    /\ UNCHANGED <<sub, chain, accepted, winner, stats, pending, result>>

\* It reports an error or nothing in time: the signature another route gave
\* is followed, if there is one.
BundleGivenUp(o) ==
    /\ pc[o] = "bundle"
    /\ IF accepted[o] # {Bundle} THEN pc' = [pc EXCEPT ![o] = "await"] /\ UNCHANGED result
       ELSE Finish(o, "TIMEOUT")
    /\ UNCHANGED <<sub, chain, accepted, winner, stats, pending>>

\* _signature_landed: a confirmed status, with or without an error.
Polled(c) == c \in {"confirmed", "failed"}

\* observe_signature: the stream carries processed transactions that
\* succeeded.
Streamed(c) == c \in {"processed", "confirmed"}

\* _await_landing
Landing(o) ==
    /\ pc[o] = "await" /\ (Streamed(chain[o]) \/ Polled(chain[o]))
    /\ pc' = [pc EXCEPT ![o] = "fill"]
    /\ UNCHANGED <<sub, chain, accepted, winner, stats, pending, result>>

Popped(o) == pending \ {o}

\* record_landing, and the result.
Resolve(o, landed, status) ==
    /\ pending' = Popped(o)
    /\ stats' = [r \in Routes |->
                 IF o \in pending /\ r \in accepted[o]
                 THEN [stats[r] EXCEPT !.resolved = @ + 1, !.landed = IF landed THEN @ + 1 ELSE @]
                 ELSE stats[r]]
    /\ Finish(o, status)
    /\ UNCHANGED <<sub, chain, accepted, winner>>

LandingTimeout(o) == pc[o] = "await" /\ Resolve(o, FALSE, "TIMEOUT")

\* A bug: a transaction with an error is read as a fill.
MutFill(c) == "FILLED"
Fill(c) == IF c = "confirmed" THEN "FILLED" ELSE "LANDED"

\* _wait_for_fill: the confirmed transaction, or its error.
FillFound(o) ==
    /\ pc[o] = "fill" /\ chain[o] \in {"confirmed", "failed"}
    /\ Resolve(o, TRUE, Fill(chain[o]))

FillTimeout(o) == pc[o] = "fill" /\ Resolve(o, TRUE, "LANDED")

Next == \E o \in Orders :
    \/ ChainStep(o)
    \/ Start(o) \/ RaceWon(o) \/ RaceLost(o)
    \/ \E r \in Routes : Answer(o, r) \/ FoldLate(o, r)
    \/ BundleLanded(o) \/ BundleGivenUp(o)
    \/ Landing(o) \/ LandingTimeout(o) \/ FillFound(o) \/ FillTimeout(o)

Spec == Init /\ [][Next]_vars

-----------------------------------------------------------------------------
(* Properties                                                               *)

\* Every variable has its shape, and a race has a winner when something was
\* accepted.
TypeOK ==
    /\ pc \in [Orders -> {"idle", "race", "bundle", "await", "fill", "done"}]
    /\ sub \in [Orders -> [Routes -> {"off", "sent", "ok", "refused", "lost", "cut"}]]
    /\ chain \in [Orders -> {"no", "processed", "confirmed", "failed", "expired"}]
    /\ accepted \in [Orders -> SUBSET Routes]
    /\ \A o \in Orders : IF accepted[o] = {} THEN winner[o] = "none" ELSE winner[o] \in accepted[o]
    /\ stats \in [Routes -> [attempts : Nat, accepted : Nat, failures : Nat,
                             resolved : Nat, landed : Nat]]
    /\ pending \subseteq Orders
    /\ result \in [Orders -> {"none", "FAILED", "TIMEOUT", "LANDED", "FILLED"}]

\* The books of a route balance although answers come after the race was
\* decided and after the order was resolved: every attempt is accepted, failed
\* or unanswered, and only accepted attempts are resolved or landed.
RouteBooks ==
    \A r \in Routes :
        /\ stats[r].attempts = stats[r].accepted + stats[r].failures
                               + Cardinality({o \in Orders : sub[o][r] \in {"sent", "cut"}})
        /\ stats[r].landed <= stats[r].resolved /\ stats[r].resolved <= stats[r].accepted

\* A fill is reported only for a transaction the chain confirmed without an
\* error ("a position sized from an assumed fill is a position whose cost
\* basis is fiction").
FilledIsConfirmed ==
    \A o \in Orders : result[o] = "FILLED" => chain[o] = "confirmed"

\* A race that nobody resolved and that nothing forgets is one that only the
\* bundle lane accepted and whose bundle was given up: the one return of
\* _submit_signed between the race and record_landing (forget: "Bounded
\* memory").
OnlyBundlesLeft ==
    \A o \in pending : pc[o] = "done" => accepted[o] = {Bundle}

=============================================================================
