-------------------------- MODULE LandingRaceProofs --------------------------
(***************************************************************************)
(* What LandingRace promises for any number of orders and routes.          *)
(***************************************************************************)
EXTENDS LandingRace, FiniteSetTheorems, TLAPS

\* The part of TypeOK the arguments below need.
Types ==
    /\ pc \in [Orders -> {"idle", "race", "bundle", "await", "fill", "done"}]
    /\ chain \in [Orders -> {"no", "processed", "confirmed", "failed", "expired"}]
    /\ accepted \in [Orders -> SUBSET Routes]
    /\ sub \in [Orders -> [Routes -> {"off", "sent", "ok", "refused", "lost", "cut"}]]
    /\ pending \subseteq Orders
    /\ result \in [Orders -> {"none", "FAILED", "TIMEOUT", "LANDED", "FILLED"}]

LEMMA TypesInit == Init => Types
  BY DEF Init, Types

LEMMA TypesStep == Types /\ [Next]_vars => Types'
<1> SUFFICES ASSUME Types, [Next]_vars PROVE Types'
  OBVIOUS
<1>0. CASE UNCHANGED vars
  BY <1>0 DEF Types, vars
<1>1. ASSUME NEW o \in Orders, ChainStep(o) PROVE Types'
  BY <1>1 DEF Types, ChainStep, Move
<1>2. ASSUME NEW o \in Orders, Start(o) PROVE Types'
  BY <1>2 DEF Types, Start
<1>3. ASSUME NEW o \in Orders, RaceWon(o) PROVE Types'
  BY <1>3 DEF Types, RaceWon
<1>4. ASSUME NEW o \in Orders, RaceLost(o) PROVE Types'
  BY <1>4 DEF Types, RaceLost, Finish
<1>5. ASSUME NEW o \in Orders, NEW r \in Routes, Answer(o, r) PROVE Types'
  <2>1. PICK how \in {"ok", "refused", "lost"} :
          /\ sub' = [sub EXCEPT ![o][r] = how]
          /\ accepted' = IF how = "ok" THEN [accepted EXCEPT ![o] = @ \union {r}] ELSE accepted
    BY <1>5 DEF Answer
  <2>2. sub' \in [Orders -> [Routes -> {"off", "sent", "ok", "refused", "lost", "cut"}]]
    BY <2>1 DEF Types
  <2>3. accepted' \in [Orders -> SUBSET Routes]
    BY <2>1 DEF Types
  <2> QED BY <1>5, <2>2, <2>3 DEF Types, Answer
<1>6. ASSUME NEW o \in Orders, NEW r \in Routes, FoldLate(o, r) PROVE Types'
  <2>1. PICK how \in {"ok", "refused", "lost"} : sub' = [sub EXCEPT ![o][r] = how]
    BY <1>6 DEF FoldLate
  <2>2. sub' \in [Orders -> [Routes -> {"off", "sent", "ok", "refused", "lost", "cut"}]]
    BY <2>1 DEF Types
  <2> QED BY <1>6, <2>2 DEF Types, FoldLate
<1>7. ASSUME NEW o \in Orders, BundleLanded(o) PROVE Types'
  BY <1>7 DEF Types, BundleLanded
<1>8. ASSUME NEW o \in Orders, BundleGivenUp(o) PROVE Types'
  BY <1>8 DEF Types, BundleGivenUp, Finish
<1>9. ASSUME NEW o \in Orders, Landing(o) PROVE Types'
  BY <1>9 DEF Types, Landing
<1>10. ASSUME NEW o \in Orders, LandingTimeout(o) PROVE Types'
  BY <1>10 DEF Types, LandingTimeout, Resolve, Finish, Popped
<1>11. ASSUME NEW o \in Orders, FillFound(o) PROVE Types'
  BY <1>11 DEF Types, FillFound, Resolve, Finish, Popped, Fill
<1>12. ASSUME NEW o \in Orders, FillTimeout(o) PROVE Types'
  BY <1>12 DEF Types, FillTimeout, Resolve, Finish, Popped
<1> QED BY <1>0, <1>1, <1>2, <1>3, <1>4, <1>5, <1>6, <1>7, <1>8, <1>9, <1>10, <1>11, <1>12 DEF Next

-----------------------------------------------------------------------------
(* A reported fill is on the chain: confirmation is never taken back, not   *)
(* even where forks are possible.                                           *)

LEMMA FilledStep == Types /\ FilledIsConfirmed /\ [Next]_vars => FilledIsConfirmed'
<1> SUFFICES ASSUME Types, FilledIsConfirmed, [Next]_vars PROVE FilledIsConfirmed'
  OBVIOUS
<1>0. CASE UNCHANGED vars
  BY <1>0 DEF FilledIsConfirmed, vars
<1>1. ASSUME NEW o \in Orders, ChainStep(o) PROVE FilledIsConfirmed'
  BY <1>1 DEF Types, FilledIsConfirmed, ChainStep, Move
<1>2. ASSUME NEW o \in Orders, Start(o) \/ RaceWon(o) \/ BundleLanded(o) \/ Landing(o)
      PROVE FilledIsConfirmed'
  BY <1>2 DEF FilledIsConfirmed, Start, RaceWon, BundleLanded, Landing
<1>3. ASSUME NEW o \in Orders, RaceLost(o) \/ BundleGivenUp(o) PROVE FilledIsConfirmed'
  BY <1>3 DEF Types, FilledIsConfirmed, RaceLost, BundleGivenUp, Finish
<1>4. ASSUME NEW o \in Orders, NEW r \in Routes, Answer(o, r) \/ FoldLate(o, r)
      PROVE FilledIsConfirmed'
  BY <1>4 DEF FilledIsConfirmed, Answer, FoldLate
<1>5. ASSUME NEW o \in Orders, LandingTimeout(o) \/ FillTimeout(o) PROVE FilledIsConfirmed'
  BY <1>5 DEF Types, FilledIsConfirmed, LandingTimeout, FillTimeout, Resolve, Finish
<1>6. ASSUME NEW o \in Orders, FillFound(o) PROVE FilledIsConfirmed'
  BY <1>6 DEF Types, FilledIsConfirmed, FillFound, Resolve, Finish, Fill
<1> QED BY <1>0, <1>1, <1>2, <1>3, <1>4, <1>5, <1>6 DEF Next

\* A fill is reported only for a transaction that the chain confirmed
\* (_wait_for_fill), for any orders, routes and forks.
THEOREM FillsAreConfirmed == Spec => []FilledIsConfirmed
<1>1. Init => FilledIsConfirmed
  BY DEF Init, FilledIsConfirmed
<1> QED BY <1>1, TypesInit, TypesStep, FilledStep, PTL DEF Spec

-----------------------------------------------------------------------------
(* Only a bundle that was given up leaves its race in _pending.             *)

LeftInv ==
    /\ \A o \in pending : pc[o] \in {"bundle", "await", "fill", "done"}
    /\ OnlyBundlesLeft

LEMMA LeftStep == Types /\ LeftInv /\ [Next]_vars => LeftInv'
<1> SUFFICES ASSUME Types, LeftInv, [Next]_vars PROVE LeftInv'
  OBVIOUS
<1> USE DEF LeftInv, OnlyBundlesLeft
<1>0. CASE UNCHANGED vars
  BY <1>0 DEF vars
<1>1. ASSUME NEW o \in Orders, ChainStep(o) PROVE LeftInv'
  BY <1>1 DEF ChainStep, Move
<1>2. ASSUME NEW o \in Orders, Start(o) \/ RaceWon(o) \/ BundleLanded(o) \/ Landing(o)
      PROVE LeftInv'
  <2>1. CASE Start(o) BY <2>1 DEF Types, Start
  <2>2. CASE RaceWon(o) BY <2>2 DEF Types, RaceWon
  <2>3. CASE BundleLanded(o) BY <2>3 DEF Types, BundleLanded
  <2>4. CASE Landing(o) BY <2>4 DEF Types, Landing
  <2>5. QED BY <1>2, <2>1, <2>2, <2>3, <2>4
<1>3. ASSUME NEW o \in Orders, RaceLost(o) PROVE LeftInv'
  BY <1>3 DEF Types, RaceLost, Finish
<1>4. ASSUME NEW o \in Orders, NEW r \in Routes, Answer(o, r) PROVE LeftInv'
  <2>1. o \notin pending BY <1>4 DEF Answer
  <2>2. \A q \in Orders \ {o} : accepted'[q] = accepted[q] BY <1>4 DEF Answer, Types
  <2>3. QED BY <1>4, <2>1, <2>2 DEF Answer, Types
<1>5. ASSUME NEW o \in Orders, NEW r \in Routes, FoldLate(o, r) PROVE LeftInv'
  BY <1>5 DEF FoldLate
<1>6. ASSUME NEW o \in Orders, BundleGivenUp(o) PROVE LeftInv'
  <2>1. CASE accepted[o] # {Bundle}
    BY <1>6, <2>1 DEF Types, BundleGivenUp
  <2>2. CASE accepted[o] = {Bundle}
    BY <1>6, <2>2 DEF Types, BundleGivenUp, Finish
  <2>3. QED BY <2>1, <2>2
<1>7. ASSUME NEW o \in Orders, LandingTimeout(o) \/ FillFound(o) \/ FillTimeout(o) PROVE LeftInv'
  BY <1>7 DEF Types, LandingTimeout, FillFound, FillTimeout, Resolve, Finish, Popped
<1> QED BY <1>0, <1>1, <1>2, <1>3, <1>4, <1>5, <1>6, <1>7 DEF Next

\* For any orders, routes and forks: an order that is done and still waits for
\* its resolution was accepted by the bundle lane alone (BundleGivenUp); every
\* other race is resolved by record_landing or was never pending.
THEOREM OnlyBundlesAreLeft == Spec => []OnlyBundlesLeft
<1>1. Init => LeftInv
  BY DEF Init, LeftInv, OnlyBundlesLeft
<1>2. LeftInv => OnlyBundlesLeft
  BY DEF LeftInv
<1> QED BY <1>1, <1>2, TypesInit, TypesStep, LeftStep, PTL DEF Spec

-----------------------------------------------------------------------------
(* The books of a route.  An order counts for a route in two sets: while    *)
(* the route owes it an answer, and while the race it was accepted in is    *)
(* not resolved.  Every step of the router moves one count of RouteStats    *)
(* together with one element of these sets.                                 *)

Stat == [attempts : Nat, accepted : Nat, failures : Nat, resolved : Nat, landed : Nat]

Balanced(s, U, P) ==
    /\ s \in Stat
    /\ s.attempts = s.accepted + s.failures + Cardinality(U)
    /\ s.landed <= s.resolved
    /\ s.resolved + Cardinality(P) <= s.accepted

\* An order that is no longer waited for.
LEMMA Forgotten ==
    ASSUME NEW s, NEW U, NEW P, NEW Q \in SUBSET P, IsFiniteSet(P), Balanced(s, U, P)
    PROVE  Balanced(s, U, Q)
<1>1. Cardinality(Q) <= Cardinality(P) /\ Cardinality(Q) \in Nat /\ Cardinality(P) \in Nat
  BY FS_Subset, FS_CardinalityType
<1> QED BY <1>1, SMT DEF Balanced, Stat

\* race: an attempt starts.
LEMMA Attempted ==
    ASSUME NEW s, NEW U, NEW P, NEW o, o \notin U, IsFiniteSet(U), Balanced(s, U, P)
    PROVE  Balanced([s EXCEPT !.attempts = @ + 1], U \cup {o}, P)
<1>1. Cardinality(U \cup {o}) = Cardinality(U) + 1 /\ Cardinality(U) \in Nat
  BY FS_AddElement, FS_CardinalityType
<1> QED BY <1>1, SMT DEF Balanced, Stat

\* An acknowledgement, before or after the race returned.
LEMMA Acknowledged ==
    ASSUME NEW s, NEW U, NEW P, NEW o, NEW Q, o \in U, Q \in {P, P \cup {o}},
           IsFiniteSet(U), IsFiniteSet(P), Balanced(s, U, P)
    PROVE  Balanced([s EXCEPT !.accepted = @ + 1], U \ {o}, Q)
<1>1. Cardinality(U \ {o}) = Cardinality(U) - 1 /\ Cardinality(U) \in Nat
  BY FS_RemoveElement, FS_CardinalityType
<1>2. Cardinality(P) \in Nat
  BY FS_CardinalityType
<1>3. /\ IsFiniteSet(P \cup {o})
      /\ Cardinality(P \cup {o}) = IF o \in P THEN Cardinality(P) ELSE Cardinality(P) + 1
  BY FS_AddElement
<1>4. Cardinality(Q) \in {Cardinality(P), Cardinality(P) + 1}
  BY <1>3
<1> QED BY <1>1, <1>2, <1>4, SMT DEF Balanced, Stat

\* A refusal or a lost answer.
LEMMA Unacknowledged ==
    ASSUME NEW s, NEW U, NEW P, NEW o, o \in U, IsFiniteSet(U), Balanced(s, U, P)
    PROVE  Balanced([s EXCEPT !.failures = @ + 1], U \ {o}, P)
<1>1. Cardinality(U \ {o}) = Cardinality(U) - 1 /\ Cardinality(U) \in Nat
  BY FS_RemoveElement, FS_CardinalityType
<1> QED BY <1>1, SMT DEF Balanced, Stat

\* record_landing resolves an acknowledged race: landed counts one or nothing.
Learned(s, n) == [s EXCEPT !.resolved = @ + 1, !.landed = @ + n]

LEMMA Resolved ==
    ASSUME NEW s, NEW U, NEW P, NEW o, o \in P, NEW n \in {0, 1},
           IsFiniteSet(P), Balanced(s, U, P)
    PROVE  Balanced(Learned(s, n), U, P \ {o})
<1>1. Cardinality(P \ {o}) = Cardinality(P) - 1 /\ Cardinality(P) \in Nat
  BY FS_RemoveElement, FS_CardinalityType
<1>2. s \in Stat
  BY DEF Balanced
<1>3. s.resolved + 1 \in Nat /\ s.landed + n \in Nat
  BY <1>2 DEF Stat
<1>4. /\ Learned(s, n) \in Stat
      /\ Learned(s, n).resolved = s.resolved + 1 /\ Learned(s, n).landed = s.landed + n
      /\ Learned(s, n).attempts = s.attempts /\ Learned(s, n).accepted = s.accepted
      /\ Learned(s, n).failures = s.failures
  BY <1>2, <1>3 DEF Learned, Stat
<1> HIDE DEF Learned
<1> QED BY <1>1, <1>2, <1>4, SMT DEF Balanced, Stat

Unanswered(r) == {o \in Orders : sub[o][r] \in {"sent", "cut"}}
Unresolved(r) == {o \in Orders : r \in accepted[o] /\ pc[o] # "done"}

\* RouteBooks, with the order's place in the race.
BooksKept ==
    /\ stats \in [Routes -> Stat]
    /\ \A r \in Routes : Balanced(stats[r], Unanswered(r), Unresolved(r))

\* An order that has not started owes no answer, and what the race counted as
\* accepted was acknowledged.
AnswersRecorded ==
    \A o \in Orders :
        /\ pc[o] = "idle" => \A r \in Routes : sub[o][r] = "off"
        /\ \A r \in accepted[o] : sub[o][r] = "ok"

LEMMA AnswersRecordedStep == Types /\ AnswersRecorded /\ [Next]_vars => AnswersRecorded'
<1> SUFFICES ASSUME Types, AnswersRecorded, [Next]_vars PROVE AnswersRecorded'
  OBVIOUS
<1>0. CASE UNCHANGED vars
  BY <1>0 DEF AnswersRecorded, vars
<1>1. ASSUME NEW o \in Orders, ChainStep(o) PROVE AnswersRecorded'
  BY <1>1 DEF AnswersRecorded, ChainStep, Move
<1>2. ASSUME NEW o \in Orders, Start(o) PROVE AnswersRecorded'
  <2>1. accepted[o] = {}
    BY <1>2 DEF Types, AnswersRecorded, Start
  <2> QED BY <1>2, <2>1 DEF Types, AnswersRecorded, Start
<1>3. ASSUME NEW o \in Orders, RaceWon(o) \/ BundleLanded(o) \/ BundleGivenUp(o) \/ Landing(o)
      PROVE AnswersRecorded'
  BY <1>3 DEF Types, AnswersRecorded, RaceWon, BundleLanded, BundleGivenUp, Landing, Finish
<1>7. ASSUME NEW o \in Orders, LandingTimeout(o) \/ FillFound(o) \/ FillTimeout(o)
      PROVE AnswersRecorded'
  <2>1. sub' = sub /\ accepted' = accepted /\ pc' = [pc EXCEPT ![o] = "done"]
    BY <1>7 DEF LandingTimeout, FillFound, FillTimeout, Resolve, Finish
  <2> QED BY <2>1 DEF Types, AnswersRecorded
<1>4. ASSUME NEW o \in Orders, RaceLost(o) PROVE AnswersRecorded'
  BY <1>4 DEF Types, AnswersRecorded, RaceLost, Finish
<1>5. ASSUME NEW o \in Orders, NEW r \in Routes, Answer(o, r) PROVE AnswersRecorded'
  <2>1. PICK how \in {"ok", "refused", "lost"} :
          /\ sub' = [sub EXCEPT ![o][r] = how]
          /\ accepted' = IF how = "ok" THEN [accepted EXCEPT ![o] = @ \union {r}] ELSE accepted
    BY <1>5 DEF Answer
  <2>2. r \notin accepted[o] /\ pc[o] = "race" /\ pc' = pc
    BY <1>5 DEF Answer, AnswersRecorded
  <2> QED BY <2>1, <2>2 DEF Types, AnswersRecorded
<1>6. ASSUME NEW o \in Orders, NEW r \in Routes, FoldLate(o, r) PROVE AnswersRecorded'
  <2>1. PICK how \in {"ok", "refused", "lost"} : sub' = [sub EXCEPT ![o][r] = how]
    BY <1>6 DEF FoldLate
  <2>2. r \notin accepted[o] /\ pc[o] # "idle" /\ pc' = pc /\ accepted' = accepted
    BY <1>6 DEF FoldLate, AnswersRecorded
  <2> QED BY <2>1, <2>2 DEF Types, AnswersRecorded
<1> QED BY <1>0, <1>1, <1>2, <1>3, <1>4, <1>5, <1>6, <1>7 DEF Next

LEMMA BooksKeptStep == Types /\ AnswersRecorded /\ BooksKept /\ [Next]_vars => BooksKept'
<1> SUFFICES ASSUME Types, AnswersRecorded, BooksKept, [Next]_vars PROVE BooksKept'
  OBVIOUS
<1>f. \A r \in Routes : IsFiniteSet(Unanswered(r)) /\ IsFiniteSet(Unresolved(r))
  BY ConstantsAssumption, FS_Subset DEF Unanswered, Unresolved
\* Steps that leave the counts and the answers, and at most end races.
<1>s. ASSUME stats' = stats,
             \A r \in Routes : /\ Unanswered(r)' = Unanswered(r)
                               /\ Unresolved(r)' \subseteq Unresolved(r)
      PROVE  BooksKept'
  BY <1>s, <1>f, Forgotten DEF BooksKept
\* Steps that change the counts of one route.
<1>t. ASSUME NEW r \in Routes, NEW s,
             stats' = [stats EXCEPT ![r] = s],
             Balanced(s, Unanswered(r)', Unresolved(r)'),
             \A q \in Routes \ {r} : /\ Unanswered(q)' = Unanswered(q)
                                     /\ Unresolved(q)' = Unresolved(q)
      PROVE  BooksKept'
  <2>1. s \in Stat
    BY <1>t DEF Balanced
  <2>2. stats' \in [Routes -> Stat] /\ stats'[r] = s
        /\ \A q \in Routes \ {r} : stats'[q] = stats[q]
    BY <1>t, <2>1 DEF BooksKept
  <2> QED BY <1>t, <2>2 DEF BooksKept
<1>0. CASE UNCHANGED vars
  BY <1>0, <1>s DEF vars, Unanswered, Unresolved
<1>1. ASSUME NEW o \in Orders, ChainStep(o) PROVE BooksKept'
  BY <1>1, <1>s DEF ChainStep, Move, Unanswered, Unresolved
<1>2. ASSUME NEW o \in Orders, Start(o) PROVE BooksKept'
  <2>1. ASSUME NEW r \in Routes PROVE Unresolved(r)' = Unresolved(r)
    BY <1>2 DEF Types, Start, Unresolved
  <2>2. ASSUME NEW r \in Enabled(o), r \in Routes
        PROVE  o \notin Unanswered(r) /\ Unanswered(r)' = Unanswered(r) \cup {o}
    BY <1>2, <2>2 DEF Types, AnswersRecorded, Start, Unanswered
  <2>3. ASSUME NEW r \in Routes \ Enabled(o) PROVE Unanswered(r)' = Unanswered(r)
    BY <1>2, <2>3 DEF Types, AnswersRecorded, Start, Unanswered
  <2>4. ASSUME NEW r \in Routes
        PROVE  Balanced(stats'[r], Unanswered(r)', Unresolved(r)') /\ stats'[r] \in Stat
    <3>1. CASE r \in Enabled(o)
      <4>1. stats'[r] = [stats[r] EXCEPT !.attempts = @ + 1]
        BY <1>2, <3>1 DEF Start
      <4>2. Balanced(stats[r], Unanswered(r), Unresolved(r))
        BY DEF BooksKept
      <4>3. Balanced(stats'[r], Unanswered(r)', Unresolved(r)')
        BY <4>1, <4>2, <2>1, <2>2, <3>1, <1>f, Attempted
      <4> QED BY <4>3 DEF Balanced
    <3>2. CASE r \notin Enabled(o)
      <4>1. stats'[r] = stats[r]
        BY <1>2, <3>2 DEF Start
      <4> QED BY <4>1, <2>1, <2>3, <3>2 DEF BooksKept
    <3> QED BY <3>1, <3>2
  <2>5. stats' = [r \in Routes |-> stats'[r]]
    BY <1>2 DEF Start
  <2> QED BY <2>4, <2>5 DEF BooksKept
<1>3. ASSUME NEW o \in Orders,
             RaceWon(o) \/ BundleLanded(o) \/ BundleGivenUp(o) \/ Landing(o)
      PROVE BooksKept'
  BY <1>3, <1>s DEF Types, RaceWon, BundleLanded, BundleGivenUp, Landing, Finish,
                    Unanswered, Unresolved
<1>4. ASSUME NEW o \in Orders, RaceLost(o) PROVE BooksKept'
  <2>1. ASSUME NEW r \in Routes PROVE Unanswered(r)' = Unanswered(r)
    BY <1>4 DEF Types, RaceLost, Unanswered
  <2>2. ASSUME NEW r \in Routes PROVE Unresolved(r)' \subseteq Unresolved(r)
    BY <1>4 DEF Types, RaceLost, Finish, Unresolved
  <2>3. stats' = stats
    BY <1>4 DEF RaceLost
  <2> QED BY <1>s, <2>1, <2>2, <2>3
<1>5. ASSUME NEW o \in Orders, NEW r \in Routes, Answer(o, r) PROVE BooksKept'
  <2>1. PICK how \in {"ok", "refused", "lost"} :
          /\ sub' = [sub EXCEPT ![o][r] = how]
          /\ stats' = Counted(r, how)
          /\ accepted' = IF how = "ok" THEN [accepted EXCEPT ![o] = @ \union {r}] ELSE accepted
    BY <1>5 DEF Answer
  <2>2. pc[o] = "race" /\ sub[o][r] = "sent" /\ pc' = pc
    BY <1>5 DEF Answer
  <2>3. o \in Unanswered(r) /\ Unanswered(r)' = Unanswered(r) \ {o}
    BY <2>1, <2>2 DEF Types, Unanswered
  <2>4. \A q \in Routes \ {r} : Unanswered(q)' = Unanswered(q) /\ Unresolved(q)' = Unresolved(q)
    BY <2>1, <2>2 DEF Types, Unanswered, Unresolved
  <2>5. stats[r] \in Stat /\ Balanced(stats[r], Unanswered(r), Unresolved(r))
    BY DEF BooksKept
  <2>6. CASE how = "ok"
    <3>1. Unresolved(r)' = Unresolved(r) \cup {o}
      BY <2>1, <2>2, <2>6 DEF Types, Unresolved
    <3>2. stats' = [stats EXCEPT ![r] = [stats[r] EXCEPT !.accepted = @ + 1]]
      BY <2>1, <2>6 DEF Counted, BooksKept
    <3>3. Balanced([stats[r] EXCEPT !.accepted = @ + 1], Unanswered(r)', Unresolved(r)')
      BY <2>3, <2>5, <3>1, <1>f, Acknowledged
    <3> QED BY <1>t, <2>4, <3>2, <3>3
  <2>7. CASE how # "ok"
    <3>1. Unresolved(r)' = Unresolved(r)
      BY <2>1, <2>2, <2>7 DEF Unresolved
    <3>2. stats' = [stats EXCEPT ![r] = [stats[r] EXCEPT !.failures = @ + 1]]
      BY <2>1, <2>7 DEF Counted, BooksKept
    <3>3. Balanced([stats[r] EXCEPT !.failures = @ + 1], Unanswered(r)', Unresolved(r)')
      BY <2>3, <2>5, <3>1, <1>f, Unacknowledged
    <3> QED BY <1>t, <2>4, <3>2, <3>3
  <2> QED BY <2>6, <2>7
<1>6. ASSUME NEW o \in Orders, NEW r \in Routes, FoldLate(o, r) PROVE BooksKept'
  <2>1. PICK how \in {"ok", "refused", "lost"} :
          sub' = [sub EXCEPT ![o][r] = how] /\ stats' = Folded(r, how)
    BY <1>6 DEF FoldLate
  <2>2. sub[o][r] = "sent" /\ pc' = pc /\ accepted' = accepted
    BY <1>6 DEF FoldLate
  <2>3. o \in Unanswered(r) /\ Unanswered(r)' = Unanswered(r) \ {o}
    BY <2>1, <2>2 DEF Types, Unanswered
  <2>4. \A q \in Routes \ {r} : Unanswered(q)' = Unanswered(q)
    BY <2>1, <2>2 DEF Types, Unanswered
  <2>5. \A q \in Routes : Unresolved(q)' = Unresolved(q)
    BY <2>2 DEF Unresolved
  <2>6. stats[r] \in Stat /\ Balanced(stats[r], Unanswered(r), Unresolved(r))
    BY DEF BooksKept
  <2>7. CASE how = "ok"
    <3>2. stats' = [stats EXCEPT ![r] = [stats[r] EXCEPT !.accepted = @ + 1]]
      BY <2>1, <2>7 DEF Folded, Counted, BooksKept
    <3>3. Balanced([stats[r] EXCEPT !.accepted = @ + 1], Unanswered(r)', Unresolved(r)')
      BY <2>3, <2>5, <2>6, <1>f, Acknowledged
    <3> QED BY <1>t, <2>4, <2>5, <3>2, <3>3
  <2>8. CASE how # "ok"
    <3>2. stats' = [stats EXCEPT ![r] = [stats[r] EXCEPT !.failures = @ + 1]]
      BY <2>1, <2>8 DEF Folded, Counted, BooksKept
    <3>3. Balanced([stats[r] EXCEPT !.failures = @ + 1], Unanswered(r)', Unresolved(r)')
      BY <2>3, <2>5, <2>6, <1>f, Unacknowledged
    <3> QED BY <1>t, <2>4, <2>5, <3>2, <3>3
  <2> QED BY <2>7, <2>8
<1>7. ASSUME NEW o \in Orders, NEW n \in {0, 1}, pc[o] \in {"await", "fill"},
             stats' = [r \in Routes |-> IF o \in pending /\ r \in accepted[o]
                                        THEN Learned(stats[r], n) ELSE stats[r]],
             sub' = sub, accepted' = accepted, pc' = [pc EXCEPT ![o] = "done"]
      PROVE BooksKept'
  <2>1. \A r \in Routes : Unanswered(r)' = Unanswered(r)
    BY <1>7 DEF Unanswered
  <2>2. \A r \in Routes : Unresolved(r)' = Unresolved(r) \ {o}
    BY <1>7 DEF Types, Unresolved
  <2>3. ASSUME NEW r \in Routes
        PROVE  Balanced(stats'[r], Unanswered(r)', Unresolved(r)') /\ stats'[r] \in Stat
    <3>0. Balanced(stats[r], Unanswered(r), Unresolved(r)) /\ stats[r] \in Stat
      BY DEF BooksKept
    <3>1. CASE o \in pending /\ r \in accepted[o]
      <4>1. stats'[r] = Learned(stats[r], n)
        BY <1>7, <3>1
      <4>2. o \in Unresolved(r)
        BY <1>7, <3>1 DEF Unresolved
      <4>3. Balanced(Learned(stats[r], n), Unanswered(r), Unresolved(r) \ {o})
        <5>1. IsFiniteSet(Unresolved(r))
          BY <1>f
        <5>2. Balanced(stats[r], Unanswered(r), Unresolved(r))
          BY <3>0
        <5>3. n \in {0, 1}
          BY <1>7
        <5> QED BY <5>1, <5>2, <5>3, <4>2, Resolved
      <4> QED BY <4>1, <4>3, <2>1, <2>2 DEF Balanced
    <3>2. CASE ~(o \in pending /\ r \in accepted[o])
      <4>1. stats'[r] = stats[r]
        BY <1>7, <3>2
      <4> QED BY <4>1, <3>0, <2>1, <2>2, <1>f, Forgotten
    <3> QED BY <3>1, <3>2
  <2>4. stats' = [r \in Routes |-> stats'[r]]
    BY <1>7
  <2> QED BY <2>3, <2>4 DEF BooksKept
<1>l. ASSUME NEW r \in Routes
      PROVE  /\ Learned(stats[r], 0) = [stats[r] EXCEPT !.resolved = @ + 1, !.landed = @]
             /\ Learned(stats[r], 1) = [stats[r] EXCEPT !.resolved = @ + 1, !.landed = @ + 1]
  <2>1. stats[r] \in Stat
    BY DEF BooksKept
  <2>2. stats[r].landed + 0 = stats[r].landed
    BY <2>1 DEF Stat
  <2> QED BY <2>2, Zenon DEF Learned
<1>8. ASSUME NEW o \in Orders, LandingTimeout(o) PROVE BooksKept'
  <2>1. stats' = [r \in Routes |-> IF o \in pending /\ r \in accepted[o]
                                   THEN Learned(stats[r], 0) ELSE stats[r]]
    BY <1>8, <1>l DEF LandingTimeout, Resolve
  <2> QED BY <1>7, <1>8, <2>1 DEF LandingTimeout, Resolve, Finish
<1>9. ASSUME NEW o \in Orders, FillFound(o) \/ FillTimeout(o) PROVE BooksKept'
  <2>1. stats' = [r \in Routes |-> IF o \in pending /\ r \in accepted[o]
                                   THEN Learned(stats[r], 1) ELSE stats[r]]
    BY <1>9, <1>l DEF FillFound, FillTimeout, Resolve
  <2> QED BY <1>7, <1>9, <2>1 DEF FillFound, FillTimeout, Resolve, Finish
<1> QED BY <1>0, <1>1, <1>2, <1>3, <1>4, <1>5, <1>6, <1>8, <1>9 DEF Next

\* The statistics the router chooses its routes by are exact for any number of
\* orders and routes, late answers (_fold_late) and abandoned races included.
THEOREM RouteBooksBalance == Spec => []RouteBooks
<1>1. Init => AnswersRecorded /\ BooksKept
  <2>1. Init => AnswersRecorded
    BY DEF Init, AnswersRecorded
  <2>2. ASSUME Init, NEW r \in Routes PROVE Unanswered(r) = {} /\ Unresolved(r) = {}
    BY <2>2 DEF Init, Unanswered, Unresolved
  <2>3. Init => stats \in [Routes -> Stat]
    BY DEF Init, Stat
  <2>4. ASSUME Init, NEW r \in Routes PROVE Balanced(stats[r], {}, {})
    BY <2>4, FS_EmptySet DEF Init, Balanced, Stat
  <2> QED BY <2>1, <2>2, <2>3, <2>4 DEF BooksKept
<1>2. BooksKept => RouteBooks
  <2> SUFFICES ASSUME BooksKept, NEW r \in Routes
      PROVE /\ stats[r].attempts = stats[r].accepted + stats[r].failures
                                   + Cardinality(Unanswered(r))
            /\ stats[r].landed <= stats[r].resolved /\ stats[r].resolved <= stats[r].accepted
    BY DEF RouteBooks, Unanswered
  <2>1. Balanced(stats[r], Unanswered(r), Unresolved(r))
    BY DEF BooksKept
  <2>2. Cardinality(Unresolved(r)) \in Nat
    BY ConstantsAssumption, FS_Subset, FS_CardinalityType DEF Unresolved
  <2> QED BY <2>1, <2>2, SMT DEF Balanced, Stat
<1> QED BY <1>1, <1>2, TypesInit, TypesStep, AnswersRecordedStep, BooksKeptStep, PTL DEF Spec
=============================================================================
