------------------------ MODULE SignerChannelProofs ------------------------
(***************************************************************************)
(* What SignerChannel promises for any calls, rate limit, window and       *)
(* number of restarts.                                                     *)
(***************************************************************************)
EXTENDS SignerChannel, FiniteSetTheorems, SequenceTheorems, TLAPS

-----------------------------------------------------------------------------
(* Sequences: one element replaced, the head taken, one appended.           *)

LEMMA Replaced ==
    ASSUME NEW S, NEW s \in Seq(S), NEW c \in 1..Len(s), NEW x \in S
    PROVE  /\ [s EXCEPT ![c] = x] \in Seq(S)
           /\ Len([s EXCEPT ![c] = x]) = Len(s)
           /\ [s EXCEPT ![c] = x][c] = x
           /\ \A d \in 1..Len(s) : d # c => [s EXCEPT ![c] = x][d] = s[d]
  BY ExceptSeq

LEMMA Dropped ==
    ASSUME NEW S, NEW s \in Seq(S), s # <<>>
    PROVE  /\ Tail(s) \in Seq(S) /\ Head(s) \in S /\ Head(s) = s[1]
           /\ Len(s) >= 1 /\ Len(Tail(s)) = Len(s) - 1
           /\ \A i \in 1..(Len(s) - 1) : Tail(s)[i] = s[i + 1]
  BY HeadTailProperties

LEMMA Appended ==
    ASSUME NEW S, NEW s \in Seq(S), NEW x \in S
    PROVE  /\ Append(s, x) \in Seq(S)
           /\ Len(Append(s, x)) = Len(s) + 1
           /\ Append(s, x)[Len(s) + 1] = x
           /\ \A i \in 1..Len(s) : Append(s, x)[i] = s[i]
  BY AppendProperties

-----------------------------------------------------------------------------
(* What _rate_limited keeps of the window.                                  *)

LEMMA SomeAreKept ==
    ASSUME recent \in Seq(Nat), now \in Nat
    PROVE  /\ Popped \in 0..Len(recent)
           /\ \A i \in 1..Popped : now - recent[i] > Window
<1> DEFINE Stale == {n \in 1..Len(recent) : \A i \in 1..n : now - recent[i] > Window}
<1>0. Len(recent) \in Nat
  BY LenProperties
<1>1. IsFiniteSet(1..Len(recent)) /\ Cardinality(1..Len(recent)) = Len(recent)
  <2>1. /\ IsFiniteSet(1..Len(recent))
        /\ Cardinality(1..Len(recent)) = IF 1 > Len(recent) THEN 0 ELSE Len(recent) - 1 + 1
    BY <1>0, FS_Interval
  <2> QED BY <1>0, <2>1
<1>2. Popped = Cardinality(Stale)
  BY DEF Popped
<1>3. Popped \in Nat /\ Popped <= Len(recent)
  BY <1>1, <1>2, FS_Subset, FS_CardinalityType
<1>4. ASSUME NEW i \in 1..Popped PROVE i \in Stale
  <2>1. SUFFICES ASSUME i \notin Stale PROVE FALSE
    OBVIOUS
  <2>2. Stale \subseteq 1..(i - 1)
    BY <2>1, <1>3, <1>0
  <2>3. IsFiniteSet(1..(i - 1)) /\ Cardinality(1..(i - 1)) = i - 1
    BY <1>3, FS_Interval
  <2>4. Cardinality(Stale) <= i - 1
    BY <2>2, <2>3, FS_Subset
  <2> QED BY <2>4, <1>2, <1>3
<1>5. \A i \in 1..Popped : now - recent[i] > Window
  BY <1>3, <1>4
<1> QED BY <1>0, <1>3, <1>5

\* What is kept ends where recent ends.
LEMMA KeptIsASuffix ==
    ASSUME recent \in Seq(Nat), now \in Nat
    PROVE  /\ Trimmed \in Seq(Nat) /\ Len(Trimmed) = Len(recent) - Popped
           /\ \A i \in 1..Len(Trimmed) : Trimmed[i] = recent[Popped + i]
<1>1. Popped \in 0..Len(recent) /\ Len(recent) \in Nat
  BY SomeAreKept, LenProperties
<1>2. \A i \in (Popped + 1)..Len(recent) : recent[i] \in Nat
  BY <1>1, ElementOfSeq
<1>3. /\ Trimmed \in Seq(Nat)
      /\ Len(Trimmed) = IF Popped + 1 <= Len(recent) THEN Len(recent) - (Popped + 1) + 1 ELSE 0
      /\ \A i \in 1..(Len(recent) - (Popped + 1) + 1) : Trimmed[i] = recent[Popped + 1 + i - 1]
  BY <1>1, <1>2, SubSeqProperties DEF Trimmed
<1>4. Len(Trimmed) = Len(recent) - Popped
  <2>1. CASE Popped + 1 <= Len(recent)
    BY <1>1, <1>3, <2>1
  <2>2. CASE ~(Popped + 1 <= Len(recent))
    <3>1. Len(recent) - Popped = 0
      BY <1>1, <2>2
    <3> QED BY <1>3, <2>2, <3>1
  <2> QED BY <2>1, <2>2
<1>5. ASSUME NEW i \in 1..Len(Trimmed) PROVE Trimmed[i] = recent[Popped + i]
  <2>1. i \in 1..(Len(recent) - (Popped + 1) + 1) /\ Popped + 1 + i - 1 = Popped + i
    BY <1>1, <1>4
  <2> QED BY <2>1, <1>3
<1> QED BY <1>3, <1>4, <1>5

-----------------------------------------------------------------------------
(* What each step does to the connections.                                  *)

LEMMA Connections ==
    ASSUME TypeOK, NEW c \in DOMAIN conns
    PROVE  /\ c \in 1..Len(conns) /\ conns[c] \in Conn
           /\ conns[c].reqs \in Seq(Call) /\ conns[c].resps \in Seq(Answer)
           /\ conns[c].served \in BOOLEAN
<1>1. conns \in Seq(Conn) /\ DOMAIN conns = 1..Len(conns)
  BY LenProperties DEF TypeOK
<1>2. conns[c] \in Conn
  BY <1>1, ElementOfSeq
<1> QED BY <1>1, <1>2 DEF Conn

LEMMA HeldIsOpen ==
    ASSUME TypeOK, held # NoConn
    PROVE  held \in DOMAIN conns /\ held \in 1..Len(conns)
<1>1. conns \in Seq(Conn) /\ DOMAIN conns = 1..Len(conns) /\ Len(conns) \in Nat
  BY LenProperties DEF TypeOK
<1> QED BY <1>1 DEF TypeOK, NoConn

LEMMA Contents ==
    ASSUME TypeOK, NEW c \in DOMAIN conns
    PROVE  /\ Range(conns[c].reqs) \subseteq Call /\ Range(conns[c].resps) \subseteq Answer
           /\ \A a \in Range(conns[c].resps) : a.of \in Call
<1>1. conns[c].reqs \in Seq(Call) /\ conns[c].resps \in Seq(Answer)
  BY Connections
<1>2. Range(conns[c].reqs) \subseteq Call /\ Range(conns[c].resps) \subseteq Answer
  <2>1. /\ conns[c].reqs \in [1..Len(conns[c].reqs) -> Call]
        /\ conns[c].resps \in [1..Len(conns[c].resps) -> Answer]
    BY <1>1, LenProperties
  <2> QED BY <2>1 DEF Range
<1> QED BY <1>2 DEF Answer

\* Connection c is x now, and the others are what they were.
Becomes(c, x) ==
    /\ conns' \in Seq(Conn) /\ Len(conns') = Len(conns)
    /\ DOMAIN conns' = DOMAIN conns
    /\ conns'[c] = x
    /\ \A d \in DOMAIN conns : d # c => conns'[d] = conns[d]

LEMMA OneBecomes ==
    ASSUME TypeOK, NEW c \in DOMAIN conns, NEW x \in Conn, conns' = [conns EXCEPT ![c] = x]
    PROVE  Becomes(c, x)
<1>1. conns \in Seq(Conn) /\ DOMAIN conns = 1..Len(conns) /\ c \in 1..Len(conns)
  BY LenProperties DEF TypeOK
<1>2. /\ conns' \in Seq(Conn) /\ Len(conns') = Len(conns) /\ conns'[c] = x
      /\ \A d \in 1..Len(conns) : d # c => conns'[d] = conns[d]
  BY <1>1, Replaced
<1>3. DOMAIN conns' = 1..Len(conns')
  BY <1>2, LenProperties
<1> QED BY <1>1, <1>2, <1>3 DEF Becomes

LEMMA SendNewEffect ==
    ASSUME TypeOK, NEW k \in Call, SendNew(k)
    PROVE  /\ conns' \in Seq(Conn) /\ Len(conns') = Len(conns) + 1 /\ Len(conns) \in Nat
           /\ DOMAIN conns' = DOMAIN conns \cup {held'} /\ held' \notin DOMAIN conns
           /\ held' = Len(conns) + 1
           /\ conns'[held'] \in Conn
           /\ conns'[held'].reqs = <<k>> /\ conns'[held'].resps = <<>>
           /\ \A d \in DOMAIN conns : conns'[d] = conns[d]
<1> DEFINE x == [served |-> TRUE, reqs |-> <<k>>, resps |-> <<>>]
<1>1. conns \in Seq(Conn) /\ DOMAIN conns = 1..Len(conns) /\ Len(conns) \in Nat
  BY LenProperties DEF TypeOK
<1>2. x \in Conn /\ x.reqs = <<k>> /\ x.resps = <<>>
  BY DEF Conn
<1>3. conns' = Append(conns, x) /\ held' = Len(conns')
  BY DEF SendNew
<1> HIDE DEF x
<1>4. /\ conns' \in Seq(Conn) /\ Len(conns') = Len(conns) + 1
      /\ conns'[Len(conns) + 1] = x
      /\ \A d \in 1..Len(conns) : conns'[d] = conns[d]
  BY <1>1, <1>2, <1>3, Appended
<1>5. DOMAIN conns' = 1..Len(conns')
  BY <1>4, LenProperties
<1>6. held' = Len(conns) + 1
  BY <1>3, <1>4
<1>7. DOMAIN conns' = DOMAIN conns \cup {held'} /\ held' \notin DOMAIN conns
  BY <1>1, <1>4, <1>5, <1>6
<1>8. conns'[held'] = x
  BY <1>4, <1>6
<1>9. conns'[held'] \in Conn /\ conns'[held'].reqs = <<k>> /\ conns'[held'].resps = <<>>
  BY <1>2, <1>8
<1> QED BY <1>1, <1>4, <1>6, <1>7, <1>9

LEMMA SendHeldEffect ==
    ASSUME TypeOK, NEW k \in Call, SendHeld(k)
    PROVE  /\ held \in DOMAIN conns
           /\ \E x \in Conn : /\ Becomes(held, x) /\ x.resps = conns[held].resps
                              /\ x.reqs \in {conns[held].reqs, Append(conns[held].reqs, k)}
<1>1. held \in DOMAIN conns
  BY HeldIsOpen DEF SendHeld
<1>2. /\ conns[held] \in Conn /\ conns[held].reqs \in Seq(Call)
      /\ conns \in Seq(Conn) /\ DOMAIN conns = 1..Len(conns)
  BY <1>1, Connections, LenProperties DEF TypeOK
<1>3. CASE conns[held].served
  <2> DEFINE x == [conns[held] EXCEPT !.reqs = Append(conns[held].reqs, k)]
  <2>1. Append(conns[held].reqs, k) \in Seq(Call)
    BY <1>2, Appended
  <2>2. x \in Conn /\ x.resps = conns[held].resps /\ x.reqs = Append(conns[held].reqs, k)
    BY <1>2, <2>1 DEF Conn
  <2>3. conns' = [conns EXCEPT ![held] = x]
    BY <1>3 DEF SendHeld
  <2> HIDE DEF x
  <2>4. Becomes(held, x)
    BY <1>1, <2>2, <2>3, OneBecomes
  <2> QED BY <1>1, <2>2, <2>4
<1>4. CASE ~conns[held].served
  <2>1. conns' = conns
    BY <1>4 DEF SendHeld
  <2>2. Becomes(held, conns[held])
    BY <1>2, <2>1 DEF Becomes
  <2> QED BY <1>1, <1>2, <2>2
<1> QED BY <1>3, <1>4

LEMMA ReadEffect ==
    ASSUME TypeOK, held # NoConn, NEW k \in Call, Read(k)
    PROVE  /\ held \in DOMAIN conns /\ conns[held].resps # <<>>
           /\ Head(conns[held].resps) \in Answer
           /\ \E x \in Conn : /\ Becomes(held, x) /\ x.reqs = conns[held].reqs
                              /\ x.resps = Tail(conns[held].resps)
<1>1. held \in DOMAIN conns /\ conns[held].resps # <<>>
  BY HeldIsOpen DEF Read
<1>2. conns[held] \in Conn /\ conns[held].resps \in Seq(Answer)
  BY <1>1, Connections
<1>3. Tail(conns[held].resps) \in Seq(Answer) /\ Head(conns[held].resps) \in Answer
  BY <1>1, <1>2, Dropped
<1> DEFINE x == [conns[held] EXCEPT !.resps = Tail(conns[held].resps)]
<1>4. x \in Conn /\ x.reqs = conns[held].reqs /\ x.resps = Tail(conns[held].resps)
  BY <1>2, <1>3 DEF Conn
<1>5. conns' = [conns EXCEPT ![held] = x]
  BY DEF Read
<1> HIDE DEF x
<1>6. Becomes(held, x)
  BY <1>1, <1>4, <1>5, OneBecomes
<1> QED BY <1>1, <1>3, <1>4, <1>6

LEMMA ServeEffect ==
    ASSUME TypeOK, NEW c \in DOMAIN conns, NEW readable \in BOOLEAN, Serve(c, readable)
    PROVE  /\ conns[c].reqs # <<>> /\ Head(conns[c].reqs) \in Call
           /\ Verdict(Head(conns[c].reqs), readable) \in {"ok", "refused"}
           /\ \E x \in Conn : \E a \in Answer :
                 /\ Becomes(c, x)
                 /\ a.of = Head(conns[c].reqs) /\ a.status = Verdict(Head(conns[c].reqs), readable)
                 /\ x.reqs = Tail(conns[c].reqs)
                 /\ x.resps = Append(conns[c].resps, a)
<1> DEFINE k == Head(conns[c].reqs)
           a == [of |-> k, status |-> Verdict(k, readable)]
           x == [conns[c] EXCEPT !.reqs = Tail(conns[c].reqs), !.resps = Append(conns[c].resps, a)]
<1>1. conns[c] \in Conn /\ conns[c].reqs \in Seq(Call) /\ conns[c].resps \in Seq(Answer)
  BY Connections
<1>2. conns[c].reqs # <<>> /\ conns' = [conns EXCEPT ![c] = x]
  <2>1. conns' = [conns EXCEPT ![c].reqs = Tail(@), ![c].resps = Append(@, a)]
    BY DEF Serve
  <2>2. conns[c].reqs # <<>>
    BY DEF Serve
  <2>3. [conns EXCEPT ![c].reqs = Tail(@), ![c].resps = Append(@, a)] = [conns EXCEPT ![c] = x]
    <3> HIDE DEF a
    <3> QED BY <1>1 DEF Conn
  <2> QED BY <2>1, <2>2, <2>3
<1>3. k \in Call /\ Tail(conns[c].reqs) \in Seq(Call)
  BY <1>1, <1>2, Dropped
<1>4. Verdict(k, readable) \in {"ok", "refused"}
  BY DEF Verdict
<1>5. a \in Answer /\ a.of = k /\ a.status = Verdict(k, readable)
  BY <1>3, <1>4 DEF Answer
<1> HIDE DEF a
<1>6. Append(conns[c].resps, a) \in Seq(Answer)
  BY <1>1, <1>5, Appended
<1>7. x \in Conn /\ x.reqs = Tail(conns[c].reqs) /\ x.resps = Append(conns[c].resps, a)
  BY <1>1, <1>3, <1>6 DEF Conn
<1> HIDE DEF x
<1>8. Becomes(c, x)
  BY <1>2, <1>7, OneBecomes
<1> QED BY <1>2, <1>3, <1>4, <1>5, <1>7, <1>8

LEMMA StopEffect ==
    ASSUME TypeOK, ServerStops
    PROVE  /\ conns' \in Seq(Conn) /\ Len(conns') = Len(conns) /\ DOMAIN conns' = DOMAIN conns
           /\ \A c \in DOMAIN conns : conns'[c].reqs = <<>> /\ conns'[c].resps = conns[c].resps
<1>1. conns \in Seq(Conn) /\ DOMAIN conns = 1..Len(conns) /\ Len(conns) \in Nat
  BY LenProperties DEF TypeOK
<1>2. ASSUME NEW c \in DOMAIN conns
      PROVE  /\ conns'[c] \in Conn
             /\ conns'[c].reqs = <<>> /\ conns'[c].resps = conns[c].resps
  <2>1. PICK no \in BOOLEAN : conns'[c] = [conns[c] EXCEPT !.served = no, !.reqs = <<>>]
    BY DEF ServerStops
  <2>2. conns[c] \in Conn /\ <<>> \in Seq(Call)
    BY Connections, EmptySeq
  <2> QED BY <2>1, <2>2 DEF Conn
<1>3. conns' \in [1..Len(conns) -> Conn]
  BY <1>1, <1>2 DEF ServerStops
<1>4. conns' \in Seq(Conn)
  BY <1>1, <1>3, SeqDef
<1>5. Len(conns') = Len(conns) /\ DOMAIN conns' = DOMAIN conns
  BY <1>1, <1>3, <1>4, LenProperties
<1> QED BY <1>2, <1>4, <1>5

-----------------------------------------------------------------------------
(* Types, and where the one call that holds the lock can be.                *)

\* Whoever sends or reads holds the lock.
Locking == \A k \in Call : pc[k] \in {"send", "read"} <=> lock = k

\* A reader has a connection, a second attempt starts without one, and a call
\* has no result before its end.
Attempts ==
    \A k \in Call :
        /\ pc[k] \in {"idle", "queued"} => attempt[k] = 0
        /\ pc[k] = "read" => held # NoConn
        /\ pc[k] = "send" /\ attempt[k] = 1 => held = NoConn
        /\ pc[k] # "done" => outcome[k] = Ending(k, "none")

LEMMA Endings ==
    ASSUME NEW k \in Call, NEW status \in {"none", "raised", "cancelled"}
    PROVE  /\ Ending(k, status) \in Outcome
           /\ Ending(k, status).of = k /\ Ending(k, status).status = status
  BY DEF Ending, Outcome

\* The three ways an attempt fails end in the same way.
LEMMA FailedAttempts ==
    ASSUME NEW k \in Call, ConnectFails(k) \/ ReadEnds(k) \/ TimesOut(k)
    PROVE  /\ pc[k] \in {"send", "read"} /\ AttemptFails(k)
           /\ UNCHANGED <<conns, daemon, halted, now>>
  BY DEF ConnectFails, ReadEnds, TimesOut

LEMMA TypeInit == Init => TypeOK /\ Locking /\ Attempts
<1> SUFFICES ASSUME Init PROVE TypeOK /\ Locking /\ Attempts
  OBVIOUS
<1>1. \A k \in Call : Ending(k, "none") \in Outcome
  BY Endings
<1>2. outcome \in [Call -> Outcome]
  BY <1>1 DEF Init
<1>3. held \in 0..Len(conns) /\ conns \in Seq(Conn)
  BY EmptySeq DEF Init, NoConn
<1>4. recent \in Seq(Nat) /\ ledger \in Seq(Signature)
  BY EmptySeq DEF Init
<1>5. TypeOK
  BY <1>2, <1>3, <1>4 DEF Init, TypeOK, Nobody
<1>6. Locking
  BY NobodyCalls DEF Init, Locking
<1>7. Attempts
  BY DEF Init, Attempts
<1> QED BY <1>5, <1>6, <1>7

LEMMA TypeStep == TypeOK /\ Attempts /\ [Next]_vars => TypeOK'
<1> SUFFICES ASSUME TypeOK, Attempts, [Next]_vars PROVE TypeOK'
  OBVIOUS
<1>l. conns \in Seq(Conn) /\ Len(conns) \in Nat
  BY LenProperties DEF TypeOK
<1>0. CASE UNCHANGED vars
  BY <1>0 DEF TypeOK, vars, client, daemon
<1>1. ASSUME NEW k \in Call, Begin(k) PROVE TypeOK'
  BY <1>1 DEF TypeOK, Begin, daemon
<1>2. ASSUME NEW k \in Call, Acquire(k) PROVE TypeOK'
  BY <1>2 DEF TypeOK, Acquire, daemon
<1>3. ASSUME NEW k \in Call, SendNew(k) PROVE TypeOK'
  <2>1. conns' \in Seq(Conn) /\ held' \in 0..Len(conns')
    BY <1>3, <1>l, SendNewEffect
  <2> QED BY <1>3, <2>1 DEF TypeOK, SendNew, daemon
<1>4. ASSUME NEW k \in Call, SendHeld(k) PROVE TypeOK'
  <2>1. conns' \in Seq(Conn) /\ held' \in 0..Len(conns')
    BY <1>4, SendHeldEffect DEF Becomes, SendHeld, TypeOK
  <2> QED BY <1>4, <2>1 DEF TypeOK, SendHeld, daemon
<1>5. ASSUME NEW k \in Call, ConnectFails(k) \/ ReadEnds(k) \/ TimesOut(k) PROVE TypeOK'
  <2>1. AttemptFails(k) /\ UNCHANGED <<conns, daemon, halted, now>>
    BY <1>5, FailedAttempts
  <2>2. Ending(k, "raised") \in Outcome
    BY Endings
  <2>3. held' \in 0..Len(conns')
    BY <2>1, <1>l DEF AttemptFails, NoConn
  <2>4. outcome' \in [Call -> Outcome] /\ lock' \in Call \cup {Nobody}
    BY <2>1, <2>2 DEF AttemptFails, Finish, TypeOK
  <2>5. /\ attempt' \in [Call -> {0, 1}] /\ late' = late
        /\ pc' \in [Call -> {"idle", "queued", "send", "read", "done"}]
    BY <2>1 DEF AttemptFails, Finish, TypeOK
  <2> QED BY <2>1, <2>3, <2>4, <2>5 DEF TypeOK, daemon
<1>6. ASSUME NEW k \in Call, Read(k) PROVE TypeOK'
  <2>1. held # NoConn
    BY <1>6 DEF Read, Attempts
  <2>2. /\ Head(conns[held].resps) \in Answer
        /\ conns' \in Seq(Conn) /\ Len(conns') = Len(conns)
    BY <1>6, <2>1, ReadEffect DEF Becomes
  <2>3. Head(conns[held].resps) \in Outcome
    BY <2>2 DEF Answer, Outcome
  <2>4. /\ outcome' \in [Call -> Outcome] /\ lock' \in Call \cup {Nobody}
        /\ pc' \in [Call -> {"idle", "queued", "send", "read", "done"}]
    BY <1>6, <2>3 DEF Read, Finish, TypeOK
  <2> QED BY <1>6, <2>2, <2>4 DEF TypeOK, Read, Finish, daemon
<1>7. ASSUME NEW k \in Call, CancelCall(k) PROVE TypeOK'
  <2>1. Ending(k, "cancelled") \in Outcome
    BY Endings
  <2>2. outcome' \in [Call -> Outcome]
    BY <1>7, <2>1 DEF CancelCall, TypeOK
  <2> QED BY <1>7, <2>2 DEF TypeOK, CancelCall, daemon
<1>8. ASSUME NEW c \in DOMAIN conns, NEW readable \in BOOLEAN, Serve(c, readable)
      PROVE  TypeOK'
  <2> DEFINE k == Head(conns[c].reqs)
             e == [call |-> k, at |-> now, life |-> restarts]
  <2>1. k \in Call /\ conns' \in Seq(Conn) /\ Len(conns') = Len(conns)
    BY <1>8, ServeEffect DEF Becomes
  <2>2. Trimmed \in Seq(Nat)
    BY KeptIsASuffix DEF TypeOK
  <2>3. Append(Trimmed, now) \in Seq(Nat)
    BY <2>2, Appended DEF TypeOK
  <2>4. recent' \in {recent, Trimmed, Append(Trimmed, now)}
    BY <1>8 DEF Serve
  <2>5. e \in Signature
    BY <2>1 DEF TypeOK, Signature
  <2>6. ledger' \in {ledger, Append(ledger, e)}
    BY <1>8 DEF Serve
  <2> HIDE DEF e
  <2>7. recent' \in Seq(Nat) /\ ledger' \in Seq(Signature)
    <3>1. ledger \in Seq(Signature) /\ recent \in Seq(Nat)
      BY DEF TypeOK
    <3>2. Append(ledger, e) \in Seq(Signature)
      BY <2>5, <3>1, Appended
    <3> QED BY <2>2, <2>3, <2>4, <2>6, <3>1, <3>2
  <2>8. UNCHANGED <<client, up, restarts, halted, now>>
    BY <1>8 DEF Serve
  <2>9. unseen' \subseteq Call
    BY <1>8, <2>1 DEF Serve, TypeOK
  <2> QED BY <2>1, <2>7, <2>8, <2>9 DEF TypeOK, client
<1>9. CASE ServerStops
  <2>1. conns' \in Seq(Conn) /\ Len(conns') = Len(conns)
    BY <1>9, StopEffect
  <2> QED BY <1>9, <2>1 DEF TypeOK, ServerStops, client
<1>10. CASE ServerStarts
  BY <1>10, EmptySeq DEF TypeOK, ServerStarts, client
<1>11. CASE Halt
  BY <1>11 DEF TypeOK, Halt, client, daemon
<1>12. CASE Tick
  BY <1>12 DEF TypeOK, Tick, client, daemon
<1> QED BY <1>0, <1>1, <1>2, <1>3, <1>4, <1>5, <1>6, <1>7, <1>8, <1>9, <1>10, <1>11, <1>12
        DEF Next, ClientStep

LEMMA LockStep == TypeOK /\ Locking /\ Attempts /\ [Next]_vars => Locking' /\ Attempts'
<1> SUFFICES ASSUME TypeOK, Locking, Attempts, [Next]_vars PROVE Locking' /\ Attempts'
  OBVIOUS
<1>s. ASSUME UNCHANGED client PROVE Locking' /\ Attempts'
  BY <1>s DEF Locking, Attempts, client
<1>0. CASE UNCHANGED vars
  BY <1>0, <1>s DEF vars
<1>1. ASSUME NEW k \in Call, Begin(k) PROVE Locking' /\ Attempts'
  BY <1>1 DEF TypeOK, Locking, Attempts, Begin
<1>2. ASSUME NEW k \in Call, Acquire(k) PROVE Locking' /\ Attempts'
  BY <1>2, NobodyCalls DEF TypeOK, Locking, Attempts, Acquire
<1>3. ASSUME NEW k \in Call, SendNew(k) PROVE Locking' /\ Attempts'
  <2>1. held' # NoConn
    BY <1>3, SendNewEffect DEF NoConn
  <2>2. \A j \in Call : pc[j] = "send" => j = k
    BY <1>3 DEF SendNew, Locking
  <2> QED BY <1>3, <2>1, <2>2 DEF TypeOK, Locking, Attempts, SendNew
<1>4. ASSUME NEW k \in Call, SendHeld(k) PROVE Locking' /\ Attempts'
  BY <1>4 DEF TypeOK, Locking, Attempts, SendHeld
<1>5. ASSUME NEW k \in Call, ConnectFails(k) \/ ReadEnds(k) \/ TimesOut(k)
      PROVE  Locking' /\ Attempts'
  <2>1. pc[k] \in {"send", "read"} /\ AttemptFails(k)
    BY <1>5, FailedAttempts
  <2>2. \A j \in Call : pc[j] \in {"send", "read"} => j = k
    BY <2>1 DEF Locking
  <2>3. CASE /\ attempt' = [attempt EXCEPT ![k] = 1]
             /\ pc' = [pc EXCEPT ![k] = "send"]
             /\ UNCHANGED <<outcome, lock>>
    BY <2>1, <2>2, <2>3 DEF AttemptFails, TypeOK, Locking, Attempts
  <2>4. CASE Finish(k, Ending(k, "raised"))
    BY <2>1, <2>2, <2>4, NobodyCalls DEF AttemptFails, Finish, TypeOK, Locking, Attempts
  <2> QED BY <2>1, <2>3, <2>4 DEF AttemptFails
<1>6. ASSUME NEW k \in Call, Read(k) PROVE Locking' /\ Attempts'
  BY <1>6, NobodyCalls DEF TypeOK, Locking, Attempts, Read, Finish
<1>7. ASSUME NEW k \in Call, CancelCall(k) PROVE Locking' /\ Attempts'
  BY <1>7, NobodyCalls DEF TypeOK, Locking, Attempts, CancelCall
<1>8. ASSUME NEW c \in DOMAIN conns, NEW readable \in BOOLEAN, Serve(c, readable)
      PROVE  Locking' /\ Attempts'
  BY <1>8, <1>s DEF Serve
<1>9. CASE ServerStops \/ ServerStarts \/ Halt \/ Tick
  BY <1>9, <1>s DEF ServerStops, ServerStarts, Halt, Tick
<1> QED BY <1>0, <1>1, <1>2, <1>3, <1>4, <1>5, <1>6, <1>7, <1>8, <1>9 DEF Next, ClientStep

\* Every variable keeps its type; in particular the held connection is one that
\* was opened (SignerClient._reader, _writer).
THEOREM TypeCorrect == Spec => []TypeOK
  BY TypeInit, TypeStep, LockStep, PTL DEF Spec

-----------------------------------------------------------------------------
(* What is in a queue of frames, and that a frame is in it once.            *)

Once(s) == \A i, j \in DOMAIN s : s[i] = s[j] => i = j

LEMMA QueueAppended ==
    ASSUME NEW S, NEW s \in Seq(S), NEW x \in S
    PROVE  /\ Range(Append(s, x)) = Range(s) \cup {x}
           /\ Once(s) /\ x \notin Range(s) => Once(Append(s, x))
<1>1. /\ Append(s, x) \in Seq(S) /\ Len(Append(s, x)) = Len(s) + 1 /\ Len(s) \in Nat
      /\ Append(s, x)[Len(s) + 1] = x /\ \A i \in 1..Len(s) : Append(s, x)[i] = s[i]
  BY Appended, LenProperties
<1>2. DOMAIN s = 1..Len(s) /\ DOMAIN Append(s, x) = 1..(Len(s) + 1)
  BY <1>1, LenProperties
<1>3. \A y : y \in Range(Append(s, x)) <=> y \in Range(s) \/ y = x
  BY <1>1, <1>2 DEF Range
<1>4. ASSUME Once(s), x \notin Range(s) PROVE Once(Append(s, x))
  <2> SUFFICES ASSUME NEW i \in 1..(Len(s) + 1), NEW j \in 1..(Len(s) + 1),
                      Append(s, x)[i] = Append(s, x)[j]
               PROVE  i = j
    BY <1>2 DEF Once
  <2>1. \A n \in 1..Len(s) : s[n] # x
    BY <1>2, <1>4 DEF Range
  <2> QED BY <1>1, <1>2, <1>4, <2>1 DEF Once
<1> QED BY <1>3, <1>4

LEMMA QueueTaken ==
    ASSUME NEW S, NEW s \in Seq(S), s # <<>>
    PROVE  /\ Head(s) \in Range(s) /\ Range(Tail(s)) \subseteq Range(s)
           /\ Range(s) \subseteq Range(Tail(s)) \cup {Head(s)}
           /\ Once(s) => Head(s) \notin Range(Tail(s)) /\ Once(Tail(s))
<1>1. /\ Tail(s) \in Seq(S) /\ Head(s) = s[1] /\ Len(s) >= 1 /\ Len(Tail(s)) = Len(s) - 1
      /\ \A i \in 1..(Len(s) - 1) : Tail(s)[i] = s[i + 1]
      /\ Len(s) \in Nat
  BY Dropped, LenProperties
<1>2. DOMAIN s = 1..Len(s) /\ DOMAIN Tail(s) = 1..(Len(s) - 1)
  BY <1>1, LenProperties
<1>3. Head(s) \in Range(s)
  BY <1>1, <1>2 DEF Range
<1>4. ASSUME NEW y \in Range(Tail(s)) PROVE y \in Range(s)
  <2>1. PICK i \in 1..(Len(s) - 1) : y = Tail(s)[i]
    BY <1>2 DEF Range
  <2>2. i + 1 \in 1..Len(s) /\ y = s[i + 1]
    BY <1>1, <2>1
  <2> QED BY <1>2, <2>2 DEF Range
<1>5. ASSUME NEW y \in Range(s), y # Head(s) PROVE y \in Range(Tail(s))
  <2>1. PICK i \in 1..Len(s) : y = s[i]
    BY <1>2 DEF Range
  <2>2. i # 1
    BY <1>1, <1>5, <2>1
  <2>3. i - 1 \in 1..(Len(s) - 1) /\ (i - 1) + 1 = i
    BY <1>1, <2>2
  <2>4. y = Tail(s)[i - 1]
    BY <1>1, <2>1, <2>3
  <2> QED BY <1>2, <2>3, <2>4 DEF Range
<1>6. ASSUME Once(s) PROVE Head(s) \notin Range(Tail(s)) /\ Once(Tail(s))
  <2>1. ASSUME NEW i \in 1..(Len(s) - 1), Tail(s)[i] = Head(s) PROVE FALSE
    <3>1. i + 1 \in 1..Len(s) /\ 1 \in 1..Len(s) /\ s[i + 1] = s[1]
      BY <1>1, <2>1
    <3> QED BY <1>2, <1>6, <3>1 DEF Once
  <2>2. ASSUME NEW i \in 1..(Len(s) - 1), NEW j \in 1..(Len(s) - 1), Tail(s)[i] = Tail(s)[j]
        PROVE  i = j
    <3>1. i + 1 \in 1..Len(s) /\ j + 1 \in 1..Len(s) /\ s[i + 1] = s[j + 1]
      BY <1>1, <2>2
    <3>2. i + 1 = j + 1
      BY <1>2, <1>6, <3>1 DEF Once
    <3> QED BY <3>2
  <2> QED BY <1>2, <2>1, <2>2 DEF Range, Once
<1> QED BY <1>3, <1>4, <1>5, <1>6

LEMMA ShortQueues ==
    ASSUME NEW k
    PROVE  /\ Range(<<>>) = {} /\ Once(<<>>)
           /\ Range(<<k>>) = {k} /\ Once(<<k>>) /\ Head(<<k>>) = k /\ Tail(<<k>>) = <<>>
           /\ <<k>> # <<>>
  BY DEF Range, Once

-----------------------------------------------------------------------------
(* The halt.  Calls that began after it are answered after it.              *)

\* Nothing on a connection belongs to a call that has not begun.
Begun ==
    \A c \in DOMAIN conns :
        /\ \A k \in Range(conns[c].reqs) : pc[k] # "idle"
        /\ \A a \in Range(conns[c].resps) : pc[a.of] # "idle"

\* A late call served with the halt file seen has only refusals on its way.
Halting ==
    /\ late # {} => halted
    /\ \A c \in DOMAIN conns : \A a \in Range(conns[c].resps) :
          a.of \in late \ unseen => a.status # "ok"

LEMMA BegunStep ==
    TypeOK /\ Attempts /\ Begun /\ Halting /\ [Next]_vars => Begun' /\ Halting'
<1> SUFFICES ASSUME TypeOK, Attempts, Begun, Halting, [Next]_vars PROVE Begun' /\ Halting'
  OBVIOUS
\* Calls only leave "idle", and each connection gains at most one request and
\* one answer.
<1>p. \A k \in Call : pc[k] # "idle" => pc'[k] # "idle"
  BY DEF Next, ClientStep, TypeOK, vars, client, Begin, Acquire, SendNew, SendHeld, ConnectFails,
         Read, ReadEnds, TimesOut, AttemptFails, Finish, CancelCall, Serve, ServerStops,
         ServerStarts, Halt, Tick
<1>u. unseen \subseteq unseen'
  BY DEF Next, ClientStep, vars, daemon, Begin, Acquire, SendNew, SendHeld, ConnectFails,
         Read, ReadEnds, TimesOut, CancelCall, Serve, ServerStops, ServerStarts, Halt, Tick
<1>g. ASSUME late' = late, halted => halted',
             \A c \in DOMAIN conns' :
                /\ \A k \in Range(conns'[c].reqs) : pc'[k] # "idle"
                /\ \A a \in Range(conns'[c].resps) :
                      pc'[a.of] # "idle" /\ (a.of \in late \ unseen' => a.status # "ok")
      PROVE  Begun' /\ Halting'
  BY <1>g DEF Begun, Halting
<1>o. ASSUME NEW c \in DOMAIN conns
      PROVE  /\ \A k \in Range(conns[c].reqs) : pc'[k] # "idle"
             /\ \A a \in Range(conns[c].resps) :
                   pc'[a.of] # "idle" /\ (a.of \in late \ unseen' => a.status # "ok")
  BY <1>p, <1>u, Contents DEF Begun, Halting
<1>s. ASSUME conns' = conns, late' = late, halted => halted' PROVE Begun' /\ Halting'
  BY <1>s, <1>g, <1>o
<1>0. CASE UNCHANGED vars
  BY <1>0, <1>s DEF vars, client
<1>1. ASSUME NEW k \in Call, Begin(k) PROVE Begun' /\ Halting'
  <2>1. conns' = conns /\ halted' = halted /\ late' = IF halted THEN late \cup {k} ELSE late
    BY <1>1 DEF Begin
  <2>2. \A c \in DOMAIN conns : \A a \in Range(conns[c].resps) : a.of # k
    BY <1>1 DEF Begin, Begun
  <2> QED BY <2>1, <2>2, <1>o DEF Begun, Halting
<1>2. ASSUME NEW k \in Call, Acquire(k) \/ CancelCall(k) PROVE Begun' /\ Halting'
  BY <1>2, <1>s DEF Acquire, CancelCall
<1>3. ASSUME NEW k \in Call, SendNew(k) PROVE Begun' /\ Halting'
  <2>1. /\ DOMAIN conns' = DOMAIN conns \cup {held'}
        /\ conns'[held'].reqs = <<k>> /\ conns'[held'].resps = <<>>
        /\ \A d \in DOMAIN conns : conns'[d] = conns[d]
    BY <1>3, SendNewEffect
  <2>2. Range(conns'[held'].reqs) = {k} /\ Range(conns'[held'].resps) = {} /\ pc'[k] = "read"
    BY <1>3, <2>1, ShortQueues DEF SendNew, TypeOK
  <2>3. late' = late /\ halted' = halted
    BY <1>3 DEF SendNew
  <2> QED BY <1>g, <1>o, <2>1, <2>2, <2>3
<1>4. ASSUME NEW k \in Call, SendHeld(k) PROVE Begun' /\ Halting'
  <2>1. held \in DOMAIN conns
    BY <1>4, SendHeldEffect
  <2>2. PICK x \in Conn : /\ Becomes(held, x) /\ x.resps = conns[held].resps
                          /\ x.reqs \in {conns[held].reqs, Append(conns[held].reqs, k)}
    BY <1>4, SendHeldEffect
  <2>3. Range(x.reqs) \subseteq Range(conns[held].reqs) \cup {k}
    <3>1. conns[held].reqs \in Seq(Call)
      BY <2>1, Connections
    <3>2. Range(Append(conns[held].reqs, k)) = Range(conns[held].reqs) \cup {k}
      BY <3>1, QueueAppended
    <3>3. CASE x.reqs = conns[held].reqs
      BY <3>3
    <3>4. CASE x.reqs = Append(conns[held].reqs, k)
      BY <3>2, <3>4
    <3> QED BY <2>2, <3>3, <3>4
  <2>4. late' = late /\ halted' = halted /\ pc'[k] = "read"
    BY <1>4 DEF SendHeld, TypeOK
  <2> QED BY <1>g, <1>o, <2>1, <2>2, <2>3, <2>4 DEF Becomes
<1>5. ASSUME NEW k \in Call, ConnectFails(k) \/ ReadEnds(k) \/ TimesOut(k)
      PROVE  Begun' /\ Halting'
  <2>1. AttemptFails(k) /\ UNCHANGED <<conns, daemon, halted, now>>
    BY <1>5, FailedAttempts
  <2> QED BY <2>1, <1>s DEF AttemptFails, Finish
<1>6. ASSUME NEW k \in Call, Read(k) PROVE Begun' /\ Halting'
  <2>0. held # NoConn
    BY <1>6 DEF Read, Attempts
  <2>1. held \in DOMAIN conns /\ conns[held].resps # <<>>
    BY <1>6, <2>0, ReadEffect
  <2>2. PICK x \in Conn : /\ Becomes(held, x) /\ x.reqs = conns[held].reqs
                          /\ x.resps = Tail(conns[held].resps)
    BY <1>6, <2>0, ReadEffect
  <2>3. Range(x.resps) \subseteq Range(conns[held].resps)
    BY <2>1, <2>2, Connections, QueueTaken
  <2>4. late' = late /\ halted' = halted
    BY <1>6 DEF Read, Finish
  <2> QED BY <1>g, <1>o, <2>1, <2>2, <2>3, <2>4 DEF Becomes
<1>8. ASSUME NEW c \in DOMAIN conns, NEW readable \in BOOLEAN, Serve(c, readable)
      PROVE  Begun' /\ Halting'
  <2>1. conns[c].reqs # <<>>
    BY <1>8, ServeEffect
  <2>2. PICK x \in Conn : \E a \in Answer :
                 /\ Becomes(c, x)
                 /\ a.of = Head(conns[c].reqs) /\ a.status = Verdict(Head(conns[c].reqs), readable)
                 /\ x.reqs = Tail(conns[c].reqs)
                 /\ x.resps = Append(conns[c].resps, a)
    BY <1>8, ServeEffect
  <2>3. PICK a \in Answer :
                 /\ Becomes(c, x)
                 /\ a.of = Head(conns[c].reqs) /\ a.status = Verdict(Head(conns[c].reqs), readable)
                 /\ x.reqs = Tail(conns[c].reqs)
                 /\ x.resps = Append(conns[c].resps, a)
    BY <2>2
  <2>4. conns[c].reqs \in Seq(Call) /\ conns[c].resps \in Seq(Answer)
    BY Connections
  <2>5. Range(x.reqs) \subseteq Range(conns[c].reqs) /\ a.of \in Range(conns[c].reqs)
    BY <2>1, <2>3, <2>4, QueueTaken
  <2>6. Range(x.resps) = Range(conns[c].resps) \cup {a}
    BY <2>3, <2>4, QueueAppended
  <2>7. a.of \in late \ unseen' => a.status # "ok"
    <3>1. unseen' = IF halted /\ ~readable THEN unseen \cup {Head(conns[c].reqs)} ELSE unseen
      BY <1>8 DEF Serve
    <3> QED BY <2>3, <3>1 DEF Halting, Verdict, HaltSeen
  <2>8. late' = late /\ halted' = halted
    BY <1>8 DEF Serve, client
  <2>9. /\ DOMAIN conns' = DOMAIN conns /\ conns'[c] = x
        /\ \A d \in DOMAIN conns : d # c => conns'[d] = conns[d]
    BY <2>3 DEF Becomes
  <2>10. pc'[a.of] # "idle"
    BY <1>o, <2>5
  <2> QED BY <1>g, <1>o, <2>5, <2>6, <2>7, <2>8, <2>9, <2>10
<1>9. CASE ServerStops
  <2>1. /\ DOMAIN conns' = DOMAIN conns
        /\ \A c \in DOMAIN conns : conns'[c].reqs = <<>> /\ conns'[c].resps = conns[c].resps
    BY <1>9, StopEffect
  <2>2. \A c \in DOMAIN conns : Range(conns'[c].reqs) = {}
    BY <2>1, ShortQueues
  <2>3. late' = late /\ halted' = halted
    BY <1>9 DEF ServerStops, client
  <2> QED BY <1>g, <1>o, <2>1, <2>2, <2>3
<1>10. CASE ServerStarts \/ Halt \/ Tick
  BY <1>10, <1>s DEF ServerStarts, Halt, Tick, client
<1> QED BY <1>0, <1>1, <1>2, <1>3, <1>4, <1>5, <1>6, <1>8, <1>9, <1>10 DEF Next, ClientStep

-----------------------------------------------------------------------------
(* One request and one answer at a time.                                    *)

\* Of a request on the held connection there is the request, or its answer, or
\* nothing any more.
Carries(k, c) ==
    \/ c.reqs = <<k>> /\ c.resps = <<>>
    \/ /\ c.reqs = <<>> /\ Range(c.resps) \subseteq {a \in Answer : a.of = k}
       /\ c.resps = <<>> \/ Tail(c.resps) = <<>>

Private ==
    held # NoConn =>
        /\ \A k \in Call : pc[k] = "read" => Carries(k, conns[held])
        /\ (\A k \in Call : pc[k] # "read") => conns[held].reqs = <<>> /\ conns[held].resps = <<>>

Own == NoneCancelled => AnswerIsOwn /\ Private

\* A cancellation is not forgotten: only an unfinished call gets a result.
LEMMA CancelledStays == Attempts /\ TypeOK /\ [Next]_vars /\ NoneCancelled' => NoneCancelled
<1> SUFFICES ASSUME Attempts, TypeOK, [Next]_vars,
                    NEW k \in Call, outcome[k].status = "cancelled"
             PROVE  outcome'[k].status = "cancelled"
  BY DEF NoneCancelled
<1>1. pc[k] = "done"
  BY Endings DEF Attempts
<1>2. outcome'[k] = outcome[k]
  BY <1>1 DEF Next, ClientStep, TypeOK, vars, client, Begin, Acquire, SendNew, SendHeld,
     ConnectFails, Read, ReadEnds, TimesOut, AttemptFails, Finish, CancelCall, Serve, ServerStops,
     ServerStarts, Halt, Tick
<1> QED BY <1>2

LEMMA OwnStep == TypeOK /\ Locking /\ Attempts /\ Own /\ [Next]_vars => Own'
<1> SUFFICES ASSUME TypeOK, Locking, Attempts, Own, [Next]_vars, NoneCancelled'
             PROVE  AnswerIsOwn' /\ Private'
  BY DEF Own
<1>o. AnswerIsOwn /\ Private
  BY CancelledStays DEF Own
<1>s. ASSUME outcome' = outcome, held' = held, conns' = conns,
             \A k \in Call : pc'[k] = "read" <=> pc[k] = "read"
      PROVE  AnswerIsOwn' /\ Private'
  BY <1>s, <1>o DEF AnswerIsOwn, Private
<1>r. \A j, k \in Call : pc[j] \in {"send", "read"} /\ pc[k] \in {"send", "read"} => j = k
  BY DEF Locking
<1>0. CASE UNCHANGED vars
  BY <1>0, <1>s DEF vars, client
<1>1. ASSUME NEW k \in Call, Begin(k) \/ Acquire(k) PROVE AnswerIsOwn' /\ Private'
  BY <1>1, <1>s DEF Begin, Acquire, TypeOK
<1>3. ASSUME NEW k \in Call, SendNew(k) PROVE AnswerIsOwn' /\ Private'
  <2>1. /\ conns'[held'].reqs = <<k>> /\ conns'[held'].resps = <<>>
    BY <1>3, SendNewEffect
  <2>2. outcome' = outcome /\ pc' = [pc EXCEPT ![k] = "read"] /\ pc[k] = "send"
    BY <1>3 DEF SendNew
  <2>3. pc'[k] = "read" /\ \A j \in Call : pc'[j] = "read" => j = k
    BY <2>2, <1>r DEF TypeOK
  <2>4. Carries(k, conns'[held'])
    BY <2>1 DEF Carries
  <2> QED BY <1>o, <2>2, <2>3, <2>4 DEF AnswerIsOwn, Private, Carries
<1>4. ASSUME NEW k \in Call, SendHeld(k) PROVE AnswerIsOwn' /\ Private'
  <2>1. held \in DOMAIN conns /\ held # NoConn /\ held' = held
    BY <1>4, SendHeldEffect DEF SendHeld
  <2>2. PICK x \in Conn : /\ Becomes(held, x) /\ x.resps = conns[held].resps
                          /\ x.reqs \in {conns[held].reqs, Append(conns[held].reqs, k)}
    BY <1>4, SendHeldEffect
  <2>3. outcome' = outcome /\ pc' = [pc EXCEPT ![k] = "read"] /\ pc[k] = "send"
    BY <1>4 DEF SendHeld
  <2>4. pc'[k] = "read" /\ (\A j \in Call : pc'[j] = "read" => j = k)
        /\ \A j \in Call : pc[j] # "read"
    BY <2>3, <1>r DEF TypeOK
  <2>5. conns[held].reqs = <<>> /\ conns[held].resps = <<>>
    BY <1>o, <2>1, <2>4 DEF Private
  <2>6. x.resps = <<>> /\ x.reqs \in {<<>>, <<k>>}
    BY <2>2, <2>5
  <2>7. Carries(k, conns'[held'])
    BY <2>1, <2>2, <2>6, ShortQueues DEF Becomes, Carries
  <2> QED BY <1>o, <2>3, <2>4, <2>7 DEF AnswerIsOwn, Private, Carries
<1>5. ASSUME NEW k \in Call, ConnectFails(k) \/ ReadEnds(k) \/ TimesOut(k)
      PROVE  AnswerIsOwn' /\ Private'
  <2>1. AttemptFails(k)
    BY <1>5, FailedAttempts
  <2>2. held' = NoConn
    BY <2>1 DEF AttemptFails
  <2>3. AnswerIsOwn'
    <3>1. Ending(k, "raised").of = k
      BY Endings
    <3>2. outcome' \in {outcome, [outcome EXCEPT ![k] = Ending(k, "raised")]}
      BY <2>1 DEF AttemptFails, Finish
    <3> QED BY <1>o, <3>1, <3>2 DEF AnswerIsOwn, TypeOK
  <2> QED BY <2>2, <2>3 DEF Private
<1>6. ASSUME NEW k \in Call, Read(k) PROVE AnswerIsOwn' /\ Private'
  <2>0. held # NoConn /\ pc[k] = "read" /\ held' = held
    BY <1>6 DEF Read, Attempts
  <2>1. held \in DOMAIN conns /\ conns[held].resps # <<>> /\ conns[held].resps \in Seq(Answer)
    BY <1>6, <2>0, ReadEffect, Connections
  <2>2. PICK x \in Conn : /\ Becomes(held, x) /\ x.reqs = conns[held].reqs
                          /\ x.resps = Tail(conns[held].resps)
    BY <1>6, <2>0, ReadEffect
  <2>3. /\ conns[held].reqs = <<>> /\ Tail(conns[held].resps) = <<>>
        /\ Range(conns[held].resps) \subseteq {a \in Answer : a.of = k}
    BY <1>o, <2>0, <2>1 DEF Private, Carries
  <2>4. Head(conns[held].resps).of = k
    BY <2>1, <2>3, QueueTaken
  <2>5. AnswerIsOwn'
    BY <1>6, <1>o, <2>4 DEF Read, Finish, AnswerIsOwn, TypeOK
  <2>6. conns'[held'].reqs = <<>> /\ conns'[held'].resps = <<>>
    BY <2>0, <2>2, <2>3 DEF Becomes
  <2>7. \A j \in Call : pc'[j] # "read"
    BY <1>6, <2>0, <1>r DEF Read, Finish, TypeOK
  <2> QED BY <2>5, <2>6, <2>7 DEF Private
<1>7. ASSUME NEW k \in Call, CancelCall(k) PROVE AnswerIsOwn' /\ Private'
  <2>1. outcome'[k].status = "cancelled"
    BY <1>7, Endings DEF CancelCall, TypeOK
  <2> QED BY <2>1 DEF NoneCancelled
<1>8. ASSUME NEW c \in DOMAIN conns, NEW readable \in BOOLEAN, Serve(c, readable)
      PROVE  AnswerIsOwn' /\ Private'
  <2>1. conns[c].reqs # <<>>
    BY <1>8, ServeEffect
  <2>2. PICK x \in Conn : \E a \in Answer :
                 /\ Becomes(c, x)
                 /\ a.of = Head(conns[c].reqs) /\ a.status = Verdict(Head(conns[c].reqs), readable)
                 /\ x.reqs = Tail(conns[c].reqs)
                 /\ x.resps = Append(conns[c].resps, a)
    BY <1>8, ServeEffect
  <2>3. PICK a \in Answer :
                 /\ Becomes(c, x)
                 /\ a.of = Head(conns[c].reqs) /\ a.status = Verdict(Head(conns[c].reqs), readable)
                 /\ x.reqs = Tail(conns[c].reqs)
                 /\ x.resps = Append(conns[c].resps, a)
    BY <2>2
  <2>4. pc' = pc /\ outcome' = outcome /\ held' = held
    BY <1>8 DEF Serve, client
  <2>5. AnswerIsOwn'
    BY <1>o, <2>4 DEF AnswerIsOwn
  <2>6. CASE held # c
    <3>1. held # NoConn => conns'[held] = conns[held]
      BY <2>3, <2>6, HeldIsOpen DEF Becomes
    <3> QED BY <1>o, <2>4, <2>5, <3>1 DEF Private
  <2>7. CASE held = c /\ held = NoConn
    BY <2>4, <2>5, <2>7 DEF Private
  <2>8. CASE held = c /\ held # NoConn
    <3>1. PICK k \in Call : pc[k] = "read"
      BY <1>o, <2>1, <2>8 DEF Private
    <3>2. conns[c].reqs = <<k>> /\ conns[c].resps = <<>>
      BY <1>o, <2>1, <2>8, <3>1 DEF Private, Carries
    <3>3. a.of = k /\ x.reqs = <<>> /\ x.resps = <<a>>
      BY <2>3, <3>2, ShortQueues
    <3>4. Carries(k, x)
      BY <3>3, ShortQueues DEF Carries
    <3>5. \A j \in Call : pc[j] = "read" => j = k
      BY <3>1, <1>r
    <3>6. conns'[held'] = x
      BY <2>3, <2>4, <2>8 DEF Becomes
    <3> QED BY <2>4, <2>5, <3>1, <3>4, <3>5, <3>6 DEF Private
  <2> QED BY <2>6, <2>7, <2>8
<1>9. CASE ServerStops
  <2>1. \A c \in DOMAIN conns : conns'[c].reqs = <<>> /\ conns'[c].resps = conns[c].resps
    BY <1>9, StopEffect
  <2>2. pc' = pc /\ outcome' = outcome /\ held' = held
    BY <1>9 DEF ServerStops, client
  <2>3. AnswerIsOwn'
    BY <1>o, <2>2 DEF AnswerIsOwn
  <2>4. ASSUME held # NoConn, NEW k \in Call, pc[k] = "read" PROVE Carries(k, conns'[held])
    <3>1. Carries(k, conns[held])
      BY <1>o, <2>4 DEF Private
    <3>2. conns'[held].reqs = <<>> /\ conns'[held].resps = conns[held].resps
      BY <2>1, <2>4, HeldIsOpen
    <3> QED BY <3>1, <3>2, ShortQueues DEF Carries
  <2>5. ASSUME held # NoConn, \A k \in Call : pc[k] # "read"
        PROVE  conns'[held].reqs = <<>> /\ conns'[held].resps = <<>>
    BY <1>o, <2>1, <2>5, HeldIsOpen DEF Private
  <2> QED BY <2>2, <2>3, <2>4, <2>5 DEF Private
<1>10. CASE ServerStarts \/ Halt \/ Tick
  BY <1>10, <1>s DEF ServerStarts, Halt, Tick, client
<1> QED BY <1>0, <1>1, <1>3, <1>4, <1>5, <1>6, <1>7, <1>8, <1>9, <1>10 DEF Next, ClientStep

LEMMA OwnInit == Init => Own /\ Begun /\ Halting
<1>1. Init => Own
  BY Endings DEF Init, Own, AnswerIsOwn, Private
<1>2. Init => Begun /\ Halting
  BY DEF Init, Begun, Halting
<1> QED BY <1>1, <1>2

\* As long as no task is cancelled, timeouts, retries, restarts and a halt leave
\* nothing on the held connection for the next caller of _frame, for any number
\* of calls.
THEOREM NothingIsLeft == Spec => []TimeoutsLeaveNothing
<1>1. Own => TimeoutsLeaveNothing
  BY DEF Own, TimeoutsLeaveNothing, Private
<1> QED BY <1>1, TypeInit, OwnInit, TypeStep, LockStep, OwnStep, PTL DEF Spec


LEMMA HaltBindsStep ==
    /\ TypeOK /\ Locking /\ Attempts /\ Halting /\ Own /\ HaltBinds /\ [Next]_vars
    => HaltBinds'
<1> SUFFICES ASSUME TypeOK, Locking, Attempts, Halting, Own, HaltBinds, [Next]_vars,
                    NoneCancelled', NEW k \in (late \ unseen)'
             PROVE  outcome'[k].status # "ok"
  BY DEF HaltBinds
<1>o. Private /\ k \in Call
  <2>1. late' \subseteq Call
    BY TypeStep DEF TypeOK
  <2> QED BY <2>1, CancelledStays DEF Own
<1>n. NoneCancelled /\ \A j \in late \ unseen : outcome[j].status # "ok"
  BY CancelledStays DEF HaltBinds
<1>u. unseen \subseteq unseen'
  BY DEF Next, ClientStep, vars, daemon, Begin, Acquire, SendNew, SendHeld, ConnectFails,
         Read, ReadEnds, TimesOut, CancelCall, Serve, ServerStops, ServerStarts, Halt, Tick
<1>s. ASSUME late' = late, outcome' = outcome PROVE outcome'[k].status # "ok"
  BY <1>s, <1>n, <1>u
<1>0. CASE UNCHANGED vars
  BY <1>0, <1>s DEF vars, client
<1>1. ASSUME NEW j \in Call, Begin(j) PROVE outcome'[k].status # "ok"
  <2>1. outcome[j].status = "none"
    BY <1>1, Endings DEF Begin, Attempts
  <2> QED BY <1>1, <1>n, <1>u, <2>1 DEF Begin
<1>2. ASSUME NEW j \in Call, Acquire(j) \/ SendNew(j) \/ SendHeld(j)
      PROVE  outcome'[k].status # "ok"
  BY <1>2, <1>s DEF Acquire, SendNew, SendHeld
<1>5. ASSUME NEW j \in Call, ConnectFails(j) \/ ReadEnds(j) \/ TimesOut(j)
      PROVE  outcome'[k].status # "ok"
  <2>1. AttemptFails(j)
    BY <1>5, FailedAttempts
  <2>2. Ending(j, "raised").status = "raised" /\ late' = late
    BY <2>1, Endings DEF AttemptFails, Finish
  <2>3. outcome' \in {outcome, [outcome EXCEPT ![j] = Ending(j, "raised")]}
    BY <2>1 DEF AttemptFails, Finish
  <2> QED BY <1>n, <1>o, <1>u, <2>2, <2>3 DEF TypeOK
<1>6. ASSUME NEW j \in Call, Read(j) PROVE outcome'[k].status # "ok"
  <2>0. held # NoConn /\ pc[j] = "read"
    BY <1>6 DEF Read, Attempts
  <2>1. held \in DOMAIN conns /\ conns[held].resps # <<>> /\ conns[held].resps \in Seq(Answer)
    BY <1>6, <2>0, ReadEffect, Connections
  <2>2. Range(conns[held].resps) \subseteq {a \in Answer : a.of = j}
    BY <1>o, <2>0, <2>1 DEF Private, Carries
  <2>3. Head(conns[held].resps).of = j /\ Head(conns[held].resps) \in Range(conns[held].resps)
    BY <2>1, <2>2, QueueTaken
  <2>4. j \in late \ unseen => Head(conns[held].resps).status # "ok"
    BY <2>1, <2>3 DEF Halting
  <2>5. late' = late /\ outcome' = [outcome EXCEPT ![j] = Head(conns[held].resps)]
    BY <1>6 DEF Read, Finish
  <2> QED BY <1>n, <1>o, <1>u, <2>4, <2>5 DEF TypeOK
<1>7. ASSUME NEW j \in Call, CancelCall(j) PROVE outcome'[k].status # "ok"
  <2>1. outcome'[j].status = "cancelled"
    BY <1>7, Endings DEF CancelCall, TypeOK
  <2> QED BY <2>1 DEF NoneCancelled
<1>8. ASSUME NEW c \in DOMAIN conns, NEW readable \in BOOLEAN, Serve(c, readable)
      PROVE  outcome'[k].status # "ok"
  BY <1>8, <1>s DEF Serve, client
<1>9. CASE ServerStops \/ ServerStarts \/ Halt \/ Tick
  BY <1>9, <1>s DEF ServerStops, ServerStarts, Halt, Tick, client
<1> QED BY <1>0, <1>1, <1>2, <1>5, <1>6, <1>7, <1>8, <1>9 DEF Next, ClientStep

\* A call that began after the operator created the halt file is never given a
\* signature, whatever was in flight at that moment, unless the daemon could not
\* read the file while it served that call (SignerService._halted).
THEOREM HaltIsKept == Spec => []HaltBinds
<1>1. Init => HaltBinds
  BY DEF Init, HaltBinds
<1> QED BY <1>1, TypeInit, OwnInit, TypeStep, LockStep, BegunStep, OwnStep,
           HaltBindsStep, PTL DEF Spec

-----------------------------------------------------------------------------
(* How often a message can be signed: every signature comes from a request  *)
(* of its own, and a call sends one request per attempt.                    *)

Asked(k) == {c \in DOMAIN conns : k \in Range(conns[c].reqs)}
Signed(k) == {i \in DOMAIN ledger : ledger[i].call = k}
Sent(k) == IF pc[k] \in {"read", "done"} THEN attempt[k] + 1 ELSE attempt[k]

OncePerConnection == \A c \in DOMAIN conns : Once(conns[c].reqs)

Counted == \A k \in Call : Cardinality(Signed(k)) + Cardinality(Asked(k)) <= Sent(k)

LEMMA CountsAreFinite ==
    ASSUME TypeOK, NEW k \in Call
    PROVE  /\ IsFiniteSet(Signed(k)) /\ IsFiniteSet(Asked(k)) /\ Sent(k) \in Nat
           /\ Cardinality(Signed(k)) \in Nat /\ Cardinality(Asked(k)) \in Nat
<1>1. /\ DOMAIN conns = 1..Len(conns) /\ Len(conns) \in Nat
      /\ DOMAIN ledger = 1..Len(ledger) /\ Len(ledger) \in Nat
  BY LenProperties DEF TypeOK
<1>2. IsFiniteSet(DOMAIN conns) /\ IsFiniteSet(DOMAIN ledger)
  BY <1>1, FS_Interval
<1>3. IsFiniteSet(Signed(k)) /\ IsFiniteSet(Asked(k))
  BY <1>2, FS_Subset DEF Signed, Asked
<1>4. Sent(k) \in Nat
  <2>1. attempt[k] \in {0, 1}
    BY DEF TypeOK
  <2>2. attempt[k] \in Nat /\ attempt[k] + 1 \in Nat
    BY <2>1
  <2> QED BY <2>2 DEF Sent
<1> QED BY <1>3, <1>4, FS_CardinalityType

\* One more request, or a request turned into at most one signature.
LEMMA OneMore ==
    ASSUME NEW A, NEW B, NEW c, IsFiniteSet(A), B \in SUBSET (A \cup {c})
    PROVE  Cardinality(B) <= Cardinality(A) + 1
<1>1. IsFiniteSet(A \cup {c}) /\ Cardinality(A \cup {c}) \in Nat /\ Cardinality(A) \in Nat
  BY FS_AddElement, FS_CardinalityType
<1>2. Cardinality(A \cup {c}) = IF c \in A THEN Cardinality(A) ELSE Cardinality(A) + 1
  BY FS_AddElement
<1>3. Cardinality(B) <= Cardinality(A \cup {c}) /\ Cardinality(B) \in Nat
  BY <1>1, FS_Subset, FS_CardinalityType
<1> QED BY <1>1, <1>2, <1>3

LEMMA CountedStep ==
    /\ TypeOK /\ TypeOK' /\ Attempts /\ OncePerConnection /\ Counted /\ [Next]_vars
    => OncePerConnection' /\ Counted'
<1> SUFFICES ASSUME TypeOK, TypeOK', Attempts, OncePerConnection, Counted, [Next]_vars
             PROVE  OncePerConnection' /\ Counted'
  OBVIOUS
<1>f. ASSUME NEW k \in Call
      PROVE  /\ IsFiniteSet(Signed(k)) /\ IsFiniteSet(Asked(k))
             /\ Sent(k) \in Nat /\ Sent(k)' \in Nat
             /\ Cardinality(Signed(k)) \in Nat /\ Cardinality(Asked(k)) \in Nat
             /\ Cardinality(Signed(k)') \in Nat /\ Cardinality(Asked(k)') \in Nat
  <2>1. Sent(k)' \in Nat
    <3>1. attempt'[k] \in {0, 1}
      BY DEF TypeOK
    <3>2. attempt'[k] \in Nat /\ attempt'[k] + 1 \in Nat
      BY <3>1
    <3> QED BY <3>2 DEF Sent
  <2>2. IsFiniteSet(Signed(k))' /\ IsFiniteSet(Asked(k))'
    <3>1. (DOMAIN conns)' = 1..Len(conns') /\ Len(conns') \in Nat
          /\ (DOMAIN ledger)' = 1..Len(ledger') /\ Len(ledger') \in Nat
      BY LenProperties DEF TypeOK
    <3>2. IsFiniteSet(DOMAIN conns') /\ IsFiniteSet(DOMAIN ledger')
      BY <3>1, FS_Interval
    <3> QED BY <3>2, FS_Subset DEF Signed, Asked
  <2> QED BY <2>1, <2>2, CountsAreFinite, FS_CardinalityType
\* Steps without a new request or signature.
<1>s. ASSUME \A k \in Call : /\ Signed(k)' = Signed(k) /\ Asked(k)' \subseteq Asked(k)
                             /\ Sent(k)' >= Sent(k)
      PROVE  Counted'
  <2> SUFFICES ASSUME NEW k \in Call
               PROVE  Cardinality(Signed(k)') + Cardinality(Asked(k)') <= Sent(k)'
    BY DEF Counted
  <2>1. Cardinality(Asked(k)') <= Cardinality(Asked(k))
    BY <1>s, <1>f, FS_Subset
  <2>2. Cardinality(Signed(k)) + Cardinality(Asked(k)) <= Sent(k)
    BY DEF Counted
  <2>3. Sent(k)' >= Sent(k) /\ Cardinality(Signed(k)') = Cardinality(Signed(k))
    BY <1>s
  <2> QED BY <2>1, <2>2, <2>3, <1>f
\* Steps without a change of the connections and the ledger.
<1>q. ASSUME conns' = conns, ledger' = ledger, \A k \in Call : Sent(k)' >= Sent(k)
      PROVE  OncePerConnection' /\ Counted'
  <2>1. \A k \in Call : Signed(k)' = Signed(k) /\ Asked(k)' = Asked(k)
    BY <1>q DEF Signed, Asked
  <2> QED BY <2>1, <1>q, <1>s DEF OncePerConnection
\* Call k sends a request on connection c.
<1>a. ASSUME NEW k \in Call, NEW c, ledger' = ledger, attempt' = attempt,
             pc[k] = "send", pc' = [pc EXCEPT ![k] = "read"],
             Asked(k)' \subseteq Asked(k) \cup {c},
             \A j \in Call : j # k => Asked(j)' \subseteq Asked(j)
      PROVE  Counted'
  <2> SUFFICES ASSUME NEW j \in Call
               PROVE  Cardinality(Signed(j)') + Cardinality(Asked(j)') <= Sent(j)'
    BY DEF Counted
  <2>1. Cardinality(Signed(j)) + Cardinality(Asked(j)) <= Sent(j)
    BY DEF Counted
  <2>2. Signed(j)' = Signed(j)
    BY <1>a DEF Signed
  <2>3. CASE j = k
    <3>1. Sent(k)' = Sent(k) + 1
      BY <1>a DEF Sent, TypeOK
    <3>2. Cardinality(Asked(k)') <= Cardinality(Asked(k)) + 1
      BY <1>a, <1>f, OneMore
    <3>3. Cardinality(Signed(k)') = Cardinality(Signed(k))
      BY <2>2, <2>3
    <3> QED BY <2>1, <2>3, <3>1, <3>2, <3>3, <1>f
  <2>4. CASE j # k
    <3>1. Sent(j)' = Sent(j)
      BY <1>a, <2>4 DEF Sent, TypeOK
    <3>2. Cardinality(Asked(j)') <= Cardinality(Asked(j))
      BY <1>a, <2>4, <1>f, FS_Subset
    <3>3. Cardinality(Signed(j)') = Cardinality(Signed(j))
      BY <2>2
    <3> QED BY <2>1, <3>1, <3>2, <3>3, <1>f
  <2> QED BY <2>3, <2>4
<1>0. CASE UNCHANGED vars
  BY <1>0, <1>q, <1>f DEF vars, client, daemon, Sent
<1>1. ASSUME NEW k \in Call, Begin(k) \/ Acquire(k) PROVE OncePerConnection' /\ Counted'
  <2>1. conns' = conns /\ ledger' = ledger
    BY <1>1 DEF Begin, Acquire, daemon
  <2>2. \A j \in Call : Sent(j)' >= Sent(j)
    BY <1>1 DEF Begin, Acquire, Sent, TypeOK
  <2> QED BY <1>q, <2>1, <2>2
<1>3. ASSUME NEW k \in Call, SendNew(k) PROVE OncePerConnection' /\ Counted'
  <2>1. /\ DOMAIN conns' = DOMAIN conns \cup {held'} /\ held' \notin DOMAIN conns
        /\ conns'[held'].reqs = <<k>>
        /\ \A d \in DOMAIN conns : conns'[d] = conns[d]
    BY <1>3, SendNewEffect
  <2>2. Range(conns'[held'].reqs) = {k} /\ Once(conns'[held'].reqs)
    BY <2>1, ShortQueues
  <2>3. OncePerConnection'
    BY <2>1, <2>2 DEF OncePerConnection
  <2>4. Asked(k)' \subseteq Asked(k) \cup {held'}
    BY <2>1 DEF Asked
  <2>5. \A j \in Call : j # k => Asked(j)' \subseteq Asked(j)
    BY <2>1, <2>2 DEF Asked
  <2>6. /\ ledger' = ledger /\ attempt' = attempt
        /\ pc[k] = "send" /\ pc' = [pc EXCEPT ![k] = "read"]
    BY <1>3 DEF SendNew, daemon
  <2> QED BY <1>a, <2>3, <2>4, <2>5, <2>6
<1>4. ASSUME NEW k \in Call, SendHeld(k) PROVE OncePerConnection' /\ Counted'
  <2>1. held \in DOMAIN conns /\ held # NoConn
    BY <1>4, SendHeldEffect DEF SendHeld
  <2>2. PICK x \in Conn : /\ Becomes(held, x) /\ x.resps = conns[held].resps
                          /\ x.reqs \in {conns[held].reqs, Append(conns[held].reqs, k)}
    BY <1>4, SendHeldEffect
  <2>3. /\ ledger' = ledger /\ attempt' = attempt
        /\ pc[k] = "send" /\ pc' = [pc EXCEPT ![k] = "read"]
    BY <1>4 DEF SendHeld, daemon
  <2>4. attempt[k] = 0
    BY <2>1, <2>3 DEF Attempts, TypeOK
  <2>5. Asked(k) = {}
    <3>1. Cardinality(Asked(k)) = 0
      <4>1. Sent(k) = 0
        BY <2>3, <2>4 DEF Sent
      <4>2. Cardinality(Signed(k)) + Cardinality(Asked(k)) <= 0
        BY <4>1 DEF Counted
      <4> QED BY <4>2, <1>f
    <3> QED BY <3>1, <1>f, FS_EmptySet
  <2>6. conns[held].reqs \in Seq(Call) /\ Once(conns[held].reqs) /\ k \notin Range(conns[held].reqs)
    BY <2>1, <2>5, Connections DEF OncePerConnection, Asked
  <2>7. /\ Range(Append(conns[held].reqs, k)) = Range(conns[held].reqs) \cup {k}
        /\ Once(Append(conns[held].reqs, k))
    BY <2>6, QueueAppended
  <2>8. Once(x.reqs) /\ Range(x.reqs) \subseteq Range(conns[held].reqs) \cup {k}
    <3>1. CASE x.reqs = conns[held].reqs
      BY <2>6, <3>1
    <3>2. CASE x.reqs = Append(conns[held].reqs, k)
      BY <2>7, <3>2
    <3> QED BY <2>2, <3>1, <3>2
  <2>9. OncePerConnection'
    BY <2>2, <2>8 DEF Becomes, OncePerConnection
  <2>10. Asked(k)' \subseteq Asked(k) \cup {held}
    BY <2>2 DEF Becomes, Asked
  <2>11. \A j \in Call : j # k => Asked(j)' \subseteq Asked(j)
    BY <2>2, <2>8 DEF Becomes, Asked
  <2> QED BY <1>a, <2>3, <2>9, <2>10, <2>11
<1>5. ASSUME NEW k \in Call, ConnectFails(k) \/ ReadEnds(k) \/ TimesOut(k)
      PROVE  OncePerConnection' /\ Counted'
  <2>1. /\ pc[k] \in {"send", "read"} /\ AttemptFails(k)
        /\ UNCHANGED <<conns, daemon, halted, now>>
    BY <1>5, FailedAttempts
  <2>2. \/ attempt[k] = 0 /\ attempt' = [attempt EXCEPT ![k] = 1] /\ pc' = [pc EXCEPT ![k] = "send"]
        \/ attempt' = attempt /\ pc' = [pc EXCEPT ![k] = "done"]
    BY <2>1 DEF AttemptFails, Finish
  <2>3. \A j \in Call : Sent(j)' >= Sent(j)
    <3>1. ASSUME NEW j \in Call, j # k PROVE Sent(j)' = Sent(j)
      BY <2>2, <3>1 DEF Sent, TypeOK
    <3>2. Sent(k)' >= Sent(k)
      BY <2>1, <2>2 DEF Sent, TypeOK
    <3> QED BY <3>1, <3>2, <1>f
  <2> QED BY <1>q, <2>1, <2>3 DEF daemon
<1>6. ASSUME NEW k \in Call, Read(k) PROVE OncePerConnection' /\ Counted'
  <2>0. held # NoConn /\ pc[k] = "read"
    BY <1>6 DEF Read, Attempts
  <2>1. held \in DOMAIN conns
    BY <1>6, <2>0, ReadEffect
  <2>2. PICK x \in Conn : Becomes(held, x) /\ x.reqs = conns[held].reqs
    BY <1>6, <2>0, ReadEffect
  <2>3. DOMAIN conns' = DOMAIN conns /\ \A c \in DOMAIN conns : conns'[c].reqs = conns[c].reqs
    BY <2>2 DEF Becomes
  <2>4. OncePerConnection' /\ \A j \in Call : Asked(j)' = Asked(j)
    BY <2>3 DEF OncePerConnection, Asked
  <2>5. ledger' = ledger /\ attempt' = attempt /\ pc' = [pc EXCEPT ![k] = "done"]
    BY <1>6 DEF Read, Finish, daemon
  <2>6. \A j \in Call : Signed(j)' = Signed(j) /\ Sent(j)' = Sent(j)
    BY <2>0, <2>5 DEF Signed, Sent, TypeOK
  <2> QED BY <1>s, <1>f, <2>4, <2>6
<1>7. ASSUME NEW k \in Call, CancelCall(k) PROVE OncePerConnection' /\ Counted'
  <2>1. /\ conns' = conns /\ ledger' = ledger /\ attempt' = attempt
        /\ pc' = [pc EXCEPT ![k] = "done"]
    BY <1>7 DEF CancelCall, daemon
  <2>2. ASSUME NEW j \in Call PROVE Sent(j)' >= Sent(j)
    <3>1. attempt[j] \in {0, 1} /\ attempt'[j] = attempt[j]
      BY <2>1 DEF TypeOK
    <3>2. pc[j] \in {"read", "done"} => pc'[j] \in {"read", "done"}
      BY <2>1 DEF TypeOK
    <3> QED BY <3>1, <3>2 DEF Sent
  <2> QED BY <1>q, <2>1, <2>2
<1>8. ASSUME NEW c \in DOMAIN conns, NEW readable \in BOOLEAN, Serve(c, readable)
      PROVE  OncePerConnection' /\ Counted'
  <2>1. conns[c].reqs # <<>> /\ \E k \in Call : k = Head(conns[c].reqs)
    BY <1>8, ServeEffect
  <2>k. PICK k \in Call : k = Head(conns[c].reqs)
    BY <2>1
  <2>e. PICK e \in Signature :
             /\ e.call = k
             /\ ledger' \in {ledger, Append(ledger, e)}
    <3> DEFINE e == [call |-> k, at |-> now, life |-> restarts]
    <3>1. e \in Signature /\ e.call = k
      BY DEF TypeOK, Signature
    <3>2. ledger' \in {ledger, Append(ledger, e)}
      BY <1>8, <2>k DEF Serve
    <3> QED BY <3>1, <3>2
  <2>2. PICK x \in Conn : Becomes(c, x) /\ x.reqs = Tail(conns[c].reqs)
    BY <1>8, ServeEffect
  <2>3. conns[c].reqs \in Seq(Call) /\ Once(conns[c].reqs)
    BY Connections DEF OncePerConnection
  <2>4. /\ k \in Range(conns[c].reqs) /\ Range(x.reqs) \subseteq Range(conns[c].reqs)
        /\ k \notin Range(x.reqs) /\ Once(x.reqs)
    BY <2>1, <2>2, <2>3, <2>k, QueueTaken
  <2>5. OncePerConnection'
    BY <2>2, <2>4 DEF Becomes, OncePerConnection
  <2>6. c \in Asked(k) /\ Asked(k)' \subseteq Asked(k) \ {c}
    BY <2>2, <2>4 DEF Becomes, Asked
  <2>7. \A j \in Call : Asked(j)' \subseteq Asked(j)
    BY <2>2, <2>4 DEF Becomes, Asked
  <2>8. ledger' \in {ledger, Append(ledger, e)} /\ UNCHANGED client
    BY <1>8, <2>e DEF Serve
  <2>9. e \in Signature /\ e.call = k /\ ledger \in Seq(Signature)
    BY <2>e DEF TypeOK
  <2>10. /\ Len(Append(ledger, e)) = Len(ledger) + 1 /\ Append(ledger, e)[Len(ledger) + 1] = e
         /\ \A i \in 1..Len(ledger) : Append(ledger, e)[i] = ledger[i]
         /\ DOMAIN ledger = 1..Len(ledger)
         /\ DOMAIN Append(ledger, e) = 1..(Len(ledger) + 1) /\ Len(ledger) \in Nat
    <3>1. Append(ledger, e) \in Seq(Signature)
      BY <2>9, Appended
    <3>2. DOMAIN Append(ledger, e) = 1..Len(Append(ledger, e))
      BY <3>1, LenProperties
    <3> QED BY <2>9, <3>2, Appended, LenProperties
  <2>11. Signed(k)' \subseteq Signed(k) \cup {Len(ledger) + 1}
    BY <2>8, <2>10 DEF Signed
  <2>12. \A j \in Call : j # k => Signed(j)' = Signed(j)
    BY <2>8, <2>9, <2>10 DEF Signed
  <2>13. \A j \in Call : Sent(j)' = Sent(j)
    BY <2>8 DEF Sent, client
  <2>14. ASSUME NEW j \in Call
         PROVE  Cardinality(Signed(j)') + Cardinality(Asked(j)') <= Sent(j)'
    <3>1. Cardinality(Signed(j)) + Cardinality(Asked(j)) <= Sent(j)
      BY DEF Counted
    <3>2. CASE j = k
      <4>1. Cardinality(Signed(k)') <= Cardinality(Signed(k)) + 1
        BY <2>1, <2>11, <1>f, OneMore
      <4>2. IsFiniteSet(Asked(k) \ {c}) /\ Cardinality(Asked(k) \ {c}) = Cardinality(Asked(k)) - 1
        BY <2>1, <2>6, <1>f, FS_RemoveElement
      <4>3. Cardinality(Asked(k)') <= Cardinality(Asked(k)) - 1
        <5>1. Cardinality(Asked(k)') <= Cardinality(Asked(k) \ {c})
          BY <2>6, <4>2, FS_Subset
        <5> QED BY <4>2, <5>1
      <4> QED BY <2>1, <2>13, <3>1, <3>2, <4>1, <4>3, <1>f
    <3>3. CASE j # k
      <4>1. Cardinality(Asked(j)') <= Cardinality(Asked(j))
        BY <2>7, <1>f, FS_Subset
      <4>2. Cardinality(Signed(j)') = Cardinality(Signed(j))
        BY <2>12, <3>3
      <4> QED BY <2>13, <3>1, <4>1, <4>2, <1>f
    <3> QED BY <3>2, <3>3
  <2> QED BY <2>5, <2>14 DEF Counted
<1>9. CASE ServerStops
  <2>1. /\ DOMAIN conns' = DOMAIN conns
        /\ \A c \in DOMAIN conns : conns'[c].reqs = <<>>
    BY <1>9, StopEffect
  <2>2. OncePerConnection' /\ \A j \in Call : Asked(j)' \subseteq Asked(j)
    BY <2>1, ShortQueues DEF OncePerConnection, Asked
  <2>3. \A j \in Call : Signed(j)' = Signed(j) /\ Sent(j)' >= Sent(j)
    <3>1. ledger' = ledger /\ pc' = pc /\ attempt' = attempt
      BY <1>9 DEF ServerStops, client
    <3>2. \A j \in Call : Signed(j)' = Signed(j) /\ Sent(j)' = Sent(j)
      BY <3>1 DEF Signed, Sent
    <3> QED BY <3>2, <1>f
  <2> QED BY <1>s, <2>2, <2>3
<1>10. CASE ServerStarts \/ Halt \/ Tick
  BY <1>10, <1>q, <1>f DEF ServerStarts, Halt, Tick, client, daemon, Sent
<1> QED BY <1>0, <1>1, <1>3, <1>4, <1>5, <1>6, <1>7, <1>8, <1>9, <1>10 DEF Next, ClientStep

\* "Exactly one retry" (_frame): with any number of timeouts and restarts the
\* daemon signs a message at most twice, and twice only for a retried call.
THEOREM OneRetryOnly == Spec => []SignedAtMostTwice
<1>1. Init => OncePerConnection /\ Counted
  <2>1. ASSUME Init, NEW k \in Call PROVE Signed(k) = {} /\ Asked(k) = {} /\ Sent(k) = 0
    BY <2>1 DEF Init, Signed, Asked, Sent
  <2>2. Init => OncePerConnection
    BY DEF Init, OncePerConnection
  <2>3. ASSUME Init, NEW k \in Call
        PROVE  Cardinality(Signed(k)) + Cardinality(Asked(k)) <= Sent(k)
    <3>1. Cardinality({}) = 0
      BY FS_EmptySet
    <3> QED BY <2>1, <2>3, <3>1
  <2> QED BY <2>2, <2>3 DEF Counted
<1>2. TypeOK /\ Counted => SignedAtMostTwice
  <2> SUFFICES ASSUME TypeOK, Counted, NEW k \in Call
               PROVE  Cardinality(Signed(k)) <= IF attempt[k] = 1 THEN 2 ELSE 1
    BY DEF SignedAtMostTwice, Signed
  <2>1. Cardinality(Signed(k)) + Cardinality(Asked(k)) <= Sent(k)
    BY DEF Counted
  <2>2. Cardinality(Signed(k)) \in Nat /\ Cardinality(Asked(k)) \in Nat
    BY CountsAreFinite
  <2>3. Sent(k) <= IF attempt[k] = 1 THEN 2 ELSE 1
    BY DEF Sent, TypeOK
  <2>4. Sent(k) \in Nat
    BY CountsAreFinite
  <2> QED BY <2>1, <2>2, <2>3, <2>4
<1>3. TypeOK /\ Attempts /\ [Next]_vars => TypeOK'
  BY TypeStep
<1> QED BY <1>1, <1>2, <1>3, TypeInit, LockStep, CountedStep, PTL DEF Spec

-----------------------------------------------------------------------------
(* The rate limit.  The window holds the latest signatures of this daemon,  *)
(* and every signature outside it is too old to count, or another daemon's. *)

Covers(window, book) ==
    /\ Len(window) <= Len(book)
    /\ \A i \in 1..Len(window) : window[i] = book[Len(book) - Len(window) + i].at
    /\ \A i \in 1..(Len(book) - Len(window)) :
          book[i].life < restarts \/ now - book[i].at > Window
    /\ \A i \in 1..Len(book) : book[i].life <= restarts

\* What _rate_limited drops is too old to count.
LEMMA TrimmedCovers ==
    ASSUME TypeOK, Covers(recent, ledger)
    PROVE  Covers(Trimmed, ledger)
<1>1. /\ recent \in Seq(Nat) /\ now \in Nat /\ Len(recent) \in Nat /\ Len(ledger) \in Nat
  BY LenProperties DEF TypeOK
<1>2. /\ Popped \in 0..Len(recent) /\ \A i \in 1..Popped : now - recent[i] > Window
      /\ Len(Trimmed) = Len(recent) - Popped
      /\ \A i \in 1..Len(Trimmed) : Trimmed[i] = recent[Popped + i]
  BY <1>1, SomeAreKept, KeptIsASuffix
<1>3. Len(Trimmed) \in Nat /\ Len(Trimmed) <= Len(ledger)
  BY <1>1, <1>2 DEF Covers
<1>4. ASSUME NEW i \in 1..Len(Trimmed)
      PROVE  Trimmed[i] = ledger[Len(ledger) - Len(Trimmed) + i].at
  <2>1. Popped + i \in 1..Len(recent)
    BY <1>1, <1>2
  <2>2. Len(ledger) - Len(recent) + (Popped + i) = Len(ledger) - Len(Trimmed) + i
    BY <1>1, <1>2
  <2>3. recent[Popped + i] = ledger[Len(ledger) - Len(recent) + (Popped + i)].at
    BY <2>1 DEF Covers
  <2> QED BY <1>2, <2>2, <2>3
<1>5. ASSUME NEW i \in 1..(Len(ledger) - Len(Trimmed))
      PROVE  ledger[i].life < restarts \/ now - ledger[i].at > Window
  <2>1. CASE i <= Len(ledger) - Len(recent)
    <3>1. i \in 1..(Len(ledger) - Len(recent))
      BY <1>1, <2>1
    <3> QED BY <3>1 DEF Covers
  <2>2. CASE i > Len(ledger) - Len(recent)
    <3> DEFINE n == i - (Len(ledger) - Len(recent))
    <3>1. n \in 1..Popped /\ n \in 1..Len(recent) /\ Len(ledger) - Len(recent) + n = i
      BY <1>1, <1>2, <2>2
    <3> HIDE DEF n
    <3>2. recent[n] = ledger[i].at
      BY <3>1 DEF Covers
    <3> QED BY <1>2, <3>1, <3>2
  <2> QED BY <1>1, <2>1, <2>2
<1> QED BY <1>3, <1>4, <1>5 DEF Covers

\* A signature enters the window and the ledger together.
LEMMA SignedCovers ==
    ASSUME NEW window \in Seq(Nat), NEW book \in Seq(Signature), Covers(window, book),
           NEW e \in Signature, e.at = now, e.life = restarts, now \in Nat
    PROVE  Covers(Append(window, now), Append(book, e))
<1> DEFINE w == Append(window, now)
           b == Append(book, e)
<1>1. /\ Len(window) \in Nat /\ Len(book) \in Nat
      /\ Len(w) = Len(window) + 1 /\ Len(b) = Len(book) + 1
      /\ w[Len(window) + 1] = now /\ b[Len(book) + 1] = e
      /\ \A i \in 1..Len(window) : w[i] = window[i]
      /\ \A i \in 1..Len(book) : b[i] = book[i]
  BY LenProperties, Appended
<1> HIDE DEF w, b
<1>2. Len(window) <= Len(book)
  BY DEF Covers
<1>3. ASSUME NEW i \in 1..Len(w) PROVE w[i] = b[Len(b) - Len(w) + i].at
  <2>1. CASE i = Len(window) + 1
    <3>1. Len(b) - Len(w) + i = Len(book) + 1
      BY <1>1, <2>1
    <3> QED BY <1>1, <2>1, <3>1
  <2>2. CASE i \in 1..Len(window)
    <3>1. /\ Len(b) - Len(w) + i = Len(book) - Len(window) + i
          /\ Len(book) - Len(window) + i \in 1..Len(book)
      BY <1>1, <1>2, <2>2
    <3>2. window[i] = book[Len(book) - Len(window) + i].at
      BY <2>2 DEF Covers
    <3> QED BY <1>1, <2>2, <3>1, <3>2
  <2> QED BY <1>1, <2>1, <2>2
<1>4. ASSUME NEW i \in 1..(Len(b) - Len(w))
      PROVE  b[i].life < restarts \/ now - b[i].at > Window
  <2>1. i \in 1..(Len(book) - Len(window)) /\ i \in 1..Len(book)
    BY <1>1, <1>2
  <2>2. book[i].life < restarts \/ now - book[i].at > Window
    BY <2>1 DEF Covers
  <2> QED BY <1>1, <2>1, <2>2
<1>5. ASSUME NEW i \in 1..Len(b) PROVE b[i].life <= restarts
  <2>1. CASE i = Len(book) + 1
    BY <1>1, <2>1 DEF Signature
  <2>2. CASE i \in 1..Len(book)
    BY <1>1, <2>2 DEF Covers
  <2> QED BY <1>1, <2>1, <2>2
<1>6. Len(w) <= Len(b)
  BY <1>1, <1>2
<1>7. Covers(w, b)
  BY <1>3, <1>4, <1>5, <1>6 DEF Covers
<1> QED BY <1>7 DEF w, b

\* RateHeld, of any ledger.
Near(book, i) ==
    {j \in i..Len(book) : book[j].life = book[i].life /\ book[j].at - book[i].at <= Window}
Spaced(book) == \A i \in 1..Len(book) : Cardinality(Near(book, i)) <= RateLimit

\* A signature made while the window has room: what is near it is in the window.
LEMMA SpacedStays ==
    ASSUME NEW window \in Seq(Nat), NEW book \in Seq(Signature), Covers(window, book),
           Spaced(book), Len(window) < RateLimit, now \in Nat, restarts \in Nat,
           NEW e \in Signature, e.at = now, e.life = restarts
    PROVE  Spaced(Append(book, e))
<1> DEFINE b == Append(book, e)
<1>1. /\ Len(window) \in Nat /\ Len(book) \in Nat /\ Len(b) = Len(book) + 1
      /\ b[Len(book) + 1] = e /\ \A i \in 1..Len(book) : b[i] = book[i]
  BY LenProperties, Appended
<1>0. Len(window) <= Len(book)
  BY DEF Covers
<1>2. \A i \in 1..Len(book) : book[i] \in Signature
  BY ElementOfSeq
<1> HIDE DEF b
<1> SUFFICES ASSUME NEW i \in 1..Len(b) PROVE Cardinality(Near(b, i)) <= RateLimit
  BY DEF Spaced, b
<1>3. CASE Len(book) + 1 \notin Near(b, i)
  <2>1. i # Len(book) + 1
    <3>1. ASSUME i = Len(book) + 1 PROVE Len(book) + 1 \in Near(b, i)
      BY <1>1, <3>1, SignerConstants DEF Near, Signature
    <3> QED BY <1>3, <3>1
  <2>2. i \in 1..Len(book)
    BY <1>1, <2>1
  <2>3. Near(b, i) = Near(book, i)
    <3>1. ASSUME NEW j \in Near(b, i) PROVE j \in Near(book, i)
      <4>0. j \in i..Len(b) /\ j # Len(book) + 1
        BY <1>3 DEF Near
      <4>1. j \in i..Len(book)
        BY <1>1, <2>2, <4>0
      <4> QED BY <1>1, <2>2, <4>1 DEF Near
    <3>2. ASSUME NEW j \in Near(book, i) PROVE j \in Near(b, i)
      BY <1>1, <2>2 DEF Near
    <3> QED BY <3>1, <3>2
  <2> QED BY <2>2, <2>3 DEF Spaced
<1>4. CASE Len(book) + 1 \in Near(b, i)
  <2> DEFINE first == Len(book) - Len(window) + 1
  <2>1. b[i].life = restarts /\ now - b[i].at <= Window
    BY <1>1, <1>4 DEF Near
  <2>2. i >= first
    <3>1. SUFFICES ASSUME i < first PROVE FALSE
      BY <1>1
    <3>2. i \in 1..(Len(book) - Len(window)) /\ i \in 1..Len(book)
      BY <1>0, <1>1, <3>1
    <3>3. b[i] = book[i] /\ book[i] \in Signature
      BY <1>1, <1>2, <3>2
    <3>4. book[i].life < restarts \/ now - book[i].at > Window
      BY <3>2 DEF Covers
    <3> QED BY <2>1, <3>3, <3>4, SignerConstants DEF Signature
  <2>3. Near(b, i) \subseteq first..(Len(book) + 1)
    BY <1>1, <2>2 DEF Near
  <2>4. /\ IsFiniteSet(first..(Len(book) + 1))
        /\ Cardinality(first..(Len(book) + 1))
             = IF first > Len(book) + 1 THEN 0 ELSE (Len(book) + 1) - first + 1
    <3>1. first \in Int /\ Len(book) + 1 \in Int
      BY <1>1
    <3> HIDE DEF first
    <3> QED BY <3>1, FS_Interval
  <2>5. Cardinality(first..(Len(book) + 1)) = Len(window) + 1
    BY <1>1, <2>4
  <2>6. /\ Cardinality(Near(b, i)) <= Cardinality(first..(Len(book) + 1))
        /\ Cardinality(Near(b, i)) \in Nat
    BY <2>3, <2>4, FS_Subset, FS_CardinalityType
  <2> QED BY <1>1, <2>5, <2>6, SignerConstants
<1> QED BY <1>3, <1>4

Windowed == Covers(recent, ledger) /\ Spaced(ledger)

LEMMA WindowedStep == TypeOK /\ TypeOK' /\ Windowed /\ [Next]_vars => Windowed'
<1> SUFFICES ASSUME TypeOK, TypeOK', Windowed, [Next]_vars PROVE Windowed'
  OBVIOUS
<1>1. ASSUME recent' = recent, ledger' = ledger, restarts' = restarts, now' \in {now, now + 1}
      PROVE  Windowed'
  <2>1. \A i \in 1..Len(ledger) : ledger[i] \in Signature
    BY ElementOfSeq DEF TypeOK
  <2>2. Len(recent) \in Nat /\ Len(ledger) \in Nat /\ Len(recent) <= Len(ledger)
    BY LenProperties DEF TypeOK, Windowed, Covers
  <2>3. ASSUME NEW i \in 1..(Len(ledger) - Len(recent))
        PROVE  ledger[i].life < restarts \/ now' - ledger[i].at > Window
    <3>1. ledger[i].at \in Nat
      BY <2>1, <2>2 DEF Signature
    <3>2. ledger[i].life < restarts \/ now - ledger[i].at > Window
      BY DEF Windowed, Covers
    <3> QED BY <1>1, <3>1, <3>2, SignerConstants DEF TypeOK
  <2>4. Covers(recent, ledger)'
    BY <1>1, <2>3 DEF Windowed, Covers
  <2>5. Spaced(ledger)'
    BY <1>1 DEF Windowed, Spaced, Near
  <2> QED BY <2>4, <2>5 DEF Windowed
<1>2. ASSUME UNCHANGED <<daemon, now>> PROVE Windowed'
  BY <1>1, <1>2 DEF daemon
<1>3. CASE UNCHANGED vars
  BY <1>2, <1>3 DEF vars
<1>4. ASSUME NEW k \in Call, Begin(k) \/ ClientStep(k) \/ CancelCall(k) PROVE Windowed'
  BY <1>2, <1>4 DEF Begin, ClientStep, Acquire, SendNew, SendHeld, ConnectFails, Read, ReadEnds,
                    TimesOut, CancelCall
<1>5. ASSUME NEW c \in DOMAIN conns, NEW readable \in BOOLEAN, Serve(c, readable)
      PROVE  Windowed'
  <2> DEFINE k == Head(conns[c].reqs)
             e == [call |-> k, at |-> now, life |-> restarts]
  <2>1. k \in Call
    BY <1>5, ServeEffect
  <2>2. Covers(Trimmed, ledger) /\ Trimmed \in Seq(Nat) /\ ledger \in Seq(Signature)
        /\ now \in Nat /\ restarts \in Nat
    BY TrimmedCovers, KeptIsASuffix DEF Windowed, TypeOK
  <2>3. e \in Signature /\ e.at = now /\ e.life = restarts
    BY <2>1, <2>2 DEF Signature
  <2>4. now' = now /\ restarts' = restarts
    BY <1>5 DEF Serve
  <2>5. CASE Verdict(k, readable) = "ok"
    <3>1. recent' = Append(Trimmed, now) /\ ledger' = Append(ledger, e)
      <4>1. [of |-> k, status |-> Verdict(k, readable)].status = "ok"
        BY <2>5
      <4>2. ledger' = Append(ledger, e)
        BY <1>5, <4>1 DEF Serve
      <4>3. recent' = Append(Trimmed, now)
        <5>1. ~HaltSeen(readable)
          BY <2>5 DEF Verdict
        <5> QED BY <1>5, <4>1, <5>1 DEF Serve
      <4> QED BY <4>2, <4>3
    <3>2. Len(Trimmed) < RateLimit
      <4>1. ~ (Len(Trimmed) >= RateLimit)
        BY <2>5 DEF Verdict
      <4>2. Len(Trimmed) \in Nat
        BY <2>2, LenProperties
      <4> QED BY <4>1, <4>2, SignerConstants
    <3> HIDE DEF e
    <3>3. Covers(Append(Trimmed, now), Append(ledger, e))
      BY <2>2, <2>3, SignedCovers
    <3>4. Spaced(Append(ledger, e))
      BY <2>2, <2>3, <3>2, SpacedStays DEF Windowed
    <3> QED BY <2>4, <3>1, <3>3, <3>4 DEF Windowed, Covers, Spaced, Near
  <2>6. CASE Verdict(k, readable) # "ok"
    <3>1. recent' \in {recent, Trimmed} /\ ledger' = ledger
      BY <1>5, <2>6 DEF Serve
    <3>2. Covers(recent', ledger)
      BY <2>2, <3>1 DEF Windowed
    <3> QED BY <2>4, <3>1, <3>2 DEF Windowed, Covers, Spaced, Near
  <2> QED BY <2>5, <2>6
<1>6. CASE ServerStops
  BY <1>1, <1>6 DEF ServerStops
<1>7. CASE ServerStarts
  <2>1. recent' = <<>> /\ restarts' = restarts + 1 /\ ledger' = ledger /\ now' = now
    BY <1>7 DEF ServerStarts
  <2>2. Len(ledger) \in Nat /\ \A i \in 1..Len(ledger) : ledger[i] \in Signature
    BY LenProperties, ElementOfSeq DEF TypeOK
  <2>3. ASSUME NEW i \in 1..Len(ledger)
        PROVE  ledger[i].life < restarts' /\ ledger[i].life <= restarts'
    <3>1. ledger[i].life \in Nat /\ ledger[i].life <= restarts
      BY <2>2 DEF Signature, Windowed, Covers
    <3> QED BY <2>1, <3>1 DEF TypeOK
  <2>5. Covers(recent, ledger)'
    BY <2>1, <2>2, <2>3 DEF Covers
  <2>6. Spaced(ledger)'
    BY <2>1 DEF Windowed, Spaced, Near
  <2> QED BY <2>5, <2>6 DEF Windowed
<1>8. CASE Halt
  BY <1>2, <1>8 DEF Halt
<1>9. CASE Tick
  BY <1>1, <1>9 DEF Tick, daemon
<1> QED BY <1>3, <1>4, <1>5, <1>6, <1>7, <1>8, <1>9 DEF Next

\* One daemon never signs more than RateLimit messages in any stretch of Window
\* ticks, although it only looks at the window when it signs (_rate_limited).
THEOREM RateIsHeld == Spec => []RateHeld
<1>1. Init => Windowed
  BY DEF Init, Windowed, Covers, Spaced
<1>2. TypeOK /\ Windowed => RateHeld
  <2> SUFFICES ASSUME TypeOK, Windowed, NEW i \in DOMAIN ledger
               PROVE  Cardinality(Near(ledger, i)) <= RateLimit
    BY DEF RateHeld, Near
  <2>1. DOMAIN ledger = 1..Len(ledger)
    BY LenProperties DEF TypeOK
  <2> QED BY <2>1 DEF Windowed, Spaced
<1> QED BY <1>1, <1>2, TypeInit, TypeStep, LockStep, WindowedStep, PTL DEF Spec
=============================================================================
