----------------------------- MODULE IntakeLog -----------------------------
(***************************************************************************)
(* What the durable intake promises, without clocks, tickets, counters or  *)
(* transactions (src/collectors/source_journal.py, module docstring): an   *)
(* accepted observation stays pending until somebody who holds its latest  *)
(* lease acknowledges it.  Delivery is at least once: leases may be        *)
(* superseded, lost and forgotten.                                         *)
(***************************************************************************)
EXTENDS Naturals, FiniteSets

CONSTANT Item

VARIABLES
    st,      \* st[i]: "absent", "pending" or "acked"
    gen,     \* gen[i]: how often i was leased
    holds    \* <<i, g>>: somebody holds generation g of i

logvars == <<st, gen, holds>>

Init == /\ st = [i \in Item |-> "absent"]
        /\ gen = [i \in Item |-> 0]
        /\ holds = {}

\* A batch is accepted; identities that are known already are ignored.
Accept(S) ==
    /\ \A i \in S : st[i] = "absent"
    /\ st' = [i \in Item |-> IF i \in S THEN "pending" ELSE st[i]]
    /\ UNCHANGED <<gen, holds>>

\* A batch is leased; the new leases may be lost on the way to the caller.
Lease(S) ==
    /\ \A i \in S : st[i] = "pending"
    /\ gen' = [i \in Item |-> IF i \in S THEN gen[i] + 1 ELSE gen[i]]
    /\ holds' \in {holds, holds \cup {<<i, gen[i] + 1>> : i \in S}}
    /\ UNCHANGED st

\* Holders forget leases: a crash, a cancelled read, a retry.
Forget(H) ==
    /\ H \subseteq holds
    /\ holds' = holds \ H
    /\ UNCHANGED <<st, gen>>

\* Only the latest lease acknowledges; it may be forgotten with it.
Ack(i) ==
    /\ st[i] = "pending"
    /\ <<i, gen[i]>> \in holds
    /\ st' = [st EXCEPT ![i] = "acked"]
    /\ holds' \in {holds, holds \ {<<i, gen[i]>>}}
    /\ UNCHANGED gen

Next == \/ \E S \in SUBSET Item : Accept(S) \/ Lease(S)
        \/ \E H \in SUBSET holds : Forget(H)
        \/ \E i \in Item : Ack(i)

Spec == Init /\ [][Next]_logvars
=============================================================================
