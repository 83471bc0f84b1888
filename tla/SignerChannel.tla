--------------------------- MODULE SignerChannel ---------------------------
(***************************************************************************)
(* The desk's signing requests over the one held connection to the signer  *)
(* daemon: SignerClient, SignerServer and SignerService of                 *)
(* src/execution/signer.py, with the frames of signer_protocol.py.         *)
(*                                                                         *)
(* A frame carries no request number: an answer belongs to the request     *)
(* whose turn it is on the connection.  A message is named by the call     *)
(* that asks for it.  Time is counted in ticks; Window ticks are the       *)
(* minute of the rate limit.                                               *)
(***************************************************************************)
EXTENDS Naturals, Sequences, FiniteSets

CONSTANTS
    Call,         \* calls of SignerClient.sign_message
    Unlisted,     \* calls whose message the inspector refuses
    RateLimit,    \* SignerPolicy.rate_limit_per_minute
    Window,       \* the minute, in ticks
    MaxTick,      \* bound: ticks of the clock
    MaxRestart    \* bound: restarts of the daemon

ASSUME SignerConstants ==
    /\ IsFiniteSet(Call) /\ Unlisted \subseteq Call
    /\ RateLimit \in Nat /\ Window \in Nat
    /\ MaxTick \in Nat /\ MaxRestart \in Nat

Nobody == "nobody"
ASSUME NobodyCalls == Nobody \notin Call

NoConn == 0
Answer == [of: Call, status: {"ok", "refused"}]
Outcome == [of: Call, status: {"none", "ok", "refused", "raised", "cancelled"}]

VARIABLES
    pc,        \* per call: "idle", "queued", "send", "read", "done"
    attempt,   \* per call: the loop variable of _frame
    outcome,   \* per call: the answer returned, or how the call ended
    late,      \* calls that began after the halt file appeared
    lock,      \* holder of SignerClient._lock
    held,      \* the connection in _reader/_writer, or NoConn
    conns,     \* every connection: unserved requests and unread answers
    up,        \* the daemon runs
    recent,    \* SignerService._recent
    ledger,    \* signatures made: call, tick, incarnation of the daemon
    halted,    \* the halt file exists
    unseen,    \* calls served while it existed and could not be read
    now, restarts

client == <<pc, attempt, outcome, late, lock, held>>
daemon == <<up, recent, ledger, unseen, restarts>>
vars == <<client, conns, daemon, halted, now>>

Conn == [served: BOOLEAN, reqs: Seq(Call), resps: Seq(Answer)]
Signature == [call: Call, at: Nat, life: Nat]

\* Every variable has its type.
TypeOK ==
    /\ pc \in [Call -> {"idle", "queued", "send", "read", "done"}]
    /\ attempt \in [Call -> {0, 1}]
    /\ outcome \in [Call -> Outcome]
    /\ late \subseteq Call /\ unseen \subseteq Call
    /\ lock \in Call \cup {Nobody}
    /\ conns \in Seq(Conn)
    /\ held \in 0..Len(conns)
    /\ up \in BOOLEAN /\ halted \in BOOLEAN
    /\ recent \in Seq(Nat) /\ ledger \in Seq(Signature)
    /\ now \in Nat /\ restarts \in Nat

Ending(k, status) == [of |-> k, status |-> status]

Init ==
    /\ pc = [k \in Call |-> "idle"] /\ attempt = [k \in Call |-> 0]
    /\ outcome = [k \in Call |-> Ending(k, "none")] /\ late = {}
    /\ lock = Nobody /\ held = NoConn /\ conns = <<>>
    /\ up = TRUE /\ recent = <<>> /\ ledger = <<>>
    /\ halted = FALSE /\ unseen = {} /\ now = 0 /\ restarts = 0

-----------------------------------------------------------------------------
(***************************************************************************)
(* SignerClient.                                                           *)
(***************************************************************************)

\* sign_message is called.
Begin(k) ==
    /\ pc[k] = "idle"
    /\ pc' = [pc EXCEPT ![k] = "queued"]
    /\ late' = IF halted THEN late \cup {k} ELSE late
    /\ UNCHANGED <<attempt, outcome, lock, held, conns, daemon, halted, now>>

\* async with self._lock.
Acquire(k) ==
    /\ pc[k] = "queued" /\ lock = Nobody
    /\ lock' = k
    /\ pc' = [pc EXCEPT ![k] = "send"]
    /\ UNCHANGED <<attempt, outcome, late, held, conns, daemon, halted, now>>

\* The call leaves _frame and the lock with result o.
Finish(k, o) ==
    /\ pc' = [pc EXCEPT ![k] = "done"]
    /\ outcome' = [outcome EXCEPT ![k] = o]
    /\ lock' = Nobody
    /\ UNCHANGED <<attempt, late>>

\* Mutant: a failed attempt leaves the connection in place.
AttemptFailsKeeps(k) ==
    /\ held' = held
    /\ \/ /\ attempt[k] = 0
          /\ attempt' = [attempt EXCEPT ![k] = 1]
          /\ pc' = [pc EXCEPT ![k] = "send"]
          /\ UNCHANGED <<outcome, late, lock>>
       \/ attempt[k] = 1 /\ Finish(k, Ending(k, "raised"))

\* Mutant: the loop of _frame has no end.
AttemptFailsForever(k) ==
    /\ held' = NoConn
    /\ attempt' = [attempt EXCEPT ![k] = 1]
    /\ pc' = [pc EXCEPT ![k] = "send"]
    /\ UNCHANGED <<outcome, late, lock>>

\* Mutant: the loop of _frame makes a third attempt.
AttemptFailsTwice(k) ==
    /\ held' = NoConn
    /\ \/ /\ attempt[k] < 2
          /\ attempt' = [attempt EXCEPT ![k] = @ + 1]
          /\ pc' = [pc EXCEPT ![k] = "send"]
          /\ UNCHANGED <<outcome, late, lock>>
       \/ attempt[k] = 2 /\ Finish(k, Ending(k, "raised"))

\* except: _drop, then the second attempt or the exception.
AttemptFails(k) ==
    /\ held' = NoConn
    /\ \/ /\ attempt[k] = 0
          /\ attempt' = [attempt EXCEPT ![k] = 1]
          /\ pc' = [pc EXCEPT ![k] = "send"]
          /\ UNCHANGED <<outcome, late, lock>>
       \/ attempt[k] = 1 /\ Finish(k, Ending(k, "raised"))

\* A connection is opened, with the handshake, and carries the first frame.
SendNew(k) ==
    /\ pc[k] = "send" /\ held = NoConn /\ up
    /\ conns' = Append(conns, [served |-> TRUE, reqs |-> <<k>>, resps |-> <<>>])
    /\ held' = Len(conns')
    /\ pc' = [pc EXCEPT ![k] = "read"]
    /\ UNCHANGED <<attempt, outcome, late, lock, daemon, halted, now>>

\* The frame goes out on the held connection; the end of a daemon that has gone
\* is only noticed by the read.
SendHeld(k) ==
    /\ pc[k] = "send" /\ held # NoConn
    /\ conns' = IF conns[held].served
                  THEN [conns EXCEPT ![held].reqs = Append(@, k)]
                  ELSE conns
    /\ pc' = [pc EXCEPT ![k] = "read"]
    /\ UNCHANGED <<attempt, outcome, late, lock, held, daemon, halted, now>>

\* open_unix_connection fails: nobody listens.
ConnectFails(k) ==
    /\ pc[k] = "send" /\ held = NoConn /\ ~up
    /\ AttemptFails(k)
    /\ UNCHANGED <<conns, daemon, halted, now>>

\* read_frame returns the next answer of the connection.
Read(k) ==
    /\ pc[k] = "read" /\ conns[held].resps # <<>>
    /\ Finish(k, Head(conns[held].resps))
    /\ conns' = [conns EXCEPT ![held].resps = Tail(@)]
    /\ UNCHANGED <<held, daemon, halted, now>>

\* read_frame returns None: the daemon closed the connection.
ReadEnds(k) ==
    /\ pc[k] = "read" /\ conns[held].resps = <<>> /\ ~conns[held].served
    /\ AttemptFails(k)
    /\ UNCHANGED <<conns, daemon, halted, now>>

\* wait_for(read_frame, timeout_s) times out; TimeoutError is an OSError.
TimesOut(k) ==
    /\ pc[k] = "read"
    /\ AttemptFails(k)
    /\ UNCHANGED <<conns, daemon, halted, now>>

\* main.stop cancels the task of a call while other tasks still run: the
\* CancelledError passes every except of _frame.
CancelCall(k) ==
    /\ pc[k] \in {"queued", "send", "read"}
    /\ pc' = [pc EXCEPT ![k] = "done"]
    /\ outcome' = [outcome EXCEPT ![k] = Ending(k, "cancelled")]
    /\ lock' = IF lock = k THEN Nobody ELSE lock
    /\ UNCHANGED <<attempt, late, held, conns, daemon, halted, now>>

-----------------------------------------------------------------------------
(***************************************************************************)
(* SignerServer and SignerService.                                         *)
(***************************************************************************)

\* Mutant: the window counts from the newest signature.
TrimmedByNewest == IF recent # <<>> /\ now - recent[Len(recent)] >= Window THEN <<>> ELSE recent

\* _rate_limited drops the oldest entries while they are older than the window.
Popped == Cardinality({n \in 1..Len(recent) : \A i \in 1..n : now - recent[i] > Window})
Trimmed == SubSeq(recent, Popped + 1, Len(recent))

\* _halted: a stat of the halt file that fails (except OSError: pass) reads as
\* no halt file.
HaltSeen(readable) == halted /\ readable

\* Mutant: the halt file is read after the signature is made.
VerdictIgnoresHalt(k, readable) ==
    IF Len(Trimmed) >= RateLimit \/ k \in Unlisted THEN "refused" ELSE "ok"

\* SignerService.sign: the gates, in order, then the inspector.
Verdict(k, readable) ==
    IF HaltSeen(readable) \/ Len(Trimmed) >= RateLimit \/ k \in Unlisted
      THEN "refused" ELSE "ok"

\* _serve_binary: one frame of one connection is judged, signed and answered,
\* whether or not the client still listens; the halt file may be readable or
\* not.  A signer that sees the halt answers before it trims the window; a frame
\* the inspector refuses has trimmed it.
Serve(c, readable) ==
    LET k == Head(conns[c].reqs)
        a == [of |-> k, status |-> Verdict(k, readable)]
    IN /\ up /\ conns[c].served /\ conns[c].reqs # <<>>
       /\ conns' = [conns EXCEPT ![c].reqs = Tail(@), ![c].resps = Append(@, a)]
       /\ recent' = CASE a.status = "ok" -> Append(Trimmed, now)
                      [] HaltSeen(readable) -> recent
                      [] OTHER -> Trimmed
       /\ ledger' = IF a.status = "ok"
                      THEN Append(ledger, [call |-> k, at |-> now, life |-> restarts])
                      ELSE ledger
       /\ unseen' = IF halted /\ ~readable THEN unseen \cup {k} ELSE unseen
       /\ UNCHANGED <<client, up, restarts, halted, now>>

\* SignerServer.stop, or the process dies: every handler ends, and what it had
\* not read is lost.
ServerStops ==
    /\ up /\ restarts < MaxRestart
    /\ up' = FALSE
    /\ conns' = [c \in DOMAIN conns |-> [conns[c] EXCEPT !.served = FALSE, !.reqs = <<>>]]
    /\ UNCHANGED <<client, recent, ledger, unseen, restarts, halted, now>>

\* SignerServer.start in a new process: the rate window starts empty.
ServerStarts ==
    /\ ~up
    /\ up' = TRUE /\ recent' = <<>> /\ restarts' = restarts + 1
    /\ UNCHANGED <<client, conns, ledger, unseen, halted, now>>

\* The operator creates the halt file.
Halt ==
    /\ ~halted
    /\ halted' = TRUE
    /\ UNCHANGED <<client, conns, daemon, now>>

Tick ==
    /\ now < MaxTick
    /\ now' = now + 1
    /\ UNCHANGED <<client, conns, daemon, halted>>

ClientStep(k) ==
    Acquire(k) \/ SendNew(k) \/ SendHeld(k) \/ ConnectFails(k) \/ Read(k) \/ ReadEnds(k)
    \/ TimesOut(k)

Next ==
    \/ \E k \in Call : Begin(k) \/ ClientStep(k) \/ CancelCall(k)
    \/ \E c \in DOMAIN conns, readable \in BOOLEAN : Serve(c, readable)
    \/ ServerStops \/ ServerStarts \/ Halt \/ Tick

Spec == Init /\ [][Next]_vars

\* The event loop runs every ready task, and a wait for an answer ends by its
\* timeout at the latest; the daemon need not answer at all.
FairSpec == Spec /\ \A k \in Call : WF_vars(ClientStep(k))

-----------------------------------------------------------------------------
(***************************************************************************)
(* Properties.                                                             *)
(***************************************************************************)

\* "One request/response over the held connection" (_frame): the answer a call
\* returns, signature or refusal, is the daemon's answer to that call's message.
AnswerIsOwn == \A k \in Call : outcome[k].of = k

NoneCancelled == \A k \in Call : outcome[k].status # "cancelled"

\* Timeouts, retries, restarts and a halt leave nothing behind for the next
\* caller of _frame: as long as no task was cancelled every answer is own, and
\* between requests the held connection carries no request and no answer.
TimeoutsLeaveNothing ==
    NoneCancelled =>
        /\ AnswerIsOwn
        /\ held # NoConn /\ (\A k \in Call : pc[k] # "read")
             => conns[held].reqs = <<>> /\ conns[held].resps = <<>>

\* A call that began after the halt file appeared never gets a signature,
\* whatever was in flight on the connection when the operator halted the desk,
\* unless the daemon failed to read the file while it served that very call (and
\* a call that reads a cancelled call's answer aside).
HaltBinds == NoneCancelled => \A k \in late \ unseen : outcome[k].status # "ok"

\* One daemon never makes more than RateLimit signatures in any Window ticks,
\* counting the second signature of a call that was asked again.
RateHeld ==
    \A i \in DOMAIN ledger :
        Cardinality({j \in i..Len(ledger) :
            ledger[j].life = ledger[i].life /\ ledger[j].at - ledger[i].at <= Window})
          <= RateLimit

\* "Exactly one retry" (_frame): a message is signed at most twice, and twice
\* only for a call that went into its second attempt.
SignedAtMostTwice ==
    \A k \in Call :
        Cardinality({i \in DOMAIN ledger : ledger[i].call = k})
          <= IF attempt[k] = 1 THEN 2 ELSE 1

\* Every call of sign_message ends, with an answer or an exception, also when
\* the daemon never answers.
CallsEnd == \A k \in Call : pc[k] = "queued" ~> pc[k] = "done"
=============================================================================
