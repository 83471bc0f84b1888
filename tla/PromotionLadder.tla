--------------------------- MODULE PromotionLadder ---------------------------
(***************************************************************************)
(* One hypothesis on its way to live authority:                            *)
(* ChampionChallengerFramework of                                          *)
(* src/src/strategies/champion_challenger.py, its checkpoint file, and the *)
(* outcomes that ResearchValidationService.reconcile_forward               *)
(* (src/src/research/research_validation.py) hands to it.                  *)
(*                                                                         *)
(* The buckets of different hypotheses do not touch, so one identifier is  *)
(* enough; its content may change.  A content stands for its hash.  The    *)
(* framework runs on the event loop; a call is one step, and a crash may   *)
(* fall between the calls of one caller.                                   *)
(***************************************************************************)
EXTENDS Integers, FiniteSets

CONSTANTS
    Exact,      \* contents with a valid exact candidate
    Invalid,    \* contents whose exact candidate fails validation
    Legacy,     \* contents without an exact candidate
    Event,      \* forward outcomes
    Paper,      \* those from simulated fills
    Good,       \* those that made money
    MinShadow,  \* min_oos_samples
    MinCanary,  \* real outcomes a canary needs (20)
    Window,     \* decay_window
    MaxFaults,  \* bound: crashes and failed writes in a behaviour
    MaxEpoch    \* bound: freezes in a behaviour

Content == Exact \union Invalid \union Legacy

ASSUME ConstantsAssumption ==
    /\ {MinShadow, MinCanary, Window} \subseteq Nat \ {0}
    /\ {MaxFaults, MaxEpoch} \subseteq Nat
    /\ Paper \subseteq Event /\ Good \subseteq Event
    /\ Exact \intersect Invalid = {} /\ (Exact \union Invalid) \intersect Legacy = {}

VARIABLES
    fw,      \* the framework in memory
    disk,    \* its checkpoint file
    found,   \* experiment outcomes of the validation service: event -> [spec, at, recorded]
    kept,    \* their checkpoint
    at,      \* what the running caller does next
    epoch,   \* freezes so far: the clock evidence is dated with
    spent,   \* history: the rows each promotion of a content rested on
    passed,  \* history: contents a passed trial was recorded for
    torn,    \* history: outcomes whose checkpoint in the framework and mark in the service came apart
    faults

vars == <<fw, disk, found, kept, at, epoch, spent, passed, torn, faults>>
history == <<passed, torn>>

\* A row of a bucket: an outcome, bound to the content it was observed for.
Row == [event : Event, spec : Content]
Bucket == [in : BOOLEAN, rows : SUBSET Row]
Empty == [in |-> FALSE, rows |-> {}]

None == [content |-> "none", frozen |-> "none", at |-> 0, status |-> "none", admission |-> "none"]

Init ==
    /\ fw = [hyp |-> None, latest |-> [c \in Content |-> "none"], ch |-> "none",
             shadow |-> Empty, canary |-> Empty, champ |-> "none", perf |-> {}]
    /\ disk = fw /\ found = << >> /\ kept = << >>
    /\ at = "idle" /\ epoch = 0 /\ faults = 0
    /\ spent = [c \in Content |-> [shadow |-> {}, canary |-> {}]] /\ passed = {} /\ torn = {}

-----------------------------------------------------------------------------
(* Admission and freezing                                                   *)

Admission(c) == CASE c \in Exact -> "EXACT_CANDIDATE" [] c \in Invalid -> "BLOCKED"
                  [] OTHER -> "LEGACY_NONEXACT"

\* Mutant: a frozen hash is taken at its word.
MutFrozenValid(h) == h.frozen # "none" /\ h.content \notin Invalid

\* _frozen_valid
FrozenValid(h) == h.frozen # "none" /\ h.frozen = h.content /\ h.content \notin Invalid

\* _exact_frozen_valid
ExactFrozen(h) == /\ h.content \notin Legacy /\ h.admission = "EXACT_CANDIDATE"
                  /\ FrozenValid(h)

IsLive(f) == f.champ = "LIVE" /\ ExactFrozen(f.hyp)

\* _save_state: the file holds what memory holds; or the write raised, the
\* change stays in memory and the caller gets the exception.
Saved(next) == disk' = fw' /\ at' = next /\ UNCHANGED faults
Raised == /\ faults < MaxFaults /\ faults' = faults + 1
          /\ disk' = disk /\ at' = "idle"
Save(next) == Saved(next) \/ Raised

\* submit_hypothesis with a content that was not there: evidence of the old
\* content goes.
Fresh(f, c) == [f EXCEPT !.hyp = [None EXCEPT !.content = c, !.status = "discovered",
                                  !.admission = Admission(c)],
                         !.ch = "DISCOVERED", !.shadow = Empty, !.canary = Empty,
                         !.champ = "none", !.perf = {}]

\* The callers: the research engine (submit, freeze, block), the mechanism
\* laboratory (submit, freeze) and the lead miner (submit, block).
Submit(c) ==
    /\ at = "idle" /\ fw.hyp.content # c /\ (c \in Exact => epoch < MaxEpoch)
    /\ fw' = Fresh(fw, c)
    /\ \E next \in IF c \in Legacy THEN {"block"}
                   ELSE IF c \in Invalid THEN {"freeze-block"} ELSE {"freeze-block", "freeze"} : Save(next)
    /\ UNCHANGED <<found, kept, epoch, spent, history>>

\* mark_data_blocked
Blocked(f) == [f EXCEPT !.champ = IF @ = "none" THEN @ ELSE "HIBERNATED",
                        !.shadow = Empty, !.canary = Empty, !.ch = "DATA_BLOCKED",
                        !.hyp.status = "data_blocked"]

\* freeze_hypothesis of a content not frozen yet.
Freeze ==
    /\ at \in {"freeze", "freeze-block"}
    /\ \/ /\ fw.hyp.content \in Invalid
          /\ fw' = Blocked(fw) /\ Save("idle") /\ UNCHANGED epoch
       \/ /\ fw.hyp.content \in Exact
          /\ epoch' = epoch + 1
          /\ fw' = [fw EXCEPT !.hyp.frozen = fw.hyp.content, !.hyp.at = epoch']
          /\ Save(IF at = "freeze" THEN "idle" ELSE "block")
    /\ UNCHANGED <<found, kept, spent, history>>

Block ==
    /\ at = "block"
    /\ fw' = Blocked(fw) /\ Save("idle")
    /\ UNCHANGED <<found, kept, epoch, spent, history>>

\* record_trial_result of the validation service: the latest trial bound to
\* the frozen content.  Only a CHRONOLOGICAL_OOS trial over its marks is a
\* "pass"; one of another stage hides it as a failed one does.
Trial(r) ==
    /\ at = "idle" /\ ExactFrozen(fw.hyp) /\ fw.latest[fw.hyp.frozen] # r
    /\ fw' = [fw EXCEPT !.latest[fw.hyp.frozen] = r]
    /\ passed' = IF r = "pass" THEN passed \union {fw.hyp.frozen} ELSE passed
    /\ Save("idle")
    /\ UNCHANGED <<found, kept, epoch, spent, torn>>

-----------------------------------------------------------------------------
(* Forward outcomes                                                         *)

\* Mutant: an event that was resolved is taken again.
MutUnresolved(e) == TRUE
Unresolved(e) == e \notin DOMAIN found

\* _save of the validation service, a file of its own.
Keep(next) == kept' = found' /\ at' = next /\ UNCHANGED faults
KeepRaised == /\ faults < MaxFaults /\ faults' = faults + 1
              /\ UNCHANGED kept /\ at' = "idle"

\* _outcome: checkpointed before it is offered to a bucket.
Outcome(e) ==
    /\ at = "idle" /\ ExactFrozen(fw.hyp) /\ Unresolved(e)
    /\ found' = [x \in DOMAIN found \union {e} |->
                 IF x = e THEN [spec |-> fw.hyp.frozen, at |-> epoch, recorded |-> FALSE] ELSE found[x]]
    /\ Keep("flush") \/ KeepRaised
    /\ UNCHANGED <<fw, disk, epoch, spent, history>>

\* The bucket reconcile_forward looks at: a real outcome falls through to the
\* canary.
Target(e) == IF fw.shadow.in THEN "shadow"
             ELSE IF e \notin Paper /\ fw.canary.in THEN "canary" ELSE "none"

Existing(e, b) == \E r \in b.rows : r.event = e

Movable(e) == /\ ~found[e].recorded /\ ExactFrozen(fw.hyp) /\ found[e].spec = fw.hyp.frozen
              /\ Target(e) # "none"

\* _forward_credit: paper counts in the shadow only.
Credit(e, stage) == e \notin Paper \/ stage = "shadow"

\* record_forward_result's own conditions: the date of the freeze, and the
\* bucket it takes (a champion's first, but a champion has no other: OneRung).
Accepts(e) == found[e].at >= fw.hyp.at /\ fw.champ = "none" /\ Credit(e, Target(e))

Reconcile ==
    /\ at = "idle" /\ at' = "flush" /\ \E e \in DOMAIN found : Movable(e) /\ Accepts(e)
    /\ UNCHANGED <<fw, disk, found, kept, epoch, spent, history, faults>>

Mark(e) == found' = [found EXCEPT ![e].recorded = TRUE]

Transfer(e) ==
    /\ at = "flush" /\ Movable(e)
    /\ LET row == [event |-> e, spec |-> found[e].spec]
           b == IF Target(e) = "shadow" THEN fw.shadow ELSE fw.canary
       IN \/ /\ Existing(e, b) /\ Mark(e) /\ UNCHANGED <<fw, disk, at, torn, faults>>
          \/ /\ ~Existing(e, b) /\ Accepts(e)
             /\ fw' = IF Target(e) = "shadow" THEN [fw EXCEPT !.shadow.rows = @ \union {row}]
                      ELSE [fw EXCEPT !.canary.rows = @ \union {row}]
             /\ \/ Saved("flush") /\ Mark(e) /\ UNCHANGED torn
                \/ Raised /\ torn' = torn \union {e} /\ UNCHANGED found
    /\ UNCHANGED <<kept, epoch, spent, passed>>

\* The end of the pass: the marks become durable.
Flushed ==
    /\ at = "flush" /\ \A e \in DOMAIN found : Movable(e) => ~Accepts(e)
    /\ UNCHANGED <<fw, disk, found, epoch, spent, history>>
    /\ Keep("idle") \/ KeepRaised

\* record_forward_result for a champion, called as the tests call it.
Feed(e) ==
    /\ at = "idle" /\ e \in DOMAIN found /\ ExactFrozen(fw.hyp)
    /\ fw.champ # "none" /\ found[e].spec = fw.hyp.frozen /\ found[e].at >= fw.hyp.at
    /\ Credit(e, "champion") /\ [event |-> e, spec |-> fw.hyp.frozen] \notin fw.perf
    /\ fw' = [fw EXCEPT !.perf = @ \union {[event |-> e, spec |-> fw.hyp.frozen]}]
    /\ Save("idle")
    /\ UNCHANGED <<found, kept, epoch, spent, history>>

-----------------------------------------------------------------------------
(* _evaluation_loop; that a stage has lasted long enough is a matter of      *)
(* time, so the steps are simply possible.                                   *)

\* Mutant: the challenger entry stays.
MutToShadow(f) == [f EXCEPT !.shadow = [in |-> TRUE, rows |-> {}],
                            !.hyp.status = "forward_shadow"]
ToShadow(f) == [f EXCEPT !.shadow = [in |-> TRUE, rows |-> {}], !.ch = "none",
                         !.hyp.status = "forward_shadow"]

EvaluateChallenger ==
    /\ at = "idle" /\ fw.ch # "none"
    /\ \/ /\ ~ExactFrozen(fw.hyp) /\ Blocked(fw) # fw /\ fw' = Blocked(fw)
       \/ /\ ExactFrozen(fw.hyp) /\ fw.latest[fw.hyp.frozen] = "pass" /\ fw' = ToShadow(fw)
    /\ Save("idle")
    /\ UNCHANGED <<found, kept, epoch, spent, history>>

\* Growth and win rate are above their marks only if something was won.
Verdicts(rows) == {FALSE} \union {\E r \in rows : r.event \in Good}

\* _retire_hypothesis saves before its caller drops the bucket: when that
\* write raises, or the process dies after it, the bucket stays.
Retire(gone) ==
    \/ /\ fw' = [gone EXCEPT !.hyp.status = "retired"] /\ Saved("idle")
    \/ /\ faults < MaxFaults /\ faults' = faults + 1 /\ at' = "idle"
       /\ fw' = [fw EXCEPT !.hyp.status = "retired"] /\ disk' \in {disk, fw'}

Real(rows) == {r \in rows : r.event \notin Paper}

Tampered(h) == ~ExactFrozen(h)

EvaluateShadow ==
    /\ at = "idle" /\ fw.shadow.in
    /\ \/ /\ Tampered(fw.hyp) /\ fw' = Blocked(fw) /\ Save("idle") /\ UNCHANGED spent
       \/ /\ ~Tampered(fw.hyp) /\ Cardinality(fw.shadow.rows) >= MinShadow
          /\ \E ok \in Verdicts(fw.shadow.rows) :
               \/ /\ ok
                  /\ fw' = [fw EXCEPT !.canary = [in |-> TRUE, rows |-> {}], !.shadow = Empty,
                                      !.hyp.status = "canary"]
                  /\ spent' = [spent EXCEPT ![fw.hyp.content].shadow = @ \union fw.shadow.rows]
                  /\ Save("idle")
               \/ ~ok /\ Retire([fw EXCEPT !.shadow = Empty]) /\ UNCHANGED spent
    /\ UNCHANGED <<found, kept, epoch, history>>

EvaluateCanary ==
    /\ at = "idle" /\ fw.canary.in
    /\ \/ /\ Tampered(fw.hyp) /\ fw' = Blocked(fw) /\ Save("idle") /\ UNCHANGED spent
       \/ /\ ~Tampered(fw.hyp)
          /\ LET rows == Real(fw.canary.rows) IN
             \E ok \in IF Cardinality(rows) >= MinCanary THEN Verdicts(rows) ELSE {FALSE} :
               \/ /\ ok
                  /\ fw' = [fw EXCEPT !.champ = "LIVE", !.perf = {}, !.canary = Empty,
                                      !.hyp.status = "live"]
                  /\ spent' = [spent EXCEPT ![fw.hyp.content].canary = @ \union rows]
                  /\ Save("idle")
               \/ ~ok /\ Retire([fw EXCEPT !.canary = Empty]) /\ UNCHANGED spent
    /\ UNCHANGED <<found, kept, epoch, history>>

\* A window without a win is decaying or hibernated; one with a win may also
\* be left alone.
DecayTo(f) == {"DECAYING", "HIBERNATED"}
              \union IF \E r \in f.perf : r.event \in Good THEN {f.champ} ELSE {}

\* _monitor_champion_decay
Decay ==
    /\ at = "idle" /\ fw.champ # "none" /\ Cardinality(fw.perf) >= Window
    /\ \E s \in DecayTo(fw) : s # fw.champ /\ fw' = [fw EXCEPT !.champ = s]
    /\ Save("idle")
    /\ UNCHANGED <<found, kept, epoch, spent, history>>

-----------------------------------------------------------------------------
(* A crash, and _load_state                                                 *)

\* What is not exactly frozen loses its bucket and its authority.
Revoked(f) == [f EXCEPT !.shadow = Empty, !.canary = Empty,
                        !.ch = IF f.shadow.in \/ f.canary.in THEN "DATA_BLOCKED" ELSE @,
                        !.hyp.status = IF f.shadow.in \/ f.canary.in THEN "data_blocked" ELSE @,
                        !.champ = IF @ = "none" THEN @ ELSE "HIBERNATED"]

Admitted(h) == IF FrozenValid(h) THEN h
               ELSE IF h.frozen # "none" THEN [h EXCEPT !.admission = "BLOCKED_TAMPER"]
               ELSE IF h.content \in Legacy THEN [h EXCEPT !.admission = "LEGACY_NONEXACT"] ELSE h

Loaded(d) ==
    LET f == [d EXCEPT !.hyp = Admitted(d.hyp)]
    IN IF f.hyp.admission = "EXACT_CANDIDATE" /\ FrozenValid(f.hyp) THEN f ELSE Revoked(f)

\* The file as it was left, or with another content put in by hand.
Files == {disk} \union
         IF disk.hyp.content # "none"
         THEN {[disk EXCEPT !.hyp.content = c] : c \in Content} ELSE {}

Marked(outcomes, e) == e \in DOMAIN outcomes /\ outcomes[e].recorded

Crash ==
    /\ faults < MaxFaults /\ faults' = faults + 1
    /\ \E d \in Files : disk' = d /\ fw' = Loaded(d)
    /\ found' = kept /\ at' = "idle"
    /\ torn' = torn \union {e \in DOMAIN found : Marked(found, e) /\ ~Marked(kept, e)}
    /\ UNCHANGED <<kept, epoch, spent, passed>>

Next ==
    \/ \E c \in Content : Submit(c)
    \/ Freeze \/ Block
    \/ \E r \in {"pass", "fail"} : Trial(r)
    \/ \E e \in Event : Outcome(e)
    \/ Reconcile \/ Flushed
    \/ \E e \in DOMAIN found : Transfer(e) \/ Feed(e)
    \/ EvaluateChallenger \/ EvaluateShadow \/ EvaluateCanary \/ Decay
    \/ Crash

Spec == Init /\ [][Next]_vars

-----------------------------------------------------------------------------
(* Properties                                                               *)

\* Every variable has its shape.
TypeOK ==
    /\ fw.hyp.content \in Content \union {"none"} /\ fw.hyp.at \in 0..MaxEpoch
    /\ fw.latest \in [Content -> {"none", "pass", "fail"}]
    /\ fw.ch \in {"none", "DISCOVERED", "DATA_BLOCKED"}
    /\ fw.shadow \in Bucket /\ fw.canary \in Bucket /\ fw.perf \subseteq Row
    /\ fw.champ \in {"none", "LIVE", "DECAYING", "HIBERNATED"}
    /\ DOMAIN kept \subseteq Event /\ DOMAIN found \subseteq Event
    /\ at \in {"idle", "freeze", "freeze-block", "block", "flush"}
    /\ passed \subseteq Content /\ torn \subseteq Event
    /\ faults \in 0..MaxFaults /\ epoch \in 0..MaxEpoch

\* A hypothesis stands on one rung: challenger, shadow, canary or champion, in
\* memory and in what a restart would read.
OneRung ==
    \A f \in {fw, disk} :
        Cardinality({x \in {"challenger", "shadow", "canary", "champion"} :
              CASE x = "challenger" -> f.ch # "none" [] x = "shadow" -> f.shadow.in
                [] x = "canary" -> f.canary.in [] OTHER -> f.champ # "none"}) <= 1

\* Live authority was earned by the content that holds it: a passed trial,
\* enough shadow outcomes and enough real canary outcomes, all bound to that
\* content, whatever was submitted, restored or edited in between.
LiveEarned ==
    IsLive(fw) =>
        LET c == fw.hyp.content IN
        /\ c \in Exact /\ c \in passed
        /\ Cardinality(spent[c].shadow) >= MinShadow
        /\ Cardinality(spent[c].canary) >= MinCanary
        /\ \A r \in spent[c].shadow \union spent[c].canary : r.spec = c
        /\ \A r \in spent[c].canary : r.event \notin Paper

\* The docstring of reconcile_forward, "at most once across a restart": an outcome counts towards
\* one promotion of a content, the shadow's or the canary's, through crashes, failed writes and
\* edited files, unless the framework's checkpoint and the service's mark came apart for this very
\* outcome: the write that took it into its bucket raised, or a crash lost the mark.
OutcomeCountsOnce ==
    \A c \in Content : \A r \in spent[c].shadow \intersect spent[c].canary : r.event \in torn
=============================================================================
