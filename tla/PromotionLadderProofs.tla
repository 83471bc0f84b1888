----------------------- MODULE PromotionLadderProofs -----------------------
(***************************************************************************)
(* What PromotionLadder promises for any contents, events and thresholds.  *)
(***************************************************************************)
EXTENDS PromotionLadder, FiniteSetTheorems, TLAPS

Statuses == {"none", "discovered", "data_blocked", "forward_shadow", "canary", "live", "retired"}
Admissions == {"none", "EXACT_CANDIDATE", "BLOCKED", "LEGACY_NONEXACT", "BLOCKED_TAMPER"}

Hypotheses == [content : Content \union {"none"}, frozen : Content \union {"none"}, at : 0..MaxEpoch,
               status : Statuses, admission : Admissions]

Frameworks == [hyp : Hypotheses, latest : [Content -> {"none", "pass", "fail"}],
               ch : {"none", "DISCOVERED", "DATA_BLOCKED"}, shadow : Bucket, canary : Bucket,
               champ : {"none", "LIVE", "DECAYING", "HIBERNATED"}, perf : SUBSET Row]

Notes == [spec : Content, at : 0..MaxEpoch, recorded : BOOLEAN]

LEMMA EmptyBucket == Empty \in Bucket /\ Empty.in = FALSE /\ Empty.rows = {}
  BY DEF Empty, Bucket

LEMMA NoneType == None \in Hypotheses
<1>1. 0 \in 0..MaxEpoch
  BY ConstantsAssumption
<1> QED BY <1>1 DEF None, Hypotheses, Statuses, Admissions

\* The status of a hypothesis decides nothing.
LEMMA StatusOnly ==
    ASSUME NEW h \in Hypotheses, NEW s \in Statuses
    PROVE  /\ [h EXCEPT !.status = s] \in Hypotheses
           /\ [h EXCEPT !.status = s].content = h.content /\ [h EXCEPT !.status = s].frozen = h.frozen
           /\ [h EXCEPT !.status = s].at = h.at /\ [h EXCEPT !.status = s].admission = h.admission
  BY DEF Hypotheses

LEMMA FreshFields ==
    ASSUME NEW f \in Frameworks, NEW c \in Content
    PROVE  /\ Fresh(f, c) \in Frameworks
           /\ Fresh(f, c).ch = "DISCOVERED" /\ Fresh(f, c).shadow = Empty /\ Fresh(f, c).canary = Empty
           /\ Fresh(f, c).champ = "none" /\ Fresh(f, c).hyp.content = c
           /\ Fresh(f, c).latest = f.latest
<1> DEFINE h == [None EXCEPT !.content = c, !.status = "discovered", !.admission = Admission(c)]
<1>1. h \in Hypotheses /\ h.content = c
  <2>1. Admission(c) \in Admissions
    BY DEF Admission, Admissions
  <2>2. "discovered" \in Statuses
    BY DEF Statuses
  <2> QED BY <2>1, <2>2, NoneType DEF Hypotheses
<1> HIDE DEF h
<1>2. Fresh(f, c) = [f EXCEPT !.hyp = h, !.ch = "DISCOVERED", !.shadow = Empty, !.canary = Empty,
                              !.champ = "none", !.perf = {}]
  BY DEF Fresh, h
<1> QED BY <1>1, <1>2, EmptyBucket DEF Frameworks

LEMMA BlockedFields ==
    ASSUME NEW f \in Frameworks
    PROVE  /\ Blocked(f) \in Frameworks
           /\ Blocked(f).ch = "DATA_BLOCKED" /\ Blocked(f).shadow = Empty /\ Blocked(f).canary = Empty
           /\ Blocked(f).champ = (IF f.champ = "none" THEN "none" ELSE "HIBERNATED")
           /\ Blocked(f).hyp.frozen = f.hyp.frozen /\ Blocked(f).hyp.content = f.hyp.content
           /\ Blocked(f).latest = f.latest
<1> DEFINE h == [f.hyp EXCEPT !.status = "data_blocked"]
           champ == IF f.champ = "none" THEN "none" ELSE "HIBERNATED"
<1>1. f.hyp \in Hypotheses
  BY DEF Frameworks
<1>2. h \in Hypotheses /\ h.frozen = f.hyp.frozen /\ h.content = f.hyp.content
  BY <1>1, StatusOnly, "data_blocked" \in Statuses DEF Statuses
<1>3. Blocked(f) = [f EXCEPT !.champ = champ, !.shadow = Empty, !.canary = Empty, !.ch = "DATA_BLOCKED", !.hyp = h]
  BY DEF Blocked, Frameworks
<1> HIDE DEF h
<1> QED BY <1>2, <1>3, EmptyBucket DEF Frameworks

-----------------------------------------------------------------------------
(***************************************************************************)
(* What is true of the framework, in memory and in the checkpoint file     *)
(* alike; s is what promotions rested on so far.                           *)
(***************************************************************************)

\* One rung at a time.
Single(f) ==
    /\ f.ch # "none" => ~f.shadow.in /\ ~f.canary.in /\ f.champ = "none"
    /\ f.shadow.in => ~f.canary.in /\ f.champ = "none"
    /\ f.canary.in => f.champ = "none"

\* Evidence belongs to the frozen content.
Bound(f) ==
    /\ IsFiniteSet(f.shadow.rows) /\ IsFiniteSet(f.canary.rows)
    /\ \A r \in f.shadow.rows \union f.canary.rows : r.spec = f.hyp.frozen

ShadowSpent(c, s) == c \in Content /\ Cardinality(s[c].shadow) >= MinShadow
CanarySpent(c, s) == c \in Content /\ Cardinality(s[c].canary) >= MinCanary

\* A rung was reached with the evidence of the frozen content, whatever content stands in the
\* file now.
Earned(f, s) ==
    /\ f.canary.in \/ f.champ # "none" => ShadowSpent(f.hyp.frozen, s)
    /\ f.champ # "none" => CanarySpent(f.hyp.frozen, s)

Fit(f, s) == f \in Frameworks /\ Single(f) /\ Bound(f) /\ Earned(f, s)

\* What promotions rested on: outcomes of that content, real ones for the canary.
Ledger(s) ==
    /\ s \in [Content -> [shadow : SUBSET Row, canary : SUBSET Row]]
    /\ \A c \in Content :
          /\ IsFiniteSet(s[c].shadow) /\ IsFiniteSet(s[c].canary)
          /\ \A r \in s[c].shadow \union s[c].canary : r.spec = c
          /\ \A r \in s[c].canary : r.event \notin Paper

\* A framework on the same rung with the same evidence is as fit.
LEMMA FitLike ==
    ASSUME NEW f, NEW s, Fit(f, s), NEW g \in Frameworks,
           g.hyp.frozen = f.hyp.frozen, g.ch = f.ch, g.shadow = f.shadow, g.canary = f.canary,
           g.champ = "none" <=> f.champ = "none"
    PROVE  Fit(g, s)
  BY DEF Fit, Single, Bound, Earned

\* More evidence spent takes nothing away.
LEMMA FitGrows ==
    ASSUME NEW f, NEW s, Fit(f, s), NEW t, Ledger(s), Ledger(t),
           \A c \in Content : s[c].shadow \subseteq t[c].shadow /\ s[c].canary \subseteq t[c].canary
    PROVE  Fit(f, t)
<1>1. ASSUME NEW c \in Content
      PROVE  /\ Cardinality(s[c].shadow) <= Cardinality(t[c].shadow)
             /\ Cardinality(s[c].canary) <= Cardinality(t[c].canary)
             /\ Cardinality(s[c].shadow) \in Nat /\ Cardinality(t[c].shadow) \in Nat
             /\ Cardinality(s[c].canary) \in Nat /\ Cardinality(t[c].canary) \in Nat
  BY FS_Subset, FS_CardinalityType DEF Ledger
<1>2. MinShadow \in Nat /\ MinCanary \in Nat
  BY ConstantsAssumption
<1>3. ASSUME NEW c, ShadowSpent(c, s) PROVE ShadowSpent(c, t)
  BY <1>1, <1>2, <1>3 DEF ShadowSpent
<1>4. ASSUME NEW c, CanarySpent(c, s) PROVE CanarySpent(c, t)
  BY <1>1, <1>2, <1>4 DEF CanarySpent
<1> QED BY <1>3, <1>4 DEF Fit, Earned

\* submit_hypothesis
LEMMA FitFresh ==
    ASSUME NEW f \in Frameworks, NEW s, NEW c \in Content PROVE Fit(Fresh(f, c), s)
<1>1. IsFiniteSet({})
  BY FS_EmptySet
<1> QED BY <1>1, FreshFields, EmptyBucket DEF Fit, Single, Bound, Earned

\* mark_data_blocked of what is not a champion
LEMMA FitBlocked ==
    ASSUME NEW f \in Frameworks, NEW s, f.champ = "none" PROVE Fit(Blocked(f), s)
<1>1. IsFiniteSet({})
  BY FS_EmptySet
<1> QED BY <1>1, BlockedFields, EmptyBucket DEF Fit, Single, Bound, Earned

\* freeze_hypothesis of what has no evidence yet
LEMMA FitFrozen ==
    ASSUME NEW f, NEW s, Fit(f, s), NEW h \in Hypotheses, f.shadow = Empty, f.canary = Empty, f.champ = "none",
           NEW g, g = [f EXCEPT !.hyp = h]
    PROVE  Fit(g, s) /\ g.shadow = Empty /\ g.canary = Empty /\ g.champ = "none"
<1>1. f \in Frameworks
  BY DEF Fit
<1>2. /\ g \in Frameworks /\ g.ch = f.ch /\ g.shadow = Empty /\ g.canary = Empty
      /\ g.champ = "none"
  BY <1>1 DEF Frameworks
<1>3. Fit(g, s)
  BY <1>2, FS_EmptySet, EmptyBucket DEF Fit, Single, Bound, Earned
<1> QED BY <1>2, <1>3

\* A row joins its bucket.
LEMMA FitShadowRow ==
    ASSUME NEW f, NEW s, Fit(f, s), NEW r \in Row, r.spec = f.hyp.frozen
    PROVE  Fit([f EXCEPT !.shadow.rows = @ \union {r}], s)
<1> DEFINE b == [f.shadow EXCEPT !.rows = @ \union {r}]
           g == [f EXCEPT !.shadow.rows = @ \union {r}]
<1>1. f \in Frameworks /\ f.shadow \in Bucket
  BY DEF Fit, Frameworks
<1>2. b \in Bucket /\ b.in = f.shadow.in /\ b.rows = f.shadow.rows \union {r}
  BY <1>1 DEF Bucket
<1>3. g = [f EXCEPT !.shadow = b]
  BY <1>1 DEF Frameworks, Bucket
<1> HIDE DEF b
<1>4. /\ g \in Frameworks /\ g.hyp = f.hyp /\ g.ch = f.ch /\ g.shadow = b /\ g.canary = f.canary
      /\ g.champ = f.champ
  BY <1>1, <1>2, <1>3 DEF Frameworks
<1> HIDE DEF g
<1>5. IsFiniteSet(f.shadow.rows \union {r})
  BY FS_AddElement DEF Fit, Bound
<1>6. Single(g) /\ Earned(g, s)
  BY <1>2, <1>4 DEF Fit, Single, Earned
<1>7. Bound(g)
  BY <1>2, <1>4, <1>5 DEF Fit, Bound
<1>8. Fit(g, s)
  BY <1>4, <1>6, <1>7 DEF Fit
<1> QED BY <1>8 DEF g

LEMMA FitCanaryRow ==
    ASSUME NEW f, NEW s, Fit(f, s), NEW r \in Row, r.spec = f.hyp.frozen
    PROVE  Fit([f EXCEPT !.canary.rows = @ \union {r}], s)
<1> DEFINE b == [f.canary EXCEPT !.rows = @ \union {r}]
           g == [f EXCEPT !.canary.rows = @ \union {r}]
<1>1. f \in Frameworks /\ f.canary \in Bucket
  BY DEF Fit, Frameworks
<1>2. b \in Bucket /\ b.in = f.canary.in /\ b.rows = f.canary.rows \union {r}
  BY <1>1 DEF Bucket
<1>3. g = [f EXCEPT !.canary = b]
  BY <1>1 DEF Frameworks, Bucket
<1> HIDE DEF b
<1>4. /\ g \in Frameworks /\ g.hyp = f.hyp /\ g.ch = f.ch /\ g.shadow = f.shadow /\ g.canary = b
      /\ g.champ = f.champ
  BY <1>1, <1>2, <1>3 DEF Frameworks
<1> HIDE DEF g
<1>5. IsFiniteSet(f.canary.rows \union {r})
  BY FS_AddElement DEF Fit, Bound
<1>6. Single(g) /\ Earned(g, s)
  BY <1>2, <1>4 DEF Fit, Single, Earned
<1>7. Bound(g)
  BY <1>2, <1>4, <1>5 DEF Fit, Bound
<1>8. Fit(g, s)
  BY <1>4, <1>6, <1>7 DEF Fit
<1> QED BY <1>8 DEF g

\* _evaluation_loop: the next rung.
LEMMA FitToShadow ==
    ASSUME NEW f, NEW s, Fit(f, s), f.ch # "none"
    PROVE  Fit(ToShadow(f), s)
<1> DEFINE h == [f.hyp EXCEPT !.status = "forward_shadow"]
           b == [in |-> TRUE, rows |-> {}]
           g == ToShadow(f)
<1>1. f \in Frameworks /\ f.hyp \in Hypotheses /\ f.canary \in Bucket
  BY DEF Fit, Frameworks
<1>2. h \in Hypotheses /\ h.frozen = f.hyp.frozen
  BY <1>1, StatusOnly, "forward_shadow" \in Statuses DEF Statuses
<1>3. b \in Bucket /\ b.rows = {}
  BY DEF Bucket
<1>4. g = [f EXCEPT !.shadow = b, !.ch = "none", !.hyp = h]
  BY <1>1 DEF ToShadow, Frameworks
<1> HIDE DEF h, b
<1>5. g \in Frameworks /\ g.hyp = h /\ g.ch = "none" /\ g.shadow = b /\ g.canary = f.canary /\ g.champ = f.champ
  BY <1>1, <1>2, <1>3, <1>4 DEF Frameworks
<1> HIDE DEF g
<1>6. ~f.shadow.in /\ ~f.canary.in /\ f.champ = "none"
  BY DEF Fit, Single
<1>7. Bound(g)
  BY <1>2, <1>3, <1>5, FS_EmptySet DEF Fit, Bound
<1>8. Single(g) /\ Earned(g, s)
  BY <1>1, <1>5, <1>6 DEF Single, Earned
<1>9. Fit(g, s)
  BY <1>5, <1>7, <1>8 DEF Fit
<1> QED BY <1>9 DEF g

LEMMA FitToCanary ==
    ASSUME NEW f, NEW s, Fit(f, s), f.shadow.in, ShadowSpent(f.hyp.frozen, s)
    PROVE  Fit([f EXCEPT !.canary = [in |-> TRUE, rows |-> {}], !.shadow = Empty, !.hyp.status = "canary"], s)
<1> DEFINE h == [f.hyp EXCEPT !.status = "canary"]
           b == [in |-> TRUE, rows |-> {}]
           g == [f EXCEPT !.canary = [in |-> TRUE, rows |-> {}], !.shadow = Empty, !.hyp.status = "canary"]
<1>1. f \in Frameworks /\ f.hyp \in Hypotheses
  BY DEF Fit, Frameworks
<1>2. h \in Hypotheses /\ h.frozen = f.hyp.frozen
  BY <1>1, StatusOnly, "canary" \in Statuses DEF Statuses
<1>3. b \in Bucket /\ b.rows = {}
  BY DEF Bucket
<1>4. g = [f EXCEPT !.canary = b, !.shadow = Empty, !.hyp = h]
  BY <1>1 DEF Frameworks
<1> HIDE DEF h, b
<1>5. g \in Frameworks /\ g.hyp = h /\ g.ch = f.ch /\ g.shadow = Empty /\ g.canary = b /\ g.champ = f.champ
  BY <1>1, <1>2, <1>3, <1>4, EmptyBucket DEF Frameworks
<1> HIDE DEF g
<1>6. f.ch = "none" /\ f.champ = "none"
  BY DEF Fit, Single
<1>7. Bound(g)
  BY <1>3, <1>5, FS_EmptySet, EmptyBucket DEF Bound
<1>8. Single(g) /\ Earned(g, s)
  BY <1>2, <1>5, <1>6, EmptyBucket DEF Single, Earned
<1>9. Fit(g, s)
  BY <1>5, <1>7, <1>8 DEF Fit
<1> QED BY <1>9 DEF g

LEMMA FitToLive ==
    ASSUME NEW f, NEW s, Fit(f, s), f.canary.in, CanarySpent(f.hyp.frozen, s)
    PROVE  Fit([f EXCEPT !.champ = "LIVE", !.perf = {}, !.canary = Empty, !.hyp.status = "live"], s)
<1> DEFINE h == [f.hyp EXCEPT !.status = "live"]
           g == [f EXCEPT !.champ = "LIVE", !.perf = {}, !.canary = Empty, !.hyp.status = "live"]
<1>1. f \in Frameworks /\ f.hyp \in Hypotheses
  BY DEF Fit, Frameworks
<1>2. h \in Hypotheses /\ h.frozen = f.hyp.frozen
  BY <1>1, StatusOnly, "live" \in Statuses DEF Statuses
<1>3. g = [f EXCEPT !.champ = "LIVE", !.perf = {}, !.canary = Empty, !.hyp = h]
  BY <1>1 DEF Frameworks
<1> HIDE DEF h
<1>4. g \in Frameworks /\ g.hyp = h /\ g.ch = f.ch /\ g.shadow = f.shadow /\ g.canary = Empty /\ g.champ = "LIVE"
  BY <1>1, <1>2, <1>3, EmptyBucket DEF Frameworks
<1> HIDE DEF g
<1>5. f.ch = "none" /\ ~f.shadow.in /\ ShadowSpent(f.hyp.frozen, s)
  BY DEF Fit, Single, Earned
<1>6. Bound(g)
  BY <1>2, <1>4, FS_EmptySet, EmptyBucket DEF Fit, Bound
<1>7. Single(g) /\ Earned(g, s)
  BY <1>2, <1>4, <1>5, EmptyBucket DEF Single, Earned
<1>8. Fit(g, s)
  BY <1>4, <1>6, <1>7 DEF Fit
<1> QED BY <1>8 DEF g

\* _retire_hypothesis, with and without its caller's drop of the bucket.
LEMMA FitRetired ==
    ASSUME NEW f, NEW s, Fit(f, s)
    PROVE  Fit([f EXCEPT !.hyp.status = "retired"], s)
<1> DEFINE h == [f.hyp EXCEPT !.status = "retired"]
           g == [f EXCEPT !.hyp.status = "retired"]
<1>1. f \in Frameworks /\ f.hyp \in Hypotheses
  BY DEF Fit, Frameworks
<1>2. h \in Hypotheses /\ h.frozen = f.hyp.frozen
  BY <1>1, StatusOnly, "retired" \in Statuses DEF Statuses
<1>3. g = [f EXCEPT !.hyp = h]
  BY <1>1 DEF Frameworks
<1> HIDE DEF h
<1>4. g \in Frameworks /\ g.hyp = h /\ g.ch = f.ch /\ g.shadow = f.shadow /\ g.canary = f.canary /\ g.champ = f.champ
  BY <1>1, <1>2, <1>3 DEF Frameworks
<1> HIDE DEF g
<1>5. Fit(g, s)
  BY <1>2, <1>4, FitLike
<1> QED BY <1>5 DEF g

LEMMA FitWithout ==
    ASSUME NEW f, NEW s, Fit(f, s)
    PROVE  Fit([f EXCEPT !.shadow = Empty], s) /\ Fit([f EXCEPT !.canary = Empty], s)
<1>1. f \in Frameworks
  BY DEF Fit
<1>2. ASSUME NEW g \in Frameworks, g.hyp = f.hyp, g.ch = f.ch, g.champ = f.champ,
             (g.shadow = Empty /\ g.canary = f.canary) \/ (g.shadow = f.shadow /\ g.canary = Empty)
      PROVE  Fit(g, s)
  <2>1. Bound(g)
    BY <1>2, FS_EmptySet, EmptyBucket DEF Fit, Bound
  <2>2. Single(g) /\ Earned(g, s)
    BY <1>2, EmptyBucket DEF Fit, Single, Earned
  <2> QED BY <2>1, <2>2 DEF Fit
<1>3. /\ [f EXCEPT !.shadow = Empty] \in Frameworks /\ [f EXCEPT !.canary = Empty] \in Frameworks
      /\ [f EXCEPT !.shadow = Empty].shadow = Empty /\ [f EXCEPT !.canary = Empty].canary = Empty
      /\ [f EXCEPT !.shadow = Empty].canary = f.canary /\ [f EXCEPT !.canary = Empty].shadow = f.shadow
      /\ [f EXCEPT !.shadow = Empty].hyp = f.hyp /\ [f EXCEPT !.canary = Empty].hyp = f.hyp
      /\ [f EXCEPT !.shadow = Empty].ch = f.ch /\ [f EXCEPT !.canary = Empty].ch = f.ch
      /\ [f EXCEPT !.shadow = Empty].champ = f.champ /\ [f EXCEPT !.canary = Empty].champ = f.champ
  BY <1>1, EmptyBucket DEF Frameworks
<1> QED BY <1>2, <1>3

-----------------------------------------------------------------------------
(***************************************************************************)
(* _load_state                                                             *)
(***************************************************************************)

LEMMA AdmittedFields ==
    ASSUME NEW h \in Hypotheses
    PROVE  Admitted(h) \in Hypotheses /\ Admitted(h).frozen = h.frozen
<1>1. ASSUME NEW x \in Admissions
      PROVE  [h EXCEPT !.admission = x] \in Hypotheses /\ [h EXCEPT !.admission = x].frozen = h.frozen
  BY DEF Hypotheses
<1>2. "BLOCKED_TAMPER" \in Admissions /\ "LEGACY_NONEXACT" \in Admissions
  BY DEF Admissions
<1> QED BY <1>1, <1>2 DEF Admitted

LEMMA FitRevoked ==
    ASSUME NEW f, NEW s, Fit(f, s) PROVE Fit(Revoked(f), s)
<1> DEFINE out == f.shadow.in \/ f.canary.in
           h == IF out THEN [f.hyp EXCEPT !.status = "data_blocked"] ELSE f.hyp
           ch == IF out THEN "DATA_BLOCKED" ELSE f.ch
           champ == IF f.champ = "none" THEN "none" ELSE "HIBERNATED"
           g == Revoked(f)
<1>1. f \in Frameworks /\ f.hyp \in Hypotheses /\ f.shadow \in Bucket /\ f.canary \in Bucket
  BY DEF Fit, Frameworks
<1>2. h \in Hypotheses /\ h.frozen = f.hyp.frozen
  BY <1>1, StatusOnly, "data_blocked" \in Statuses DEF Statuses
<1>3. ch \in {"none", "DISCOVERED", "DATA_BLOCKED"} /\ champ \in {"none", "LIVE", "DECAYING", "HIBERNATED"}
  BY <1>1 DEF Frameworks
<1>4. g = [f EXCEPT !.shadow = Empty, !.canary = Empty, !.ch = ch, !.hyp = h, !.champ = champ]
  BY <1>1 DEF Revoked, Frameworks, Hypotheses
<1>5. Single(f) /\ (out => f.champ = "none")
  BY DEF Fit, Single
<1>6. (ch # "none" => champ = "none") /\ (champ # "none" => f.champ # "none")
  BY <1>5 DEF Single
<1> HIDE DEF h, ch, champ
<1>7. g \in Frameworks /\ g.hyp = h /\ g.ch = ch /\ g.shadow = Empty /\ g.canary = Empty /\ g.champ = champ
  BY <1>1, <1>2, <1>3, <1>4, EmptyBucket DEF Frameworks
<1> HIDE DEF g
<1>8. Bound(g)
  BY <1>7, FS_EmptySet, EmptyBucket DEF Bound
<1>9. Single(g)
  BY <1>6, <1>7, EmptyBucket DEF Single
<1>10. Earned(g, s)
  BY <1>2, <1>6, <1>7, EmptyBucket DEF Fit, Earned
<1>11. Fit(g, s)
  BY <1>7, <1>8, <1>9, <1>10 DEF Fit
<1> QED BY <1>11 DEF g

LEMMA FitLoaded ==
    ASSUME NEW d, NEW s, Fit(d, s) PROVE Fit(Loaded(d), s)
<1> DEFINE f == [d EXCEPT !.hyp = Admitted(d.hyp)]
<1>1. d \in Frameworks /\ d.hyp \in Hypotheses
  BY DEF Fit, Frameworks
<1>2. Admitted(d.hyp) \in Hypotheses /\ Admitted(d.hyp).frozen = d.hyp.frozen
  BY <1>1, AdmittedFields
<1>3. /\ f \in Frameworks /\ f.hyp = Admitted(d.hyp) /\ f.ch = d.ch /\ f.shadow = d.shadow
      /\ f.canary = d.canary /\ f.champ = d.champ
  BY <1>1, <1>2 DEF Frameworks
<1>4. Loaded(d) = f \/ Loaded(d) = Revoked(f)
  BY DEF Loaded
<1> HIDE DEF f
<1>5. Fit(f, s)
  BY <1>2, <1>3, FitLike
<1> QED BY <1>4, <1>5, FitRevoked

\* The file edited by hand: another content under the same frozen hash.
LEMMA FitEdited ==
    ASSUME NEW d, NEW s, Fit(d, s), NEW c \in Content PROVE Fit([d EXCEPT !.hyp.content = c], s)
<1> DEFINE h == [d.hyp EXCEPT !.content = c]
           g == [d EXCEPT !.hyp.content = c]
<1>1. d \in Frameworks /\ d.hyp \in Hypotheses
  BY DEF Fit, Frameworks
<1>2. h \in Hypotheses /\ h.frozen = d.hyp.frozen
  BY <1>1 DEF Hypotheses
<1>3. g = [d EXCEPT !.hyp = h]
  BY <1>1 DEF Frameworks
<1> HIDE DEF h
<1>4. g \in Frameworks /\ g.hyp = h /\ g.ch = d.ch /\ g.shadow = d.shadow /\ g.canary = d.canary /\ g.champ = d.champ
  BY <1>1, <1>2, <1>3 DEF Frameworks
<1> HIDE DEF g
<1>5. Fit(g, s)
  BY <1>2, <1>4, FitLike
<1> QED BY <1>5 DEF g

-----------------------------------------------------------------------------
(***************************************************************************)
(* The invariant.                                                          *)
(***************************************************************************)

Outcomes == UNION {[D -> Notes] : D \in SUBSET Event}

Shapes ==
    /\ at \in {"idle", "freeze", "freeze-block", "block", "flush"}
    /\ faults \in 0..MaxFaults /\ epoch \in 0..MaxEpoch
    /\ found \in Outcomes /\ kept \in Outcomes
    /\ passed \subseteq Content /\ torn \subseteq Event

\* A caller that is about to freeze or block has just submitted a fresh content.
Calling ==
    /\ at \in {"freeze", "freeze-block", "block"} => fw.shadow = Empty /\ fw.canary = Empty /\ fw.champ = "none"
    /\ at \in {"freeze", "freeze-block"} /\ fw.hyp.content \in Exact => epoch < MaxEpoch

Ladder == Shapes /\ Calling /\ Ledger(spent) /\ Fit(fw, spent) /\ Fit(disk, spent)

LEMMA ExactlyFrozen ==
    ASSUME NEW h \in Hypotheses, ExactFrozen(h)
    PROVE  h.content \in Exact /\ h.frozen = h.content /\ h.frozen \in Content
  BY DEF ExactFrozen, FrozenValid, Hypotheses, Content

LEMMA LadderInit == Init => Ladder
<1> SUFFICES ASSUME Init PROVE Ladder
  OBVIOUS
<1> USE ConstantsAssumption
<1>1. found \in Outcomes /\ kept \in Outcomes
  <2>1. << >> \in [{} -> Notes]
    OBVIOUS
  <2> QED BY <2>1 DEF Init, Outcomes
<1>2. Shapes
  BY <1>1 DEF Init, Shapes
<1>3. Calling
  BY DEF Init, Calling
<1>4. Ledger(spent)
  <2>1. \A c \in Content : spent[c].shadow = {} /\ spent[c].canary = {}
    BY DEF Init
  <2>2. spent \in [Content -> [shadow : SUBSET Row, canary : SUBSET Row]]
    BY DEF Init
  <2> QED BY <2>1, <2>2, FS_EmptySet DEF Ledger
<1>5. Fit(fw, spent)
  <2>1. fw \in Frameworks
    BY NoneType, EmptyBucket DEF Init, Frameworks
  <2>2. fw.ch = "none" /\ fw.shadow = Empty /\ fw.canary = Empty /\ fw.champ = "none"
    BY DEF Init
  <2> QED BY <2>1, <2>2, EmptyBucket, FS_EmptySet DEF Fit, Single, Bound, Earned
<1>6. Fit(disk, spent)
  BY <1>5 DEF Init
<1> QED BY <1>2, <1>3, <1>4, <1>5, <1>6 DEF Ladder

LEMMA LadderStep == Ladder /\ [Next]_vars => Ladder'
<1> SUFFICES ASSUME Ladder, [Next]_vars PROVE Ladder'
  OBVIOUS
<1>a. /\ Fit(fw, spent) /\ Fit(disk, spent) /\ Ledger(spent) /\ fw \in Frameworks /\ fw.hyp \in Hypotheses
      /\ MaxFaults \in Nat /\ MaxEpoch \in Nat /\ passed \subseteq Content /\ torn \subseteq Event
  BY ConstantsAssumption DEF Ladder, Fit, Frameworks, Shapes
<1>s. ASSUME NEW next, Save(next)
      PROVE  (disk' = fw' \/ disk' = disk) /\ at' \in {next, "idle"} /\ faults' \in 0..MaxFaults
  <2>1. CASE Saved(next)
    BY <2>1 DEF Saved, Ladder, Shapes
  <2>2. CASE Raised
    BY <1>a, <2>2 DEF Raised, Ladder, Shapes
  <2> QED BY <1>s, <2>1, <2>2 DEF Save
<1>w. ASSUME NEW next, Keep(next) \/ KeepRaised, found' \in Outcomes
      PROVE  at' \in {next, "idle"} /\ kept' \in Outcomes /\ faults' \in 0..MaxFaults
  <2>1. CASE Keep(next)
    BY <1>w, <2>1 DEF Keep, Ladder, Shapes
  <2>2. CASE KeepRaised
    BY <1>a, <2>2 DEF KeepRaised, Ladder, Shapes
  <2> QED BY <1>w, <2>1, <2>2
\* A call that leaves the framework fit and the caller idle.
<1>k. ASSUME Fit(fw', spent), Save("idle"), UNCHANGED <<found, kept, epoch, spent, torn>>,
             passed' \subseteq Content
      PROVE  Ladder'
  <2>1. Fit(disk', spent)
    BY <1>a, <1>k, <1>s
  <2>2. at' = "idle" /\ faults' \in 0..MaxFaults
    BY <1>k, <1>s
  <2>3. Shapes' /\ Calling'
    BY <1>k, <2>2 DEF Ladder, Shapes, Calling
  <2> QED BY <1>a, <1>k, <2>1, <2>3 DEF Ladder
<1>0. CASE UNCHANGED vars
  BY <1>0 DEF vars, history, Ladder, Shapes, Calling
<1>1. ASSUME NEW c \in Content, Submit(c) PROVE Ladder'
  <2>1. fw' = Fresh(fw, c) /\ UNCHANGED <<found, kept, epoch, spent, passed, torn>> /\ (c \in Exact => epoch < MaxEpoch)
    BY <1>1 DEF Submit, history
  <2>2. PICK next \in {"block", "freeze-block", "freeze"} : Save(next)
    BY <1>1 DEF Submit
  <2>3. at' \in {next, "idle"} /\ faults' \in 0..MaxFaults /\ (disk' = fw' \/ disk' = disk)
    BY <2>2, <1>s
  <2>4. Fit(fw', spent)
    BY <1>a, <2>1, FitFresh
  <2>5. fw'.shadow = Empty /\ fw'.canary = Empty /\ fw'.champ = "none" /\ fw'.hyp.content = c
    BY <1>a, <2>1, FreshFields
  <2>6. Calling'
    BY <2>1, <2>5 DEF Calling
  <2>7. Shapes'
    BY <2>1, <2>3 DEF Ladder, Shapes
  <2> QED BY <1>a, <2>1, <2>3, <2>4, <2>6, <2>7 DEF Ladder
<1>2. CASE Freeze
  <2>1. fw.shadow = Empty /\ fw.canary = Empty /\ fw.champ = "none" /\ UNCHANGED <<found, kept, spent, passed, torn>>
    BY <1>2 DEF Freeze, history, Ladder, Calling
  <2>2. CASE fw.hyp.content \in Invalid /\ fw' = Blocked(fw) /\ Save("idle") /\ UNCHANGED epoch
    BY <1>a, <1>k, <2>1, <2>2, FitBlocked DEF history
  <2>3. CASE /\ fw.hyp.content \in Exact /\ epoch' = epoch + 1
             /\ fw' = [fw EXCEPT !.hyp.frozen = fw.hyp.content, !.hyp.at = epoch']
             /\ Save(IF at = "freeze" THEN "idle" ELSE "block")
    <3>1. epoch' \in 0..MaxEpoch /\ fw.hyp.content \in Content
      BY <1>2, <1>a, <2>3 DEF Freeze, Ladder, Shapes, Calling, Content
    <3>2. Fit(fw', spent) /\ fw'.shadow = Empty /\ fw'.canary = Empty /\ fw'.champ = "none"
      <4>1. PICK c \in Content, n \in 0..MaxEpoch : fw' = [fw EXCEPT !.hyp.frozen = c, !.hyp.at = n]
        BY <2>3, <3>1
      <4> DEFINE h == [fw.hyp EXCEPT !.frozen = c, !.at = n]
      <4>2. fw' = [fw EXCEPT !.hyp = h]
        BY <1>a, <4>1 DEF Frameworks, Hypotheses
      <4>3. h \in Hypotheses
        BY <1>a DEF Hypotheses
      <4> HIDE DEF h
      <4> QED BY <1>a, <2>1, <4>2, <4>3, FitFrozen
    <3>3. at' \in {"idle", "block"} /\ faults' \in 0..MaxFaults /\ (disk' = fw' \/ disk' = disk)
      BY <1>s, <2>3
    <3>4. Calling'
      BY <3>2, <3>3 DEF Calling
    <3>5. Shapes'
      BY <2>1, <3>1, <3>3 DEF Ladder, Shapes
    <3> QED BY <1>a, <2>1, <3>2, <3>3, <3>4, <3>5 DEF Ladder
  <2> QED BY <1>2, <2>2, <2>3 DEF Freeze
<1>3. CASE Block
  <2>1. fw.champ = "none"
    BY <1>3 DEF Block, Ladder, Calling
  <2>2. Fit(Blocked(fw), spent)
    BY <1>a, <2>1, FitBlocked
  <2> QED BY <1>3, <1>a, <1>k, <2>2 DEF Block, history
<1>4. ASSUME NEW r \in {"pass", "fail"}, Trial(r) PROVE Ladder'
  <2> DEFINE latest == [fw.latest EXCEPT ![fw.hyp.frozen] = r]
  <2>1. fw.hyp.frozen \in Content
    BY <1>4, <1>a, ExactlyFrozen DEF Trial
  <2>2. latest \in [Content -> {"none", "pass", "fail"}]
    BY <1>a DEF Frameworks
  <2>3. fw' = [fw EXCEPT !.latest = latest]
    BY <1>4, <1>a DEF Trial, Frameworks
  <2> HIDE DEF latest
  <2>4. /\ fw' \in Frameworks /\ fw'.hyp = fw.hyp /\ fw'.ch = fw.ch /\ fw'.shadow = fw.shadow
        /\ fw'.canary = fw.canary /\ fw'.champ = fw.champ
    BY <1>a, <2>2, <2>3 DEF Frameworks
  <2>5. Fit(fw', spent)
    BY <1>a, <2>4, FitLike
  <2>6. passed' \subseteq Content
    BY <1>4, <1>a, <2>1 DEF Trial
  <2> QED BY <1>4, <1>k, <2>5, <2>6 DEF Trial
<1>5. ASSUME NEW e \in Event, Outcome(e) PROVE Ladder'
  <2> DEFINE note == [spec |-> fw.hyp.frozen, at |-> epoch, recorded |-> FALSE]
  <2>1. fw.hyp.frozen \in Content
    BY <1>5, <1>a, ExactlyFrozen DEF Outcome
  <2>2. note \in Notes
    BY <2>1 DEF Notes, Ladder, Shapes
  <2>3. found' = [x \in DOMAIN found \union {e} |-> IF x = e THEN note ELSE found[x]]
    BY <1>5 DEF Outcome
  <2> HIDE DEF note
  <2>4. PICK D \in SUBSET Event : found \in [D -> Notes]
    BY DEF Ladder, Shapes, Outcomes
  <2>5. found' \in [D \union {e} -> Notes]
    BY <2>2, <2>3, <2>4
  <2>6. found' \in Outcomes
    BY <2>5 DEF Outcomes
  <2>7. UNCHANGED <<fw, disk, epoch, spent, passed, torn>> /\ (Keep("flush") \/ KeepRaised)
    BY <1>5 DEF Outcome, history
  <2>8. at' \in {"flush", "idle"} /\ kept' \in Outcomes /\ faults' \in 0..MaxFaults
    BY <1>w, <2>6, <2>7
  <2>9. Shapes' /\ Calling'
    BY <2>6, <2>7, <2>8 DEF Ladder, Shapes, Calling
  <2> QED BY <1>a, <2>7, <2>9 DEF Ladder
<1>6. CASE Reconcile \/ Flushed
  <2>1. /\ UNCHANGED <<fw, disk, found, epoch, spent, passed, torn>> /\ at' \in {"flush", "idle"}
        /\ kept' \in Outcomes /\ faults' \in 0..MaxFaults
    <3>1. found' = found /\ found \in Outcomes
      BY <1>6 DEF Reconcile, Flushed, Ladder, Shapes
    <3>2. CASE Reconcile
      BY <3>2 DEF Reconcile, history, Ladder, Shapes
    <3>3. CASE Flushed
      BY <1>w, <3>1, <3>3 DEF Flushed, history
    <3> QED BY <1>6, <3>2, <3>3
  <2>2. Shapes' /\ Calling'
    BY <2>1 DEF Ladder, Shapes, Calling
  <2> QED BY <1>a, <2>1, <2>2 DEF Ladder
<1>7. ASSUME NEW e \in DOMAIN found, Transfer(e) PROVE Ladder'
  <2> DEFINE row == [event |-> e, spec |-> found[e].spec]
  <2>1. PICK D \in SUBSET Event : found \in [D -> Notes]
    BY DEF Ladder, Shapes, Outcomes
  <2>2. row \in Row /\ row.spec = fw.hyp.frozen
    BY <1>7, <2>1 DEF Transfer, Movable, Row, Notes
  <2>3. found' = found \/ Mark(e)
    BY <1>7 DEF Transfer
  <2>4. found' \in Outcomes
    <3>1. CASE Mark(e)
      <4>1. [found[e] EXCEPT !.recorded = TRUE] \in Notes
        BY <2>1 DEF Notes
      <4>2. found' = [found EXCEPT ![e] = [found[e] EXCEPT !.recorded = TRUE]]
        BY <3>1 DEF Mark
      <4>3. found' \in [D -> Notes]
        BY <2>1, <4>1, <4>2
      <4> QED BY <4>3 DEF Outcomes
    <3> QED BY <2>3, <3>1 DEF Ladder, Shapes
  <2>5. \/ UNCHANGED <<fw, disk, at, faults>>
        \/ /\ fw' = [fw EXCEPT !.shadow.rows = @ \union {row}] \/ fw' = [fw EXCEPT !.canary.rows = @ \union {row}]
           /\ Save("flush")
    BY <1>7 DEF Transfer, Save
  <2>6. /\ at = "flush" /\ UNCHANGED <<kept, epoch, spent, passed>> /\ e \in Event
        /\ torn' = torn \/ torn' = torn \union {e}
    BY <1>7, <2>1 DEF Transfer
  <2> HIDE DEF row
  <2>7. Fit(fw', spent)
    BY <1>a, <2>2, <2>5, FitShadowRow, FitCanaryRow
  <2>8. Fit(disk', spent) /\ at' \in {"flush", "idle"} /\ faults' \in 0..MaxFaults
    BY <1>a, <1>s, <2>5, <2>6, <2>7 DEF Ladder, Shapes
  <2>9. torn' \subseteq Event
    BY <1>a, <2>6
  <2>10. Shapes' /\ Calling'
    BY <2>4, <2>6, <2>8, <2>9 DEF Ladder, Shapes, Calling
  <2> QED BY <1>a, <2>6, <2>7, <2>8, <2>10 DEF Ladder
<1>8. ASSUME NEW e \in DOMAIN found, Feed(e) PROVE Ladder'
  <2> DEFINE perf == fw.perf \union {[event |-> e, spec |-> fw.hyp.frozen]}
  <2>1. fw.hyp.frozen \in Content
    BY <1>8, <1>a, ExactlyFrozen DEF Feed
  <2>2. e \in Event
    BY DEF Ladder, Shapes, Outcomes
  <2>3. perf \subseteq Row
    BY <1>a, <2>1, <2>2 DEF Frameworks, Row
  <2>4. fw' = [fw EXCEPT !.perf = perf]
    BY <1>8 DEF Feed
  <2> HIDE DEF perf
  <2>5. /\ fw' \in Frameworks /\ fw'.hyp = fw.hyp /\ fw'.ch = fw.ch /\ fw'.shadow = fw.shadow
        /\ fw'.canary = fw.canary /\ fw'.champ = fw.champ
    BY <1>a, <2>3, <2>4 DEF Frameworks
  <2>6. Fit(fw', spent)
    BY <1>a, <2>5, FitLike
  <2> QED BY <1>8, <1>a, <1>k, <2>6 DEF Feed, history
<1>9. CASE EvaluateChallenger
  <2>1. fw.ch # "none" /\ fw.champ = "none"
    BY <1>9, <1>a DEF EvaluateChallenger, Fit, Single
  <2>2. fw' = Blocked(fw) \/ fw' = ToShadow(fw)
    BY <1>9 DEF EvaluateChallenger
  <2>3. Fit(fw', spent)
    BY <1>a, <2>1, <2>2, FitBlocked, FitToShadow
  <2> QED BY <1>9, <1>a, <1>k, <2>3 DEF EvaluateChallenger, history
\* Of the evaluations only the two that promote spend evidence.
<1>r. ASSUME NEW gone, Fit(gone, spent), Retire(gone), UNCHANGED <<found, kept, epoch, spent, history>>
      PROVE  Ladder'
  <2>1. CASE fw' = [gone EXCEPT !.hyp.status = "retired"] /\ Saved("idle")
    BY <1>a, <1>k, <1>r, <2>1, FitRetired DEF Save, history
  <2>2. CASE /\ faults < MaxFaults /\ faults' = faults + 1 /\ at' = "idle"
             /\ fw' = [fw EXCEPT !.hyp.status = "retired"] /\ disk' \in {disk, fw'}
    <3>1. Fit(fw', spent) /\ Fit(disk', spent)
      BY <1>a, <2>2, FitRetired
    <3>2. Shapes' /\ Calling'
      BY <1>a, <1>r, <2>2 DEF Ladder, Shapes, Calling, history
    <3> QED BY <1>a, <1>r, <3>1, <3>2 DEF Ladder
  <2> QED BY <1>r, <2>1, <2>2 DEF Retire
<1>p. ASSUME NEW g, fw' = g, Fit(g, spent'), Ledger(spent'), Save("idle"), UNCHANGED <<found, kept, epoch, history>>,
             \A c \in Content : spent[c].shadow \subseteq spent'[c].shadow /\ spent[c].canary \subseteq spent'[c].canary
      PROVE  Ladder'
  <2>1. Fit(disk, spent')
    BY <1>a, <1>p, FitGrows
  <2>2. Fit(disk', spent') /\ at' = "idle" /\ faults' \in 0..MaxFaults
    BY <1>p, <1>s, <2>1
  <2>3. Shapes' /\ Calling'
    BY <1>p, <2>2 DEF Ladder, Shapes, Calling, history
  <2> QED BY <1>p, <2>2, <2>3 DEF Ladder
<1>10. CASE EvaluateShadow
  <2>1. fw.shadow.in /\ fw.champ = "none" /\ UNCHANGED <<found, kept, epoch, history>>
    BY <1>10, <1>a DEF EvaluateShadow, Fit, Single
  <2>2. CASE fw' = Blocked(fw) /\ Save("idle") /\ UNCHANGED spent
    BY <1>a, <1>k, <2>1, <2>2, FitBlocked DEF history
  <2>3. CASE /\ ~Tampered(fw.hyp) /\ Cardinality(fw.shadow.rows) >= MinShadow
             /\ fw' = [fw EXCEPT !.canary = [in |-> TRUE, rows |-> {}], !.shadow = Empty, !.hyp.status = "canary"]
             /\ spent' = [spent EXCEPT ![fw.hyp.content].shadow = @ \union fw.shadow.rows]
             /\ Save("idle")
    <3> DEFINE c == fw.hyp.content
               rows == spent[c].shadow \union fw.shadow.rows
               entry == [spent[c] EXCEPT !.shadow = @ \union fw.shadow.rows]
    <3>1. c \in Exact /\ fw.hyp.frozen = c /\ c \in Content
      BY <1>a, <2>3, ExactlyFrozen DEF Tampered
    <3>2. /\ IsFiniteSet(fw.shadow.rows) /\ fw.shadow.rows \subseteq Row
          /\ \A r \in fw.shadow.rows : r.spec = c
      BY <1>a, <3>1 DEF Fit, Bound, Frameworks, Bucket
    <3>3. /\ spent[c] \in [shadow : SUBSET Row, canary : SUBSET Row]
          /\ IsFiniteSet(spent[c].shadow) /\ \A r \in spent[c].shadow : r.spec = c
      BY <1>a, <3>1 DEF Ledger
    <3>4. /\ entry \in [shadow : SUBSET Row, canary : SUBSET Row] /\ entry.canary = spent[c].canary
          /\ entry.shadow = rows
      BY <3>2, <3>3
    <3>5. IsFiniteSet(rows) /\ (\A r \in rows : r.spec = c)
      BY <3>2, <3>3, FS_Union
    <3>6. spent' = [spent EXCEPT ![c] = entry]
      BY <2>3
    <3> HIDE DEF entry
    <3>7. Ledger(spent') /\ spent'[c].shadow = rows
          /\ \A d \in Content : spent[d].shadow \subseteq spent'[d].shadow /\ spent[d].canary \subseteq spent'[d].canary
      BY <1>a, <3>1, <3>4, <3>5, <3>6 DEF Ledger
    <3>8. Cardinality(fw.shadow.rows) <= Cardinality(rows) /\ Cardinality(rows) \in Nat
          /\ Cardinality(fw.shadow.rows) \in Nat /\ MinShadow \in Nat
      BY <3>2, <3>5, FS_Subset, FS_CardinalityType, ConstantsAssumption
    <3> HIDE DEF rows
    <3>9. ShadowSpent(fw.hyp.frozen, spent')
      <4>1. Cardinality(fw.shadow.rows) >= MinShadow
        BY <2>3
      <4>2. Cardinality(rows) >= MinShadow
        BY <3>8, <4>1
      <4> QED BY <3>1, <3>7, <4>2 DEF ShadowSpent
    <3>10. Fit(fw, spent')
      BY <1>a, <3>7, FitGrows
    <3>11. Fit(fw', spent')
      BY <2>1, <2>3, <3>9, <3>10, FitToCanary
    <3> QED BY <1>p, <2>1, <2>3, <3>7, <3>11
  <2>4. CASE Retire([fw EXCEPT !.shadow = Empty]) /\ UNCHANGED spent
    BY <1>a, <1>r, <2>1, <2>4, FitWithout
  <2> QED BY <1>10, <2>2, <2>3, <2>4 DEF EvaluateShadow
<1>11. CASE EvaluateCanary
  <2>1. fw.canary.in /\ fw.champ = "none" /\ UNCHANGED <<found, kept, epoch, history>>
    BY <1>11, <1>a DEF EvaluateCanary, Fit, Single
  <2>2. CASE fw' = Blocked(fw) /\ Save("idle") /\ UNCHANGED spent
    BY <1>a, <1>k, <2>1, <2>2, FitBlocked DEF history
  <2> DEFINE real == Real(fw.canary.rows)
  <2>3. CASE /\ ~Tampered(fw.hyp) /\ Cardinality(real) >= MinCanary
             /\ fw' = [fw EXCEPT !.champ = "LIVE", !.perf = {}, !.canary = Empty, !.hyp.status = "live"]
             /\ spent' = [spent EXCEPT ![fw.hyp.content].canary = @ \union real]
             /\ Save("idle")
    <3> DEFINE c == fw.hyp.content
               rows == spent[c].canary \union real
               entry == [spent[c] EXCEPT !.canary = @ \union real]
    <3>1. c \in Exact /\ fw.hyp.frozen = c /\ c \in Content
      BY <1>a, <2>3, ExactlyFrozen DEF Tampered
    <3>2. /\ IsFiniteSet(fw.canary.rows) /\ fw.canary.rows \subseteq Row
          /\ \A r \in fw.canary.rows : r.spec = c
      BY <1>a, <3>1 DEF Fit, Bound, Frameworks, Bucket
    <3>3. /\ IsFiniteSet(real) /\ real \subseteq Row
          /\ \A r \in real : r.spec = c /\ r.event \notin Paper
      BY <3>2, FS_Subset DEF Real
    <3> HIDE DEF real
    <3>4. /\ spent[c] \in [shadow : SUBSET Row, canary : SUBSET Row] /\ IsFiniteSet(spent[c].canary)
          /\ \A r \in spent[c].canary : r.spec = c /\ r.event \notin Paper
      BY <1>a, <3>1 DEF Ledger
    <3>5. /\ entry \in [shadow : SUBSET Row, canary : SUBSET Row] /\ entry.shadow = spent[c].shadow
          /\ entry.canary = rows
      BY <3>3, <3>4
    <3>6. IsFiniteSet(rows) /\ (\A r \in rows : r.spec = c /\ r.event \notin Paper)
      BY <3>3, <3>4, FS_Union
    <3>7. spent' = [spent EXCEPT ![c] = entry]
      BY <2>3
    <3> HIDE DEF entry
    <3>8. Ledger(spent') /\ spent'[c].canary = rows
          /\ \A d \in Content : spent[d].shadow \subseteq spent'[d].shadow /\ spent[d].canary \subseteq spent'[d].canary
      BY <1>a, <3>1, <3>5, <3>6, <3>7 DEF Ledger
    <3>9. Cardinality(real) <= Cardinality(rows) /\ Cardinality(rows) \in Nat
          /\ Cardinality(real) \in Nat /\ MinCanary \in Nat
      BY <3>3, <3>6, FS_Subset, FS_CardinalityType, ConstantsAssumption
    <3> HIDE DEF rows
    <3>10. CanarySpent(fw.hyp.frozen, spent')
      <4>1. Cardinality(real) >= MinCanary
        BY <2>3
      <4>2. Cardinality(rows) >= MinCanary
        BY <3>9, <4>1
      <4> QED BY <3>1, <3>8, <4>2 DEF CanarySpent
    <3>11. Fit(fw, spent')
      BY <1>a, <3>8, FitGrows
    <3>12. Fit(fw', spent')
      BY <2>1, <2>3, <3>10, <3>11, FitToLive
    <3> QED BY <1>p, <2>1, <2>3, <3>8, <3>12
  <2>4. CASE Retire([fw EXCEPT !.canary = Empty]) /\ UNCHANGED spent
    BY <1>a, <1>r, <2>1, <2>4, FitWithout
  <2> QED BY <1>11, <2>2, <2>3, <2>4 DEF EvaluateCanary
<1>12. CASE Decay
  <2>1. PICK x \in DecayTo(fw) : x # fw.champ /\ fw' = [fw EXCEPT !.champ = x]
    BY <1>12 DEF Decay
  <2>2. fw.champ # "none" /\ x \in {"DECAYING", "HIBERNATED"}
    BY <1>12, <2>1 DEF Decay, DecayTo
  <2>3. /\ fw' \in Frameworks /\ fw'.hyp = fw.hyp /\ fw'.ch = fw.ch /\ fw'.shadow = fw.shadow
        /\ fw'.canary = fw.canary /\ fw'.champ = x
    BY <1>a, <2>1, <2>2 DEF Frameworks
  <2>4. Fit(fw', spent)
    BY <1>a, <2>2, <2>3, FitLike
  <2> QED BY <1>12, <1>a, <1>k, <2>4 DEF Decay, history
<1>13. CASE Crash
  <2>1. PICK d \in Files : disk' = d /\ fw' = Loaded(d)
    BY <1>13 DEF Crash
  <2>2. d = disk \/ \E c \in Content : d = [disk EXCEPT !.hyp.content = c]
    BY DEF Files
  <2>3. Fit(d, spent)
    BY <1>a, <2>2, FitEdited
  <2>4. Fit(fw', spent) /\ Fit(disk', spent)
    BY <2>1, <2>3, FitLoaded
  <2>5. Shapes' /\ Calling' /\ UNCHANGED spent
    <3>1. DOMAIN found \subseteq Event
      BY DEF Ladder, Shapes, Outcomes
    <3>2. torn' \subseteq Event
      BY <1>13, <1>a, <3>1 DEF Crash
    <3> QED BY <1>13, <1>a, <3>2 DEF Crash, Ladder, Shapes, Calling
  <2> QED BY <1>a, <2>4, <2>5 DEF Ladder
<1> QED BY <1>0, <1>1, <1>2, <1>3, <1>4, <1>5, <1>6, <1>7, <1>8, <1>9, <1>10, <1>11, <1>12, <1>13 DEF Next

LEMMA LadderInvariant == Spec => []Ladder
  BY LadderInit, LadderStep, PTL DEF Spec

\* Every variable keeps its shape.
THEOREM TypeCorrect == Spec => []TypeOK
<1>1. Ladder => TypeOK
  <2> SUFFICES ASSUME Ladder PROVE TypeOK
    OBVIOUS
  <2>1. fw \in Frameworks /\ fw.hyp \in Hypotheses
    BY DEF Ladder, Fit, Frameworks
  <2>2. fw.hyp.content \in Content \union {"none"} /\ fw.hyp.at \in 0..MaxEpoch
    BY <2>1 DEF Hypotheses
  <2>3. /\ fw.latest \in [Content -> {"none", "pass", "fail"}]
        /\ fw.ch \in {"none", "DISCOVERED", "DATA_BLOCKED"}
        /\ fw.shadow \in Bucket /\ fw.canary \in Bucket /\ fw.perf \subseteq Row
        /\ fw.champ \in {"none", "LIVE", "DECAYING", "HIBERNATED"}
    BY <2>1 DEF Frameworks
  <2>4. DOMAIN kept \subseteq Event /\ DOMAIN found \subseteq Event
    BY DEF Ladder, Shapes, Outcomes
  <2> QED BY <2>2, <2>3, <2>4 DEF Ladder, Shapes, TypeOK
<1> QED BY <1>1, LadderInvariant, PTL

\* A hypothesis is challenger, shadow, canary or champion and never two of them, in memory and
\* in the checkpoint file, whatever write raised and wherever a crash fell
\* (ChampionChallengerFramework, _save_state, _load_state).
THEOREM OneRungAtATime == Spec => []OneRung
<1>1. ASSUME NEW f \in Frameworks, Single(f)
      PROVE  Cardinality({x \in {"challenger", "shadow", "canary", "champion"} :
                CASE x = "challenger" -> f.ch # "none" [] x = "shadow" -> f.shadow.in
                  [] x = "canary" -> f.canary.in [] OTHER -> f.champ # "none"}) <= 1
  <2> DEFINE S == {x \in {"challenger", "shadow", "canary", "champion"} :
                CASE x = "challenger" -> f.ch # "none" [] x = "shadow" -> f.shadow.in
                  [] x = "canary" -> f.canary.in [] OTHER -> f.champ # "none"}
  <2>1. \A x \in S : \/ x = "challenger" /\ f.ch # "none"
                     \/ x = "shadow" /\ f.shadow.in
                     \/ x = "canary" /\ f.canary.in
                     \/ x = "champion" /\ f.champ # "none"
    OBVIOUS
  <2> HIDE DEF S
  <2>2. \A x, y \in S : x = y
    BY <1>1, <2>1 DEF Single
  <2>3. CASE S = {}
    BY <2>3, FS_EmptySet DEF S
  <2>4. CASE S # {}
    <3>1. PICK x \in S : S = {x}
      BY <2>2, <2>4
    <3>2. Cardinality(S) = 1
      BY <3>1, FS_Singleton
    <3> QED BY <3>2 DEF S
  <2> QED BY <2>3, <2>4
<1>2. Ladder => OneRung
  <2> SUFFICES ASSUME Ladder, NEW f \in {fw, disk} PROVE f \in Frameworks /\ Single(f)
    BY <1>1 DEF OneRung
  <2> QED BY DEF Ladder, Fit
<1> QED BY <1>2, LadderInvariant, PTL

-----------------------------------------------------------------------------
(***************************************************************************)
(* No rung without a trial: a pass the framework remembers was recorded,   *)
(* and what stands on a rung above the challenger's is a content with one. *)
(***************************************************************************)

Raises(f) == f.shadow.in \/ f.canary.in \/ f.champ # "none"

Tried(f, tried) ==
    /\ \A c \in Content : f.latest[c] = "pass" => c \in tried
    /\ Raises(f) => f.hyp.frozen \in tried

Proven == Tried(fw, passed) /\ Tried(disk, passed)

\* A framework that climbed no further is as well tried.
LEMMA TriedLike ==
    ASSUME NEW f, NEW g, NEW tried, NEW more, Tried(f, tried), tried \subseteq more,
           g.latest = f.latest, g.hyp.frozen = f.hyp.frozen, Raises(g) => Raises(f)
    PROVE  Tried(g, more)
  BY DEF Tried

LEMMA TriedBlocked ==
    ASSUME NEW f \in Frameworks, NEW tried, Tried(f, tried)
    PROVE  Tried(Blocked(f), tried)
<1>1. Raises(Blocked(f)) => Raises(f)
  BY BlockedFields, EmptyBucket DEF Raises
<1> QED BY <1>1, BlockedFields, TriedLike

LEMMA LoadedFields ==
    ASSUME NEW d \in Frameworks
    PROVE  /\ Loaded(d).latest = d.latest /\ Loaded(d).hyp.frozen = d.hyp.frozen
           /\ Loaded(d).shadow.rows \subseteq d.shadow.rows
           /\ Loaded(d).canary.rows \subseteq d.canary.rows
           /\ Raises(Loaded(d)) => Raises(d)
<1> DEFINE f == [d EXCEPT !.hyp = Admitted(d.hyp)]
<1>1. d.hyp \in Hypotheses
  BY DEF Frameworks
<1>2. Admitted(d.hyp) \in Hypotheses /\ Admitted(d.hyp).frozen = d.hyp.frozen
  BY <1>1, AdmittedFields
<1>3. /\ f \in Frameworks /\ f.hyp = Admitted(d.hyp) /\ f.shadow = d.shadow /\ f.latest = d.latest
      /\ f.canary = d.canary /\ f.champ = d.champ
  BY <1>2 DEF Frameworks
<1>4. Loaded(d) = f \/ Loaded(d) = Revoked(f)
  BY DEF Loaded
<1> HIDE DEF f
<1>5. /\ Revoked(f).latest = f.latest /\ Revoked(f).shadow = Empty /\ Revoked(f).canary = Empty
      /\ Revoked(f).champ = (IF f.champ = "none" THEN "none" ELSE "HIBERNATED")
  BY <1>3 DEF Revoked, Frameworks
<1>6. Revoked(f).hyp.frozen = f.hyp.frozen
  <2>1. f.hyp \in Hypotheses
    BY <1>2, <1>3
  <2> QED BY <1>3, <2>1 DEF Revoked, Frameworks, Hypotheses
<1> QED BY <1>2, <1>3, <1>4, <1>5, <1>6, EmptyBucket DEF Raises

LEMMA ProvenStep == Ladder /\ Proven /\ [Next]_vars => Proven'
<1> SUFFICES ASSUME Ladder, Proven, [Next]_vars PROVE Proven'
  OBVIOUS
<1>a. /\ fw \in Frameworks /\ fw.hyp \in Hypotheses /\ disk \in Frameworks
      /\ Tried(fw, passed) /\ Tried(disk, passed)
  BY DEF Ladder, Fit, Frameworks, Proven
<1>s. \A next : Save(next) => disk' \in {disk, fw'}
  BY DEF Save, Saved, Raised
<1>k. ASSUME Tried(fw', passed), disk' \in {disk, fw'}, UNCHANGED passed PROVE Proven'
  BY <1>a, <1>k DEF Proven
\* A step that leaves the rungs and the trials of the framework alone.
<1>e. ASSUME fw'.latest = fw.latest, fw'.hyp.frozen = fw.hyp.frozen, Raises(fw') => Raises(fw),
             disk' \in {disk, fw'}, UNCHANGED passed
      PROVE  Proven'
  BY <1>a, <1>e, <1>k, TriedLike
<1>0. CASE UNCHANGED vars
  BY <1>0 DEF vars, history, Proven
<1>1. ASSUME NEW c \in Content, Submit(c) PROVE Proven'
  <2>1. fw' = Fresh(fw, c) /\ UNCHANGED passed /\ \E next : Save(next)
    BY <1>1 DEF Submit, history
  <2>2. Tried(fw', passed)
    BY <1>a, <2>1, FreshFields, EmptyBucket DEF Tried, Raises
  <2> QED BY <1>k, <1>s, <2>1, <2>2
<1>2. CASE Freeze
  <2>1. fw.shadow = Empty /\ fw.canary = Empty /\ fw.champ = "none"
    BY <1>2 DEF Freeze, Ladder, Calling
  <2>2. UNCHANGED passed /\ \E next : Save(next)
    BY <1>2 DEF Freeze, history
  <2>3. CASE fw' = Blocked(fw)
    BY <1>a, <1>k, <1>s, <2>2, <2>3, TriedBlocked
  <2>4. CASE fw' = [fw EXCEPT !.hyp.frozen = fw.hyp.content, !.hyp.at = epoch']
    <3>1. /\ fw'.shadow = fw.shadow /\ fw'.canary = fw.canary /\ fw'.champ = fw.champ
          /\ fw'.latest = fw.latest
      BY <1>a, <2>4 DEF Frameworks
    <3>2. ~Raises(fw')
      BY <2>1, <3>1, EmptyBucket DEF Raises
    <3>3. Tried(fw', passed)
      BY <1>a, <3>1, <3>2 DEF Tried
    <3> QED BY <1>k, <1>s, <2>2, <3>3
  <2> QED BY <1>2, <2>3, <2>4 DEF Freeze
<1>3. CASE Block
  <2>1. fw' = Blocked(fw) /\ Save("idle") /\ UNCHANGED passed
    BY <1>3 DEF Block, history
  <2> QED BY <1>a, <1>k, <1>s, <2>1, TriedBlocked
<1>4. ASSUME NEW r \in {"pass", "fail"}, Trial(r) PROVE Proven'
  <2>1. fw.hyp.frozen \in Content
    BY <1>4, <1>a, ExactlyFrozen DEF Trial
  <2>2. /\ fw' = [fw EXCEPT !.latest[fw.hyp.frozen] = r] /\ disk' \in {disk, fw'}
        /\ passed' = IF r = "pass" THEN passed \union {fw.hyp.frozen} ELSE passed
    BY <1>4, <1>s DEF Trial
  <2>3. /\ fw'.hyp = fw.hyp /\ fw'.shadow = fw.shadow /\ fw'.canary = fw.canary
        /\ fw'.champ = fw.champ /\ fw'.latest = [fw.latest EXCEPT ![fw.hyp.frozen] = r]
    BY <1>a, <2>2 DEF Frameworks
  <2>4. fw.latest \in [Content -> {"none", "pass", "fail"}]
    BY <1>a DEF Frameworks
  <2>5. passed \subseteq passed'
    BY <2>2
  <2>6. Tried(fw', passed')
    <3>1. ASSUME NEW c \in Content, fw'.latest[c] = "pass" PROVE c \in passed'
      BY <1>a, <2>1, <2>2, <2>3, <2>4, <3>1 DEF Tried
    <3>2. Raises(fw') => fw'.hyp.frozen \in passed'
      BY <1>a, <2>3, <2>5 DEF Tried, Raises
    <3> QED BY <3>1, <3>2 DEF Tried
  <2>7. Tried(disk, passed')
    BY <1>a, <2>5 DEF Tried
  <2> QED BY <2>2, <2>6, <2>7 DEF Proven
<1>5. ASSUME NEW e \in Event, Outcome(e) PROVE Proven'
  BY <1>5 DEF Outcome, history, Proven
<1>6. CASE Reconcile \/ Flushed
  BY <1>6 DEF Reconcile, Flushed, history, Proven
<1>7. ASSUME NEW e \in DOMAIN found, Transfer(e) PROVE Proven'
  <2> DEFINE row == [event |-> e, spec |-> found[e].spec]
  <2>1. \/ UNCHANGED <<fw, disk>>
        \/ /\ Save("flush")
           /\ fw' = [fw EXCEPT !.shadow.rows = @ \union {row}] \/ fw' = [fw EXCEPT !.canary.rows = @ \union {row}]
    BY <1>7 DEF Transfer, Save
  <2>2. UNCHANGED passed
    BY <1>7 DEF Transfer
  <2> HIDE DEF row
  <2>3. /\ fw'.latest = fw.latest /\ fw'.hyp = fw.hyp /\ fw'.champ = fw.champ
        /\ fw'.shadow.in = fw.shadow.in /\ fw'.canary.in = fw.canary.in
    BY <1>a, <2>1 DEF Frameworks, Bucket
  <2>4. Raises(fw') => Raises(fw)
    BY <2>3 DEF Raises
  <2> QED BY <1>e, <1>s, <2>1, <2>2, <2>3, <2>4
<1>8. ASSUME NEW e \in DOMAIN found, Feed(e) PROVE Proven'
  <2>1. /\ fw'.latest = fw.latest /\ fw'.hyp = fw.hyp /\ fw'.champ = fw.champ
        /\ fw'.shadow = fw.shadow /\ fw'.canary = fw.canary
    BY <1>8, <1>a DEF Feed, Frameworks
  <2>2. Save("idle") /\ UNCHANGED passed
    BY <1>8 DEF Feed, history
  <2> QED BY <1>e, <1>s, <2>1, <2>2 DEF Raises
<1>9. CASE EvaluateChallenger
  <2>1. Save("idle") /\ UNCHANGED passed
    BY <1>9 DEF EvaluateChallenger, history
  <2>2. CASE fw' = Blocked(fw)
    BY <1>a, <1>k, <1>s, <2>1, <2>2, TriedBlocked
  <2>3. CASE /\ ExactFrozen(fw.hyp) /\ fw.latest[fw.hyp.frozen] = "pass" /\ fw' = ToShadow(fw)
    <3>1. fw.hyp.frozen \in passed
      BY <1>a, <2>3, ExactlyFrozen DEF Tried
    <3>2. fw'.latest = fw.latest /\ fw'.hyp.frozen = fw.hyp.frozen
      BY <1>a, <2>3 DEF ToShadow, Frameworks, Hypotheses
    <3>3. Tried(fw', passed)
      BY <1>a, <3>1, <3>2 DEF Tried
    <3> QED BY <1>k, <1>s, <2>1, <3>3
  <2> QED BY <1>9, <2>2, <2>3 DEF EvaluateChallenger
\* A climb from one rung to the next, and a retirement.
<1>c. ASSUME fw'.latest = fw.latest, fw'.hyp.frozen = fw.hyp.frozen, Raises(fw),
             disk' \in {disk, fw'}, UNCHANGED passed
      PROVE  Proven'
  BY <1>c, <1>e
<1>r. ASSUME NEW gone \in Frameworks, Retire(gone), UNCHANGED passed, Raises(fw),
             gone.latest = fw.latest, gone.hyp = fw.hyp
      PROVE  Proven'
  <2>1. disk' \in {disk, fw'}
    BY <1>r DEF Retire, Saved
  <2>2. fw' = [gone EXCEPT !.hyp.status = "retired"] \/ fw' = [fw EXCEPT !.hyp.status = "retired"]
    BY <1>r DEF Retire
  <2>3. fw'.latest = fw.latest /\ fw'.hyp.frozen = fw.hyp.frozen
    BY <1>a, <1>r, <2>2 DEF Frameworks, Hypotheses
  <2> QED BY <1>c, <1>r, <2>1, <2>3
<1>10. CASE EvaluateShadow
  <2>1. UNCHANGED passed /\ Raises(fw)
    BY <1>10 DEF EvaluateShadow, history, Raises
  <2>2. CASE fw' = Blocked(fw) /\ Save("idle")
    BY <1>a, <1>k, <1>s, <2>1, <2>2, TriedBlocked
  <2>3. CASE /\ Save("idle")
             /\ fw' = [fw EXCEPT !.canary = [in |-> TRUE, rows |-> {}], !.shadow = Empty, !.hyp.status = "canary"]
    <3>1. fw'.latest = fw.latest /\ fw'.hyp.frozen = fw.hyp.frozen
      BY <1>a, <2>3 DEF Frameworks, Hypotheses
    <3> QED BY <1>c, <1>s, <2>1, <2>3, <3>1
  <2>4. CASE Retire([fw EXCEPT !.shadow = Empty])
    <3> DEFINE gone == [fw EXCEPT !.shadow = Empty]
    <3>1. gone \in Frameworks /\ gone.latest = fw.latest /\ gone.hyp = fw.hyp
      BY <1>a, EmptyBucket DEF Frameworks
    <3> QED BY <1>r, <2>1, <2>4, <3>1
  <2> QED BY <1>10, <2>2, <2>3, <2>4 DEF EvaluateShadow
<1>11. CASE EvaluateCanary
  <2>1. UNCHANGED passed /\ Raises(fw)
    BY <1>11 DEF EvaluateCanary, history, Raises
  <2>2. CASE fw' = Blocked(fw) /\ Save("idle")
    BY <1>a, <1>k, <1>s, <2>1, <2>2, TriedBlocked
  <2>3. CASE /\ Save("idle")
             /\ fw' = [fw EXCEPT !.champ = "LIVE", !.perf = {}, !.canary = Empty, !.hyp.status = "live"]
    <3>1. fw'.latest = fw.latest /\ fw'.hyp.frozen = fw.hyp.frozen
      BY <1>a, <2>3 DEF Frameworks, Hypotheses
    <3> QED BY <1>c, <1>s, <2>1, <2>3, <3>1
  <2>4. CASE Retire([fw EXCEPT !.canary = Empty])
    <3> DEFINE gone == [fw EXCEPT !.canary = Empty]
    <3>1. gone \in Frameworks /\ gone.latest = fw.latest /\ gone.hyp = fw.hyp
      BY <1>a, EmptyBucket DEF Frameworks
    <3> QED BY <1>r, <2>1, <2>4, <3>1
  <2> QED BY <1>11, <2>2, <2>3, <2>4 DEF EvaluateCanary
<1>12. CASE Decay
  <2>1. PICK x : fw' = [fw EXCEPT !.champ = x]
    BY <1>12 DEF Decay
  <2>2. fw.champ # "none" /\ Save("idle") /\ UNCHANGED passed
    BY <1>12 DEF Decay, history
  <2>3. fw'.latest = fw.latest /\ fw'.hyp = fw.hyp
    BY <1>a, <2>1 DEF Frameworks
  <2> QED BY <1>c, <1>s, <2>2, <2>3 DEF Raises
<1>13. CASE Crash
  <2>1. PICK d \in Files : disk' = d /\ fw' = Loaded(d)
    BY <1>13 DEF Crash
  <2>2. /\ d \in Frameworks /\ d.latest = disk.latest /\ d.hyp.frozen = disk.hyp.frozen
        /\ Raises(d) => Raises(disk)
    BY <1>a, <2>1 DEF Files, Frameworks, Hypotheses, Raises
  <2>3. Tried(d, passed)
    BY <1>a, <2>2, TriedLike
  <2>4. Tried(Loaded(d), passed)
    BY <2>2, <2>3, LoadedFields, TriedLike
  <2> QED BY <1>13, <2>1, <2>3, <2>4 DEF Crash, Proven
<1> QED BY <1>0, <1>1, <1>2, <1>3, <1>4, <1>5, <1>6, <1>7, <1>8, <1>9, <1>10, <1>11, <1>12, <1>13 DEF Next

\* Live authority was earned by the content that holds it: a passed trial, enough shadow and
\* enough real canary outcomes, all bound to that content, for any thresholds and whatever was
\* submitted, restored or edited in between (_evaluation_loop, is_live, _exact_frozen_valid).
THEOREM LiveIsEarned == Spec => []LiveEarned
<1>1. Ladder /\ Proven => LiveEarned
  <2> SUFFICES ASSUME Ladder, Proven, IsLive(fw)
               PROVE  /\ fw.hyp.content \in Exact /\ fw.hyp.content \in passed
                      /\ Cardinality(spent[fw.hyp.content].shadow) >= MinShadow
                      /\ Cardinality(spent[fw.hyp.content].canary) >= MinCanary
                      /\ \A r \in spent[fw.hyp.content].shadow \union spent[fw.hyp.content].canary :
                            r.spec = fw.hyp.content
                      /\ \A r \in spent[fw.hyp.content].canary : r.event \notin Paper
    BY DEF LiveEarned
  <2>1. fw.hyp \in Hypotheses /\ ExactFrozen(fw.hyp) /\ fw.champ # "none"
    BY DEF Ladder, Fit, Frameworks, IsLive
  <2>2. fw.hyp.content \in Exact /\ fw.hyp.frozen = fw.hyp.content /\ fw.hyp.content \in Content
    BY <2>1, ExactlyFrozen
  <2>3. ShadowSpent(fw.hyp.content, spent) /\ CanarySpent(fw.hyp.content, spent)
    BY <2>1, <2>2 DEF Ladder, Fit, Earned
  <2>4. fw.hyp.content \in passed
    BY <2>1, <2>2 DEF Proven, Tried, Raises
  <2> QED BY <2>2, <2>3, <2>4 DEF Ladder, Ledger, ShadowSpent, CanarySpent
<1>2. Init => Proven
  <2> SUFFICES ASSUME Init PROVE Proven
    OBVIOUS
  <2>1. /\ fw.shadow = Empty /\ fw.canary = Empty /\ fw.champ = "none" /\ disk = fw
        /\ \A c \in Content : fw.latest[c] = "none"
    BY DEF Init
  <2> QED BY <2>1, EmptyBucket DEF Proven, Tried, Raises
<1> QED BY <1>1, <1>2, ProvenStep, LadderInvariant, PTL DEF Spec

-----------------------------------------------------------------------------
(***************************************************************************)
(* An outcome that reached a bucket, in memory or in the checkpoint file,  *)
(* is marked, or its mark and the checkpoint came apart; a marked one      *)
(* enters no other bucket.                                                 *)
(***************************************************************************)

InShadow(r) == \/ r \in fw.shadow.rows \union disk.shadow.rows
               \/ \E c \in Content : r \in spent[c].shadow
InCanary(r) == \/ r \in fw.canary.rows \union disk.canary.rows
               \/ \E c \in Content : r \in spent[c].canary

Settled(r) == r.event \in torn \/ Marked(found, r.event)

Counted ==
    \A r \in Row : /\ InShadow(r) \/ InCanary(r) => Settled(r)
                   /\ InShadow(r) /\ InCanary(r) => r.event \in torn

LEMMA CountedStep == Ladder /\ Counted /\ [Next]_vars => Counted'
<1> SUFFICES ASSUME Ladder, Counted, [Next]_vars PROVE Counted'
  OBVIOUS
<1>a. /\ fw \in Frameworks /\ fw.hyp \in Hypotheses /\ disk \in Frameworks /\ Ledger(spent)
      /\ fw.shadow \in Bucket /\ fw.canary \in Bucket
  BY DEF Ladder, Fit, Frameworks
<1>s. \A next : Save(next) => disk' \in {disk, fw'}
  BY DEF Save, Saved, Raised
\* A step that takes no outcome into a bucket.
<1>m. ASSUME \A r \in Row : /\ InShadow(r)' => InShadow(r)
                            /\ InCanary(r)' => InCanary(r)
                            /\ Settled(r) => Settled(r)',
             torn \subseteq torn'
      PROVE  Counted'
  BY <1>m DEF Counted
<1>d. ASSUME fw'.shadow.rows \subseteq fw.shadow.rows, fw'.canary.rows \subseteq fw.canary.rows,
             disk' \in {disk, fw'}, UNCHANGED <<found, spent, torn>>
      PROVE  Counted'
  <2>1. ASSUME NEW r \in Row
        PROVE  (InShadow(r)' => InShadow(r)) /\ (InCanary(r)' => InCanary(r))
    BY <1>d DEF InShadow, InCanary
  <2>2. ASSUME NEW r \in Row PROVE Settled(r) => Settled(r)'
    BY <1>d DEF Settled, Marked
  <2> QED BY <1>d, <1>m, <2>1, <2>2
<1>b. ASSUME fw' = Blocked(fw), disk' \in {disk, fw'}, UNCHANGED <<found, spent, torn>> PROVE Counted'
  <2>1. fw'.shadow.rows = {} /\ fw'.canary.rows = {}
    BY <1>a, <1>b, BlockedFields, EmptyBucket
  <2> QED BY <1>b, <1>d, <2>1
<1>0. CASE UNCHANGED vars
  BY <1>0, <1>d DEF vars, history
<1>1. ASSUME NEW c \in Content, Submit(c) PROVE Counted'
  <2>1. fw'.shadow.rows = {} /\ fw'.canary.rows = {}
    BY <1>1, <1>a, FreshFields, EmptyBucket DEF Submit
  <2>2. UNCHANGED <<found, spent, torn>> /\ \E next : Save(next)
    BY <1>1 DEF Submit, history
  <2> QED BY <1>d, <1>s, <2>1, <2>2
<1>2. CASE Freeze
  <2>1. UNCHANGED <<found, spent, torn>> /\ \E next : Save(next)
    BY <1>2 DEF Freeze, history
  <2>2. CASE fw' = Blocked(fw)
    BY <1>b, <1>s, <2>1, <2>2
  <2>3. CASE fw' = [fw EXCEPT !.hyp.frozen = fw.hyp.content, !.hyp.at = epoch']
    <3>1. fw'.shadow = fw.shadow /\ fw'.canary = fw.canary
      BY <1>a, <2>3 DEF Frameworks
    <3> QED BY <1>d, <1>s, <2>1, <3>1
  <2> QED BY <1>2, <2>2, <2>3 DEF Freeze
<1>3. CASE Block
  <2>1. fw' = Blocked(fw) /\ Save("idle") /\ UNCHANGED <<found, spent, torn>>
    BY <1>3 DEF Block, history
  <2> QED BY <1>b, <1>s, <2>1
<1>4. ASSUME NEW r \in {"pass", "fail"}, Trial(r) PROVE Counted'
  <2>1. fw'.shadow = fw.shadow /\ fw'.canary = fw.canary
    BY <1>4, <1>a DEF Trial, Frameworks
  <2>2. UNCHANGED <<found, spent, torn>> /\ Save("idle")
    BY <1>4 DEF Trial
  <2> QED BY <1>d, <1>s, <2>1, <2>2
<1>5. ASSUME NEW e \in Event, Outcome(e) PROVE Counted'
  <2>1. /\ e \notin DOMAIN found /\ UNCHANGED <<fw, disk, spent, torn>>
        /\ found' = [x \in DOMAIN found \union {e} |->
                 IF x = e THEN [spec |-> fw.hyp.frozen, at |-> epoch, recorded |-> FALSE] ELSE found[x]]
    BY <1>5 DEF Outcome, Unresolved, history
  <2>2. \A x : Marked(found, x) => Marked(found', x)
    BY <2>1 DEF Marked
  <2>3. ASSUME NEW r \in Row PROVE Settled(r) => Settled(r)'
    BY <2>1, <2>2 DEF Settled
  <2>4. ASSUME NEW r \in Row
        PROVE  (InShadow(r)' => InShadow(r)) /\ (InCanary(r)' => InCanary(r))
    BY <2>1 DEF InShadow, InCanary
  <2> QED BY <1>m, <2>1, <2>3, <2>4
<1>6. CASE Reconcile \/ Flushed
  BY <1>6, <1>d DEF Reconcile, Flushed, history
<1>7. ASSUME NEW e \in DOMAIN found, Transfer(e) PROVE Counted'
  <2>0. PICK row : row = [event |-> e, spec |-> found[e].spec]
    OBVIOUS
  <2>1. PICK D \in SUBSET Event : found \in [D -> Notes]
    BY DEF Ladder, Shapes, Outcomes
  <2>2. ~Marked(found, e) /\ UNCHANGED spent
    BY <1>7 DEF Transfer, Movable, Marked
  <2>3. ASSUME Mark(e)
        PROVE  Marked(found', e) /\ \A x : Marked(found, x) => Marked(found', x)
    BY <2>1, <2>3 DEF Mark, Marked, Notes
  <2>4. CASE Mark(e) /\ UNCHANGED <<fw, disk, torn>>
    <3>1. ASSUME NEW r \in Row PROVE Settled(r) => Settled(r)'
      BY <2>3, <2>4 DEF Settled
    <3>2. ASSUME NEW r \in Row
          PROVE  (InShadow(r)' => InShadow(r)) /\ (InCanary(r)' => InCanary(r))
      BY <2>2, <2>4 DEF InShadow, InCanary
    <3> QED BY <1>m, <2>4, <3>1, <3>2
  <2>5. CASE /\ \/ Saved("flush") /\ Mark(e) /\ UNCHANGED torn
                \/ Raised /\ torn' = torn \union {e} /\ UNCHANGED found
             /\ \/ fw' = [fw EXCEPT !.shadow.rows = @ \union {row}]
                \/ fw' = [fw EXCEPT !.canary.rows = @ \union {row}]
    <3>1. row.event = e
      BY <2>0
    <3>2. \/ fw'.shadow.rows = fw.shadow.rows \union {row} /\ fw'.canary.rows = fw.canary.rows
          \/ fw'.canary.rows = fw.canary.rows \union {row} /\ fw'.shadow.rows = fw.shadow.rows
      BY <1>a, <2>5 DEF Frameworks, Bucket
    <3>3. torn \subseteq torn' /\ disk' \in {disk, fw'}
      BY <2>5 DEF Saved, Raised
    <3>4. ASSUME NEW r \in Row PROVE Settled(r) => Settled(r)'
      BY <2>3, <2>5 DEF Settled
    <3>5. Settled(row)'
      BY <2>3, <2>5, <3>1 DEF Settled
    <3>6. \/ \A r \in Row : (InShadow(r)' => InShadow(r) \/ r = row) /\ (InCanary(r)' => InCanary(r))
          \/ \A r \in Row : (InShadow(r)' => InShadow(r)) /\ (InCanary(r)' => InCanary(r) \/ r = row)
      BY <2>2, <3>2, <3>3 DEF InShadow, InCanary
    <3>7. ASSUME row \in Row, InShadow(row) \/ InCanary(row) PROVE row.event \in torn'
      BY <2>2, <3>1, <3>3, <3>7 DEF Counted, Settled
    <3>8. ASSUME NEW r \in Row
          PROVE  /\ (InShadow(r) \/ InCanary(r))' => Settled(r)'
                 /\ (InShadow(r) /\ InCanary(r))' => r.event \in torn'
      BY <3>3, <3>4, <3>5, <3>6, <3>7 DEF Counted
    <3> QED BY <3>8 DEF Counted
  <2> QED BY <1>7, <2>0, <2>4, <2>5 DEF Transfer
<1>8. ASSUME NEW e \in DOMAIN found, Feed(e) PROVE Counted'
  <2>1. fw'.shadow = fw.shadow /\ fw'.canary = fw.canary
    BY <1>8, <1>a DEF Feed, Frameworks
  <2>2. UNCHANGED <<found, spent, torn>> /\ Save("idle")
    BY <1>8 DEF Feed, history
  <2> QED BY <1>d, <1>s, <2>1, <2>2
<1>9. CASE EvaluateChallenger
  <2>1. UNCHANGED <<found, spent, torn>> /\ Save("idle")
    BY <1>9 DEF EvaluateChallenger, history
  <2>2. CASE fw' = Blocked(fw)
    BY <1>b, <1>s, <2>1, <2>2
  <2>3. CASE fw' = ToShadow(fw)
    <3>1. fw'.shadow.rows = {} /\ fw'.canary = fw.canary
      BY <1>a, <2>3 DEF ToShadow, Frameworks
    <3> QED BY <1>d, <1>s, <2>1, <3>1
  <2> QED BY <1>9, <2>2, <2>3 DEF EvaluateChallenger
\* Retirement, with and without its caller's drop of the bucket.
<1>r. ASSUME NEW gone \in Frameworks, Retire(gone), UNCHANGED <<found, spent, torn>>,
             gone.shadow.rows \subseteq fw.shadow.rows, gone.canary.rows \subseteq fw.canary.rows
      PROVE  Counted'
  <2>1. disk' \in {disk, fw'}
    BY <1>r DEF Retire, Saved
  <2>2. fw' = [gone EXCEPT !.hyp.status = "retired"] \/ fw' = [fw EXCEPT !.hyp.status = "retired"]
    BY <1>r DEF Retire
  <2>3. \/ fw'.shadow = gone.shadow /\ fw'.canary = gone.canary
        \/ fw'.shadow = fw.shadow /\ fw'.canary = fw.canary
    BY <1>a, <1>r, <2>2 DEF Frameworks
  <2> QED BY <1>d, <1>r, <2>1, <2>3
<1>10. CASE EvaluateShadow
  <2>1. UNCHANGED <<found, torn>>
    BY <1>10 DEF EvaluateShadow, history
  <2>2. CASE fw' = Blocked(fw) /\ Save("idle") /\ UNCHANGED spent
    BY <1>b, <1>s, <2>1, <2>2
  <2>3. CASE /\ ~Tampered(fw.hyp) /\ Save("idle")
             /\ fw' = [fw EXCEPT !.canary = [in |-> TRUE, rows |-> {}], !.shadow = Empty, !.hyp.status = "canary"]
             /\ spent' = [spent EXCEPT ![fw.hyp.content].shadow = @ \union fw.shadow.rows]
    <3>1. fw.hyp.content \in Content
      BY <1>a, <2>3, ExactlyFrozen DEF Tampered
    <3>2. \A c \in Content : /\ spent'[c].canary = spent[c].canary
                              /\ spent'[c].shadow \in {spent[c].shadow, spent[c].shadow \union fw.shadow.rows}
      BY <1>a, <2>3, <3>1 DEF Ledger
    <3>3. fw'.shadow.rows = {} /\ fw'.canary.rows = {} /\ disk' \in {disk, fw'}
      BY <1>a, <1>s, <2>3, EmptyBucket DEF Frameworks
    <3>4. ASSUME NEW r \in Row
          PROVE  (InShadow(r)' => InShadow(r)) /\ (InCanary(r)' => InCanary(r))
      BY <3>2, <3>3 DEF InShadow, InCanary
    <3>5. ASSUME NEW r \in Row PROVE Settled(r) => Settled(r)'
      BY <2>1 DEF Settled, Marked
    <3> QED BY <1>m, <2>1, <3>4, <3>5
  <2>4. CASE Retire([fw EXCEPT !.shadow = Empty]) /\ UNCHANGED spent
    <3> DEFINE gone == [fw EXCEPT !.shadow = Empty]
    <3>1. gone \in Frameworks /\ gone.shadow.rows = {} /\ gone.canary = fw.canary
      BY <1>a, EmptyBucket DEF Frameworks
    <3> QED BY <1>r, <2>1, <2>4, <3>1
  <2> QED BY <1>10, <2>2, <2>3, <2>4 DEF EvaluateShadow
<1>11. CASE EvaluateCanary
  <2>1. UNCHANGED <<found, torn>>
    BY <1>11 DEF EvaluateCanary, history
  <2>2. CASE fw' = Blocked(fw) /\ Save("idle") /\ UNCHANGED spent
    BY <1>b, <1>s, <2>1, <2>2
  <2>3. CASE /\ ~Tampered(fw.hyp) /\ Save("idle")
             /\ fw' = [fw EXCEPT !.champ = "LIVE", !.perf = {}, !.canary = Empty, !.hyp.status = "live"]
             /\ spent' = [spent EXCEPT ![fw.hyp.content].canary = @ \union Real(fw.canary.rows)]
    <3>1. fw.hyp.content \in Content
      BY <1>a, <2>3, ExactlyFrozen DEF Tampered
    <3>2. \A c \in Content : /\ spent'[c].shadow = spent[c].shadow
                              /\ spent'[c].canary \in {spent[c].canary, spent[c].canary \union Real(fw.canary.rows)}
      BY <1>a, <2>3, <3>1 DEF Ledger
    <3>3. /\ fw'.shadow = fw.shadow /\ fw'.canary.rows = {} /\ disk' \in {disk, fw'}
          /\ Real(fw.canary.rows) \subseteq fw.canary.rows
      BY <1>a, <1>s, <2>3, EmptyBucket DEF Frameworks, Real
    <3>4. ASSUME NEW r \in Row
          PROVE  (InShadow(r)' => InShadow(r)) /\ (InCanary(r)' => InCanary(r))
      BY <3>2, <3>3 DEF InShadow, InCanary
    <3>5. ASSUME NEW r \in Row PROVE Settled(r) => Settled(r)'
      BY <2>1 DEF Settled, Marked
    <3> QED BY <1>m, <2>1, <3>4, <3>5
  <2>4. CASE Retire([fw EXCEPT !.canary = Empty]) /\ UNCHANGED spent
    <3> DEFINE gone == [fw EXCEPT !.canary = Empty]
    <3>1. gone \in Frameworks /\ gone.canary.rows = {} /\ gone.shadow = fw.shadow
      BY <1>a, EmptyBucket DEF Frameworks
    <3> QED BY <1>r, <2>1, <2>4, <3>1
  <2> QED BY <1>11, <2>2, <2>3, <2>4 DEF EvaluateCanary
<1>12. CASE Decay
  <2>1. fw'.shadow = fw.shadow /\ fw'.canary = fw.canary
    BY <1>12, <1>a DEF Decay, Frameworks
  <2>2. UNCHANGED <<found, spent, torn>> /\ Save("idle")
    BY <1>12 DEF Decay, history
  <2> QED BY <1>d, <1>s, <2>1, <2>2
<1>13. CASE Crash
  <2>1. PICK d \in Files : disk' = d /\ fw' = Loaded(d)
    BY <1>13 DEF Crash
  <2>2. d \in Frameworks /\ d.shadow = disk.shadow /\ d.canary = disk.canary
    BY <1>a, <2>1 DEF Files, Frameworks, Hypotheses
  <2>3. fw'.shadow.rows \subseteq disk.shadow.rows /\ fw'.canary.rows \subseteq disk.canary.rows
    BY <2>1, <2>2, LoadedFields
  <2>4. /\ UNCHANGED spent /\ found' = kept
        /\ torn' = torn \union {e \in DOMAIN found : Marked(found, e) /\ ~Marked(kept, e)}
    BY <1>13 DEF Crash
  <2>5. ASSUME NEW r \in Row
        PROVE  (InShadow(r)' => InShadow(r)) /\ (InCanary(r)' => InCanary(r))
    BY <2>1, <2>2, <2>3, <2>4 DEF InShadow, InCanary
  <2>6. ASSUME NEW r \in Row PROVE Settled(r) => Settled(r)'
    BY <2>4 DEF Settled, Marked
  <2> QED BY <1>m, <2>4, <2>5, <2>6
<1> QED BY <1>0, <1>1, <1>2, <1>3, <1>4, <1>5, <1>6, <1>7, <1>8, <1>9, <1>10, <1>11, <1>12, <1>13 DEF Next

\* "At most once across a restart" (reconcile_forward): through any crashes, failed writes and
\* edited files an outcome counts towards one promotion of a content, the shadow's or the
\* canary's, unless the framework's checkpoint and the validation service's mark came apart for
\* that very outcome.
THEOREM OutcomesCountOnce == Spec => []OutcomeCountsOnce
<1>1. Init => Counted
  <2> SUFFICES ASSUME Init PROVE Counted
    OBVIOUS
  <2>1. /\ fw.shadow.rows = {} /\ fw.canary.rows = {} /\ disk = fw
        /\ \A c \in Content : spent[c].shadow = {} /\ spent[c].canary = {}
    BY EmptyBucket DEF Init
  <2> QED BY <2>1 DEF Counted, InShadow, InCanary
<1>2. Ladder /\ Counted => OutcomeCountsOnce
  <2> SUFFICES ASSUME Ladder, Counted, NEW c \in Content, NEW r \in spent[c].shadow \intersect spent[c].canary
               PROVE  r.event \in torn
    BY DEF OutcomeCountsOnce
  <2>1. r \in Row
    BY DEF Ladder, Ledger
  <2> QED BY <2>1 DEF Counted, InShadow, InCanary
<1> QED BY <1>1, <1>2, CountedStep, LadderInvariant, PTL DEF Spec
=============================================================================
