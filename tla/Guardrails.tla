----------------------------- MODULE Guardrails -----------------------------
(***************************************************************************)
(* What the orchestrator does around a debate: the two seats' cases, the    *)
(* synthesis in both orders and its de-biasing, the hard guardrails, and    *)
(* the offline provider that stands in for the seats. Strengths are counted *)
(* in halves and confidences in hundredths; a confidence under guardrails   *)
(* is counted in Fine units, so that every step is exact.                   *)
(***************************************************************************)
EXTENDS Integers, Sequences, FiniteSetsExt

CONSTANTS
    StaleAge,       \* STALE_MAX_AGE_D
    ForumSrc        \* LOW_TRUST_SRC

Actions == {"buy_early", "hold", "trim", "exit", "avoid", "abstain"}
Lists == {"holdings", "watchlist", "emerging"}

OpposeMin == 3      \* OPPOSE_MIN, 1.5
FlatEps == 1        \* FLAT_EPS, 0.5
Strong == 4         \* STRONG, 2.0
MinValidStates == 2
MinSources == 2

Tilt(a) ==
    CASE a = "buy_early" -> 2 [] a \in {"hold", "abstain"} -> 0
      [] a \in {"trim", "avoid"} -> -1 [] a = "exit" -> -2

Magnitude(n) == IF n < 0 THEN -n ELSE n

-----------------------------------------------------------------------------
\* state_tokens: the gate and the states that are not neutral, trend factor aside.
Tokens(b) ==
    (IF b.gate = "unknown" THEN {} ELSE {<<"trend", b.gate>>})
    \cup {<<s.factor, s.level>> : s \in {t \in b.states : /\ t.level # "neutral"
                                                          /\ t.factor # "trend"}}

Blind(b) == b.gate = "unknown" \/ Cardinality(b.states) < MinValidStates

OpposingExtremes(bull, bear) ==
    bull >= OpposeMin /\ bear >= OpposeMin /\ Magnitude(bull - bear) =< FlatEps

\* _conservative: the order nearer inaction; opposite sides cancel.
Conservative(a, c) ==
    IF Tilt(a) * Tilt(c) < 0 THEN "abstain"
    ELSE IF Magnitude(Tilt(a)) =< Magnitude(Tilt(c)) THEN a ELSE c

\* _debias: one proposal out of the two presentation orders.
Debias(fwd, rev) ==
    [action |-> IF fwd.action = rev.action THEN fwd.action
                ELSE Conservative(fwd.action, rev.action),
     confidence |-> (fwd.confidence + rev.confidence) \div 2]

\* _run_debate: strong cases that cancel never reach the synthesis.
RunDebate(bull, bear, fwd, rev) ==
    IF OpposingExtremes(bull, bear) THEN [action |-> "abstain", confidence |-> 0]
    ELSE Debias(fwd, rev)

-----------------------------------------------------------------------------
\* FakeProvider: the offline seats vote by band and the synthesis nets the votes.
Vote(s) ==
    LET step == CASE s.level = "extreme_high" -> 2 [] s.level = "high" -> 1
                  [] s.level = "low" -> -1 [] s.level = "extreme_low" -> -2
                  [] OTHER -> 0
    IN  CASE s.factor = "reversal" -> -2 * step
          [] s.factor = "macro" -> -step
          [] s.factor = "trend" /\ step # 0 -> IF s.dir = "uptrend" THEN 2 ELSE -2
          [] OTHER -> 0

\* argue: one side's supporting votes.
Bull(b) == MapThenSumSet(Vote, {s \in b.states : Vote(s) > 0})
Bear(b) == -MapThenSumSet(Vote, {s \in b.states : Vote(s) < 0})

NetToAction(net, owned) ==
    IF owned
    THEN IF net =< -Strong THEN "exit" ELSE IF net =< -FlatEps THEN "trim" ELSE "hold"
    ELSE IF net >= Strong THEN "buy_early"
         ELSE IF net =< -FlatEps THEN "avoid" ELSE "hold"

\* synthesize: 0.5 + 0.1 for every point of the net read, at most 0.85.
FakeProposal(b) ==
    LET net == Bull(b) - Bear(b)  conf == 50 + 5 * Magnitude(net)
    IN  [action |-> NetToAction(net, b.list = "holdings"),
         confidence |-> IF conf > 85 THEN 85 ELSE conf]

FakeDebate(b) == RunDebate(Bull(b), Bear(b), FakeProposal(b), FakeProposal(b))

-----------------------------------------------------------------------------
\* Mutant: the cap looks at the funds already held only.
EnforceGateHeld(a, b) ==
    IF b.gate = "capped" /\ a = "buy_early" /\ b.list = "holdings" THEN "hold" ELSE a

EnforceGate(a, b) ==
    IF b.gate = "capped" /\ a = "buy_early"
    THEN IF b.list = "holdings" THEN "hold" ELSE "avoid"
    ELSE a

IsStale(b) == b.evidence # {} /\ b.as_of - Max({e.as_of : e \in b.evidence}) > StaleAge
IsSingleSource(b) == Cardinality({e.src : e \in b.evidence}) < MinSources
IsConflict(b) == {"extreme_high", "extreme_low"} \subseteq {s.level : s \in b.states}
IsForumOnly(b) == b.evidence # {} /\ \A e \in b.evidence : e.src \in ForumSrc

\* auto_downgrade, in twentieths of each condition: 0.85, 0.9, 0.85, 0.8.
KeepWhole == 20 * 20 * 20 * 20
AutoDowngrade(b) ==
    (IF IsStale(b) THEN 17 ELSE 20) * (IF IsSingleSource(b) THEN 18 ELSE 20)
    * (IF IsConflict(b) THEN 17 ELSE 20) * (IF IsForumOnly(b) THEN 16 ELSE 20)

\* Fine units of a confidence in a hundredth: what AutoDowngrade keeps of it, and the
\* two halvings of the mirror, are whole.
Fine == 4 * KeepWhole

\* A tenth ends where the double nearest to its middle lies: 0.85 rounds to 0.8.
MiddleGoesUp == {0, 4, 5, 6, 7}

\* The tenth a confidence is bucketed under, as hundredths: round(confidence, 1).
Bucket(c) ==
    LET tenth == c \div (10 * Fine)  over == c % (10 * Fine)
    IN  IF over > 5 * Fine \/ (over = 5 * Fine /\ tenth \in MiddleGoesUp)
        THEN 10 * (tenth + 1) ELSE 10 * tenth

Matching(m, c) == {r \in m.reliability : r.bucket = Bucket(c)}

\* confidence_nudge: half of the way to the realised rate of its bucket.
Nudge(m, c) ==
    IF Matching(m, c) = {} THEN c
    ELSE (c + (CHOOSE r \in Matching(m, c) : TRUE).realised) \div 2

\* dampen_for_weak_pattern: an item that shows a whole flagged pattern.
Dampen(m, c, tokens) ==
    IF \E p \in m.weak : p # {} /\ p \subseteq tokens THEN c \div 2 ELSE c

ApplyScorecard(m, c, tokens) == Dampen(m, Nudge(m, c), tokens)

Abstention == [action |-> "abstain", confidence |-> 0]

\* Mutant: an item the mirror is wary of is held back to a hold.
ApplyGuardrailsWary(b, d) ==
    LET act == EnforceGate(d.action, b)
        conf == ApplyScorecard(b.mirror, 4 * d.confidence * AutoDowngrade(b), Tokens(b))
    IN  IF act = "abstain" THEN Abstention
        ELSE [action |-> IF conf < 30 * Fine THEN "hold" ELSE act, confidence |-> conf]

\* _apply_guardrails: the gate, then the two channels of the confidence.
ApplyGuardrails(b, d) ==
    LET act == EnforceGate(d.action, b)
    IN  IF act = "abstain" THEN Abstention
        ELSE [action |-> act,
              confidence |-> ApplyScorecard(b.mirror, 4 * d.confidence * AutoDowngrade(b),
                                            Tokens(b))]

\* digest_item, once the debate `d` is to hand, fresh or from the cache.
Digest(b, d) == IF Blind(b) THEN Abstention ELSE ApplyGuardrails(b, d)
=============================================================================
