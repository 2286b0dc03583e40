----------------------------- MODULE MirrorProofs -----------------------------
(***************************************************************************)
(* What the guardrails and the self-scoring loop promise, for any bars,     *)
(* books, answers of the seats, lists and horizons.                         *)
(*                                                                         *)
(* The gate is decided on the brief and enforced on whatever the debate     *)
(* says (GateCaps). What a night reads as of its date rests on the last     *)
(* marks of dates up to its own, which no later bar moves (MarkStands); a   *)
(* bar of the window moves them, but never to nothing (MarkMoves).          *)
(***************************************************************************)
EXTENDS Mirror, WellFoundedInduction, FiniteSetTheorems, TLAPS

Stamped(rs) == \A r \in rs : r.as_of \in Nat /\ r.fetched_at \in Nat

\* Bars and calls are dated.
MInv ==
    /\ day \in Nat \ {0} /\ pulls \in Nat
    /\ Stamped(rows) /\ \A c \in calls : c.as_of \in Nat

\* The seed bar is dated.
LEMMA DatedInit == Init => MInv
BY DEF Init, MInv, Stamped, Bar

\* A step brings one bar, or calls of one night, or the next day.
LEMMA OneBar ==
    ASSUME MInv, NEW date \in 1..day, NEW nav \in Nav, NEW settled \in BOOLEAN,
           Pull(date, nav, settled)
    PROVE  \E n : /\ n.as_of \in Nat /\ n.fetched_at \in Nat
                  /\ rows' = rows \/ rows' = rows \cup {n}
<1> DEFINE n == Bar(date, pulls', nav, settled)
<1>1. rows' = AppendTo(rows, {n})  BY DEF Pull
<1>2. rows' = rows \/ rows' = rows \cup {n}
  <2> HIDE DEF n
  <2>. QED  BY <1>1 DEF AppendTo
<1>3. n.as_of \in Nat /\ n.fetched_at \in Nat  BY DEF Pull, MInv, Bar
<1>. HIDE DEF n
<1>. QED  BY <1>2, <1>3

\* The calls a night logs are dated that night, and say what the guarded digest of its
\* brief says.
LEMMA NightCalls ==
    ASSUME NEW asOf \in 1..day, Night(asOf)
    PROVE  /\ calls \subseteq calls' /\ rows' = rows /\ day' = day /\ pulls' = pulls
           /\ \A c \in calls' \ calls :
                /\ c.as_of = asOf
                /\ \E b, d : /\ b.gate = Gate(PriceNavs(rows, asOf))
                             /\ c.action = Digest(b, d).action
<1>1. PICK l \in ItemLists, book \in Books :
        LET b == Brief(asOf, Reads(asOf), l, book)
        IN  \E d \in DebatesOf(b) :
              calls' = calls \cup
                 {[as_of |-> asOf, action |-> Digest(b, d).action,
                   confidence |-> (Digest(b, d).confidence + Bp \div 2) \div Bp,
                   pattern |-> Tokens(b)]}
  BY Zenon DEF Night
<1> DEFINE b == Brief(asOf, Reads(asOf), l, book)
<1>2. PICK d : calls' = calls \cup
                 {[as_of |-> asOf, action |-> Digest(b, d).action,
                   confidence |-> (Digest(b, d).confidence + Bp \div 2) \div Bp,
                   pattern |-> Tokens(b)]}
  BY <1>1, Zenon
<1>3. b.gate = Gate(PriceNavs(rows, asOf))  BY DEF Brief, Reads
<1>4. rows' = rows /\ day' = day /\ pulls' = pulls  BY DEF Night
<1>. HIDE DEF b
<1>. QED  BY <1>2, <1>3, <1>4

\* Bars and calls stay dated.
LEMMA DatedStep == MInv /\ [Next]_vars => MInv'
<1>. SUFFICES ASSUME MInv, [Next]_vars  PROVE MInv'  OBVIOUS
<1>1. ASSUME NEW date \in 1..day, NEW nav \in Nav, NEW settled \in BOOLEAN,
             Pull(date, nav, settled)
      PROVE  MInv'
  <2>1. PICK n : /\ n.as_of \in Nat /\ n.fetched_at \in Nat
                 /\ rows' = rows \/ rows' = rows \cup {n}
    BY <1>1, OneBar
  <2>2. Stamped(rows')  BY <2>1 DEF MInv, Stamped
  <2>3. day' = day /\ calls' = calls /\ pulls' = pulls + 1  BY <1>1 DEF Pull
  <2>. QED  BY <2>2, <2>3 DEF MInv
<1>2. ASSUME NEW asOf \in 1..day, Night(asOf)  PROVE MInv'
  BY <1>2, NightCalls DEF MInv, Stamped
<1>3. CASE NextDay  BY <1>3 DEF NextDay, MInv, Stamped
<1>4. CASE UNCHANGED vars  BY <1>4 DEF vars, MInv, Stamped
<1>. QED  BY <1>1, <1>2, <1>3, <1>4 DEF Next

-----------------------------------------------------------------------------
(* The guardrails, for every brief and every debate *)

\* A capped gate never buys and an unknown one abstains, whatever the debate and the
\* mirror say (_enforce_gate, digest_item's blind branch).
LEMMA GateCaps ==
    ASSUME NEW b, NEW d
    PROVE  /\ b.gate = "capped" => Digest(b, d).action # "buy_early"
           /\ b.gate = "unknown" => Digest(b, d).action = "abstain"
BY DEF Digest, ApplyGuardrails, EnforceGate, Abstention, Blind

\* The scorecard bears on the confidence alone, for any scorecards and any brief
\* (scorecard.py: it "can never change a factor state, open the trend gate").
THEOREM MirrorLeavesTheAction ==
    ASSUME NEW list, NEW states, NEW gate, NEW evidence, NEW asOf, NEW m, NEW n, NEW d
    PROVE  LET brief(x) == [as_of |-> asOf, list |-> list, states |-> states,
                            gate |-> gate, evidence |-> evidence, mirror |-> x]
           IN  Digest(brief(m), d).action = Digest(brief(n), d).action
BY DEF Digest, ApplyGuardrails, EnforceGate, Abstention, Blind

\* Two orders that disagree never push further from inaction than either of them
\* (_conservative).
THEOREM ConservativeIsNearer ==
    ASSUME NEW a \in Actions, NEW c \in Actions
    PROVE  /\ Conservative(a, c) \in {a, c, "abstain"}
           /\ Magnitude(Tilt(Conservative(a, c))) =< Magnitude(Tilt(a))
           /\ Magnitude(Tilt(Conservative(a, c))) =< Magnitude(Tilt(c))
<1> DEFINE C == Conservative(a, c)
           D == Tilt(a) * Tilt(c) < 0
<1>1. Tilt(a) \in Int /\ Tilt(c) \in Int /\ Tilt("abstain") = 0  BY DEF Actions, Tilt
<1>2. CASE D
  <2>1. C = "abstain"  BY <1>2 DEF Conservative
  <2>. QED  BY <1>1, <2>1 DEF Magnitude
<1>3. CASE ~D
  <2>1. C = IF Magnitude(Tilt(a)) =< Magnitude(Tilt(c)) THEN a ELSE c
    BY <1>3 DEF Conservative
  <2>2. CASE Magnitude(Tilt(a)) =< Magnitude(Tilt(c))
    <3>1. C = a  BY <2>1, <2>2
    <3>. QED  BY <2>2, <3>1, <1>1 DEF Magnitude
  <2>3. CASE ~(Magnitude(Tilt(a)) =< Magnitude(Tilt(c)))
    <3>1. C = c  BY <2>1, <2>3
    <3>. QED  BY <2>3, <3>1, <1>1 DEF Magnitude
  <2>. QED  BY <2>2, <2>3
<1>. QED  BY <1>2, <1>3

\* Half of the way to the realised rate of its bucket never lifts a confidence above
\* both (confidence_nudge), and a weak pattern only lowers it (dampen_for_weak_pattern).
THEOREM NudgeBounded ==
    ASSUME NEW m, NEW c \in Nat, NEW tokens,
           \A r \in m.reliability : r.realised \in Nat
    PROVE  /\ ApplyScorecard(m, c, tokens) \in Nat
           /\ \/ ApplyScorecard(m, c, tokens) =< c
              \/ \E r \in m.reliability : ApplyScorecard(m, c, tokens) =< r.realised
<1>1. CASE Matching(m, c) = {}
  BY <1>1 DEF ApplyScorecard, Dampen, Nudge
<1>2. CASE Matching(m, c) # {}
  <2>1. PICK r \in m.reliability : Nudge(m, c) = (c + r.realised) \div 2
    BY <1>2 DEF Nudge, Matching
  <2>2. Nudge(m, c) \in Nat /\ (Nudge(m, c) =< c \/ Nudge(m, c) =< r.realised)
    BY <2>1
  <2>3. ApplyScorecard(m, c, tokens) \in {Nudge(m, c), Nudge(m, c) \div 2}
    BY DEF ApplyScorecard, Dampen
  <2>. QED  BY <2>2, <2>3
<1>. QED  BY <1>1, <1>2

\* No call of any night buys a fund under its average, or judges one without enough bars.
THEOREM CappedNeverBought == Spec => CappedFundsAreNeverBought
<1>1. ASSUME NEW asOf \in 1..day, Night(asOf), NEW c \in calls' \ calls
      PROVE  LET gate == Gate(PriceNavs(rows, c.as_of))
             IN  /\ gate = "capped" => c.action # "buy_early"
                 /\ gate = "unknown" => c.action = "abstain"
  <2>1. PICK b, d : /\ c.as_of = asOf /\ b.gate = Gate(PriceNavs(rows, asOf))
                    /\ c.action = Digest(b, d).action
    BY <1>1, NightCalls
  <2>. QED  BY <2>1, GateCaps
<1>2. [Next]_vars =>
        [\A c \in calls' \ calls :
           LET gate == Gate(PriceNavs(rows, c.as_of))
           IN  /\ gate = "capped" => c.action # "buy_early"
               /\ gate = "unknown" => c.action = "abstain"]_vars
  BY <1>1 DEF Next, Pull, NextDay
<1>. QED  BY <1>2, PTL DEF Spec, CappedFundsAreNeverBought
-----------------------------------------------------------------------------
(* Point in time *)

\* A later row does not move the last mark of a date.
LEMMA MarkStands ==
    ASSUME NEW rs, NEW rt, Stamped(rt), rs \subseteq rt, NEW date \in Nat,
           \A r \in rt \ rs : r.as_of > date
    PROVE  Mark(rt, date) = Mark(rs, date)
BY DEF Mark, Stamped

\* Nor the marks of a call that resolves up to that date, nor its outcome.
LEMMA OutcomeStands ==
    ASSUME NEW rs, NEW rt, Stamped(rt), rs \subseteq rt, NEW c, c.as_of \in Nat,
           NEW asOf \in Nat, NEW later \in Nat, c.as_of + Horizon =< asOf => asOf =< later,
           c.as_of + Horizon > asOf => c.as_of + Horizon > later,
           \A r \in rt \ rs : r.as_of > c.as_of + Horizon \/ r.as_of > asOf
    PROVE  Outcome(rt, c, later) = Outcome(rs, c, asOf)
<1>1. Horizon \in Nat  BY MirrorAssumption
<1>2. CASE c.as_of + Horizon > asOf
  BY <1>1, <1>2 DEF Outcome, ForwardMarks
<1>3. CASE c.as_of + Horizon =< asOf
  <2>1. \A r \in rt \ rs : r.as_of > c.as_of /\ r.as_of > c.as_of + Horizon
    BY <1>1, <1>3 DEF Stamped
  <2>2. /\ Mark(rt, c.as_of) = Mark(rs, c.as_of)
        /\ Mark(rt, c.as_of + Horizon) = Mark(rs, c.as_of + Horizon)
    BY <1>1, <2>1, MarkStands
  <2>3. ForwardMarks(rt, c, later) = ForwardMarks(rs, c, asOf)
    BY <1>1, <1>3, <2>2 DEF ForwardMarks
  <2>. QED  BY <2>3 DEF Outcome
<1>. QED  BY <1>1, <1>2, <1>3

\* What no outcome of a group moves leaves its hits alone.
LEMMA HitsStand ==
    ASSUME NEW rs, NEW rt, NEW cs, NEW asOf,
           \A c \in cs : Outcome(rt, c, asOf) = Outcome(rs, c, asOf)
    PROVE  Hits(rt, cs, asOf) = Hits(rs, cs, asOf)
<1>1. {c \in cs : Outcome(rt, c, asOf) = "hit"} = {c \in cs : Outcome(rs, c, asOf) = "hit"}
  OBVIOUS
<1>. QED  BY <1>1 DEF Hits

\* The scorecard of a date reads no row and no call dated after it.
LEMMA ScorecardStands ==
    ASSUME NEW rs, NEW rt, Stamped(rt), rs \subseteq rt,
           NEW cs, NEW ct, cs \subseteq ct, \A c \in ct : c.as_of \in Nat,
           NEW asOf \in Nat,
           \A r \in rt \ rs : r.as_of > asOf,
           \A c \in ct \ cs : c.as_of > asOf
    PROVE  BuildScorecard(rt, ct, asOf) = BuildScorecard(rs, cs, asOf)
<1>1. \A c \in ct : Outcome(rt, c, asOf) = Outcome(rs, c, asOf)
  BY OutcomeStands
<1>2. Decided(rt, ct, asOf) = Decided(rs, cs, asOf)
  BY <1>1 DEF Decided
<1> DEFINE D == Decided(rs, cs, asOf)
<1>3. \A c \in D : Outcome(rt, c, asOf) = Outcome(rs, c, asOf)
  BY <1>1 DEF Decided
<1>4. \A S \in SUBSET D : Hits(rt, S, asOf) = Hits(rs, S, asOf)
  <2>. HIDE DEF D
  <2>. QED  BY <1>3, HitsStand
<1>. HIDE DEF D
<1>5. ReliabilityBuckets(rt, D, asOf) = ReliabilityBuckets(rs, D, asOf)
  <2> DEFINE group(k) == {c \in D : Bucket(c.confidence * Bp) = k}
  <2>1. \A k : Hits(rt, group(k), asOf) = Hits(rs, group(k), asOf)  BY <1>4
  <2> DEFINE K == {k \in {Bucket(c.confidence * Bp) : c \in D} :
                      Cardinality(group(k)) >= BucketMinN}
  <2> DEFINE rate(rows1, k) ==
               [bucket |-> k,
                realised |-> (100 * Fine * Hits(rows1, group(k), asOf))
                                \div Cardinality(group(k))]
  <2>2. \A k : rate(rt, k) = rate(rs, k)  BY <2>1
  <2>3. ReliabilityBuckets(rt, D, asOf) = {rate(rt, k) : k \in K}
    BY DEF ReliabilityBuckets
  <2>4. ReliabilityBuckets(rs, D, asOf) = {rate(rs, k) : k \in K}
    BY DEF ReliabilityBuckets
  <2>. HIDE DEF rate, K
  <2>. QED  BY <2>2, <2>3, <2>4
<1>6. WeakPatterns(rt, D, asOf) = WeakPatterns(rs, D, asOf)
  <2> DEFINE group(p) == {c \in D : c.pattern = p}
  <2>1. \A p : Hits(rt, group(p), asOf) = Hits(rs, group(p), asOf)  BY <1>4
  <2> DEFINE over(p, hits) ==
               /\ Cardinality(group(p)) >= PatternMinN
               /\ MapThenSumSet(LAMBDA c : c.confidence, group(p)) - 10000 * hits
                    > 1000 * Cardinality(group(p))
  <2> DEFINE seen == {c.pattern : c \in D}
  <2>2. WeakPatterns(rt, D, asOf) = {p \in seen : over(p, Hits(rt, group(p), asOf))}
    BY DEF WeakPatterns
  <2>3. WeakPatterns(rs, D, asOf) = {p \in seen : over(p, Hits(rs, group(p), asOf))}
    BY DEF WeakPatterns
  <2>. HIDE DEF over, seen, group
  <2>. QED  BY <2>1, <2>2, <2>3
<1>. QED  BY <1>2, <1>5, <1>6 DEF BuildScorecard, D

\* What a night reads as of its date is moved by no bar and no call dated after it.
THEOREM BriefStands == Spec => LaterNeverMovesTheBrief
<1> DEFINE Quiet(asOf) == /\ \A r \in rows' \ rows : r.as_of > asOf
                         /\ \A c \in calls' \ calls : c.as_of > asOf
<1>1. MInv /\ [Next]_vars => rows \subseteq rows' /\ calls \subseteq calls'
  <2>1. ASSUME NEW date \in 1..day, NEW nav \in Nav, NEW settled \in BOOLEAN,
               Pull(date, nav, settled)
        PROVE  rows \subseteq rows' /\ calls \subseteq calls'
    BY <2>1 DEF Pull, AppendTo
  <2>. QED  BY <2>1, NightCalls DEF Next, NextDay, vars
<1>2. ASSUME MInv, [Next]_vars, NEW asOf \in 1..(day - 1), Quiet(asOf)
      PROVE  Reads(asOf)' = Reads(asOf)
  <2>1. MInv'  BY <1>2, DatedStep
  <2>2. rows \subseteq rows' /\ calls \subseteq calls'  BY <1>1, <1>2
  <2>3. asOf \in Nat  BY <1>2 DEF MInv
  <2>4. BuildScorecard(rows', calls', asOf) = BuildScorecard(rows, calls, asOf)
    BY <1>2, <2>1, <2>2, <2>3, ScorecardStands DEF MInv
  <2>5. Mark(rows', asOf) = Mark(rows, asOf)
    BY <1>2, <2>1, <2>2, <2>3, MarkStands DEF MInv
  <2>6. {r \in rows' : r.as_of =< asOf} = {r \in rows : r.as_of =< asOf}
    BY <1>2, <2>1, <2>2, <2>3 DEF MInv, Stamped
  <2>. QED  BY <2>4, <2>5, <2>6 DEF Reads, PriceNavs
<1>3. MInv /\ [Next]_vars =>
        [\A asOf \in 1..(day - 1) :
           (/\ \A r \in rows' \ rows : r.as_of > asOf
            /\ \A c \in calls' \ calls : c.as_of > asOf)
               => Reads(asOf)' = Reads(asOf)]_vars
  BY <1>2
<1>. QED  BY <1>3, DatedInit, DatedStep, PTL DEF Spec, LaterNeverMovesTheBrief
-----------------------------------------------------------------------------
(* Settled outcomes *)

\* One more row leaves a date its last mark, or is that mark itself.
LEMMA MarkMoves ==
    ASSUME NEW rs, Stamped(rs), NEW n, n.as_of \in Nat, n.fetched_at \in Nat,
           NEW date \in Nat, NEW e \in Mark(rs, date)
    PROVE  \E f \in Mark(rs \cup {n}, date) : f.as_of >= e.as_of
<1>1. e \in rs /\ e.as_of \in Nat /\ e.fetched_at \in Nat /\ e.as_of =< date
  BY DEF Mark, Stamped
<1>2. CASE n.as_of =< date /\ NotBefore(e, n)
  <2>1. n \in Mark(rs \cup {n}, date)  BY <1>1, <1>2 DEF Mark, Stamped, NotBefore
  <2>. QED  BY <2>1, <1>1, <1>2 DEF NotBefore
<1>3. CASE ~(n.as_of =< date /\ NotBefore(e, n))
  <2>1. e \in Mark(rs \cup {n}, date)  BY <1>1, <1>3 DEF Mark, Stamped, NotBefore
  <2>. QED  BY <2>1, <1>1
<1>. QED  BY <1>2, <1>3

\* A resolved call stays resolved whatever bar comes.
LEMMA ResolvedStays ==
    ASSUME NEW rs, Stamped(rs), NEW n, n.as_of \in Nat, n.fetched_at \in Nat,
           NEW c, c.as_of \in Nat, NEW asOf \in Nat,
           Outcome(rs, c, asOf) # "pending"
    PROVE  Outcome(rs \cup {n}, c, asOf) # "pending"
<1>1. Horizon \in Nat  BY MirrorAssumption
<1>2. CASE c.action = "abstain"  BY <1>2 DEF Outcome
<1>3. CASE c.action # "abstain"
  <2>1. ForwardMarks(rs, c, asOf) # {}  BY <1>3 DEF Outcome
  <2>2. c.as_of + Horizon =< asOf  BY <1>1, <2>1 DEF ForwardMarks
  <2>3. PICK e \in Mark(rs, c.as_of), x \in Mark(rs, c.as_of + Horizon) : x.as_of > e.as_of
    BY <2>1, <2>2 DEF ForwardMarks
  <2>4. x.as_of \in Nat /\ e.as_of \in Nat  BY <2>3 DEF Mark, Stamped
  <2>5. x.as_of > c.as_of  BY <2>3, <2>4 DEF Mark, NotBefore
  <2>6. PICK y \in Mark(rs \cup {n}, c.as_of + Horizon) : y.as_of >= x.as_of
    BY <1>1, MarkMoves
  <2>7. PICK f \in Mark(rs \cup {n}, c.as_of) : TRUE  BY MarkMoves
  <2>8. f.as_of =< c.as_of /\ f.as_of \in Nat /\ y.as_of \in Nat
    BY DEF Mark, Stamped
  <2>9. y.as_of > f.as_of  BY <2>4, <2>5, <2>6, <2>8
  <2>10. <<f, y>> \in ForwardMarks(rs \cup {n}, c, asOf)
    <3>1. ~(c.as_of + Horizon > asOf)  BY <1>1, <2>2
    <3> DEFINE p == <<f, y>>
    <3>2. /\ p \in Mark(rs \cup {n}, c.as_of) \X Mark(rs \cup {n}, c.as_of + Horizon)
          /\ p[2].as_of > p[1].as_of
      BY <2>9
    <3>. HIDE DEF p
    <3>. QED  BY <3>1, <3>2 DEF ForwardMarks, p
  <2>. QED  BY <1>3, <2>10 DEF Outcome, ClassifyOutcome
<1>. QED  BY <1>2, <1>3

\* The outcome of a resolved call is moved by nothing but a bar of its window.
THEOREM SettledStands == Spec => SettledMovedOnlyByItsWindow
<1> DEFINE Stands(c) ==
      Outcome(rows, c, day) # "pending"
        => LET after == Outcome(rows', c, day')
           IN  /\ after # "pending"
               /\ \/ after = Outcome(rows, c, day)
                  \/ \E r \in rows' \ rows : r.as_of =< c.as_of + Horizon
<1>1. ASSUME MInv, NEW c \in calls, rows' = rows, day' \in {day, day + 1}
      PROVE  Stands(c)
  <2>1. CASE c.action = "abstain"  BY <2>1 DEF Outcome
  <2>2. CASE Outcome(rows, c, day) = "pending"  BY <2>2
  <2>3. CASE c.action # "abstain" /\ Outcome(rows, c, day) # "pending"
    <3>1. c.as_of + Horizon =< day
      BY <1>1, <2>3, MirrorAssumption DEF Outcome, ForwardMarks, MInv
    <3>2. ~(c.as_of + Horizon > day) /\ ~(c.as_of + Horizon > day')
      BY <1>1, <3>1, MirrorAssumption DEF MInv
    <3>3. ForwardMarks(rows, c, day') = ForwardMarks(rows, c, day)
      BY <3>2 DEF ForwardMarks
    <3>4. Outcome(rows, c, day') = Outcome(rows, c, day)  BY <3>3 DEF Outcome
    <3>. QED  BY <1>1, <2>3, <3>4
  <2>. QED  BY <2>1, <2>2, <2>3
<1>2. ASSUME MInv, NEW c \in calls, day' = day,
             NEW n, n.as_of \in Nat, n.fetched_at \in Nat, rows' = rows \cup {n}
      PROVE  Stands(c)
  <2>1. Stamped(rows') /\ c.as_of \in Nat /\ day \in Nat /\ Horizon \in Nat
    BY <1>2, MirrorAssumption DEF MInv, Stamped
  <2>2. Outcome(rows, c, day) # "pending" => Outcome(rows', c, day) # "pending"
    BY <1>2, <2>1, ResolvedStays DEF MInv
  <2>3. CASE \E r \in rows' \ rows : r.as_of =< c.as_of + Horizon
    BY <1>2, <2>2, <2>3
  <2>4. CASE \A r \in rows' \ rows : ~(r.as_of =< c.as_of + Horizon)
    <3>1. \A r \in rows' \ rows : r.as_of > c.as_of + Horizon
      BY <2>1, <2>4 DEF Stamped
    <3>2. Outcome(rows', c, day) = Outcome(rows, c, day)
      BY <1>2, <2>1, <3>1, OutcomeStands
    <3>. QED  BY <1>2, <2>2, <3>2
  <2>. QED  BY <2>3, <2>4
<1>3. MInv /\ [Next]_vars => [\A c \in calls : Stands(c)]_vars
  <2>. SUFFICES ASSUME MInv, Next, NEW c \in calls  PROVE Stands(c)  OBVIOUS
  <2>1. CASE \E asOf \in 1..day : Night(asOf)
    <3>1. rows' = rows /\ day' = day  BY <2>1, NightCalls
    <3>. HIDE DEF Stands
    <3>. QED  BY <3>1, <1>1
  <2>2. CASE NextDay
    <3>1. rows' = rows /\ day' = day + 1  BY <2>2 DEF NextDay
    <3>. HIDE DEF Stands
    <3>. QED  BY <3>1, <1>1
  <2>3. ASSUME NEW date \in 1..day, NEW nav \in Nav, NEW settled \in BOOLEAN,
               Pull(date, nav, settled)
        PROVE  Stands(c)
    <3>1. PICK n : /\ n.as_of \in Nat /\ n.fetched_at \in Nat
                   /\ rows' = rows \/ rows' = rows \cup {n}
      BY <2>3, OneBar
    <3>2. day' = day  BY <2>3 DEF Pull
    <3>. HIDE DEF Stands
    <3>. QED  BY <3>1, <3>2, <1>1, <1>2
  <2>. HIDE DEF Stands
  <2>. QED  BY <2>1, <2>2, <2>3 DEF Next
<1>. QED  BY <1>3, DatedInit, DatedStep, PTL DEF Spec, SettledMovedOnlyByItsWindow
-----------------------------------------------------------------------------
(* Sums over finite sets of integers *)

\* A set with 0 and every successor of its numbers has every number.
LEMMA Induct ==
    ASSUME NEW T, 0 \in T, \A n \in Nat : n \in T => n + 1 \in T
    PROVE  Nat \subseteq T
<1> DEFINE R == OpToRel(<, Nat)
           Bad == {n \in Nat : n \notin T}
<1>1. SUFFICES ASSUME Bad # {}  PROVE FALSE  OBVIOUS
<1>2. IsWellFoundedOn(R, Nat)  BY NatLessThanWellFounded
<1>3. Bad \subseteq Nat  OBVIOUS
<1> HIDE DEF Bad, R
<1>4. PICK n \in Bad : \A m \in Bad : <<m, n>> \notin R
  BY <1>1, <1>2, <1>3, WFMin
<1> USE DEF Bad
<1>5. n \in Nat /\ n \notin T /\ n # 0  OBVIOUS
<1>6. n - 1 \in Nat /\ n - 1 < n  BY <1>5
<1>7. <<n - 1, n>> \in R  BY <1>5, <1>6 DEF R, OpToRel
<1>8. n - 1 \in T  BY <1>4, <1>6, <1>7
<1>. QED  BY <1>5, <1>6, <1>8

\* What MapThenSumSet takes out of a set first.
Pick(s) == CHOOSE x \in s : TRUE

\* One unfolding, over the sets of D, of the function MapThenSumSet is defined by.
Unfold(u, D, f) == [s \in D |-> IF s = {} THEN 0 ELSE u[Pick(s)] + f[s \ {Pick(s)}]]

\* f is that function for the subsets of S.
IsFold(u, S, f) == f = Unfold(u, SUBSET S, f)

Sum(u, S) == MapThenSumSet(LAMBDA j : u[j], S)

TheFold(u, S) == CHOOSE f : IsFold(u, S, f)

\* The sum is the value of that function at the set.
LEMMA SumIsFold == ASSUME NEW u, NEW S  PROVE Sum(u, S) = TheFold(u, S)[S]
BY DEF Sum, TheFold, IsFold, Unfold, MapThenSumSet, MapThenFoldSet, Pick

\* What is taken out of a set was in it.
LEMMA PickIn == ASSUME NEW s, s # {}  PROVE Pick(s) \in s
BY DEF Pick

\* The fold of a finite set exists: it is built up by cardinality.
LEMMA FoldExists ==
    ASSUME NEW u, NEW S, IsFiniteSet(S)
    PROVE  IsFold(u, S, TheFold(u, S))
<1> DEFINE Small(n) == {s \in SUBSET S : Cardinality(s) =< n}
           Done == {n \in Nat : \E f : f = Unfold(u, Small(n), f)}
<1>1. \A s \in SUBSET S : IsFiniteSet(s) /\ Cardinality(s) \in Nat
  BY FS_Subset, FS_CardinalityType
<1>2. 0 \in Done
  <2> DEFINE f == [s \in Small(0) |-> 0]
  <2>1. \A s \in Small(0) : s = {}
    <3>1. ASSUME NEW s \in Small(0)  PROVE s = {}
      <4>1. IsFiniteSet(s) /\ Cardinality(s) = 0  BY <1>1
      <4>. QED  BY <4>1, FS_EmptySet
    <3>. QED  BY <3>1
  <2>2. f = Unfold(u, Small(0), f)  BY <2>1 DEF Unfold
  <2>. QED  BY <2>2
<1>3. ASSUME NEW n \in Nat, n \in Done  PROVE n + 1 \in Done
  <2>1. PICK f : f = Unfold(u, Small(n), f)  BY <1>3
  <2> DEFINE g == Unfold(u, Small(n + 1), f)
  <2>2. \A s \in Small(n) : s \in Small(n + 1) /\ g[s] = f[s]
    <3>1. ASSUME NEW s \in Small(n)  PROVE s \in Small(n + 1)  BY <1>1
    <3>. QED  BY <3>1, <2>1 DEF Unfold
  <2>3. ASSUME NEW s \in Small(n + 1), s # {}  PROVE s \ {Pick(s)} \in Small(n)
    <3>1. Pick(s) \in s  BY <2>3, PickIn
    <3>2. Cardinality(s \ {Pick(s)}) = Cardinality(s) - 1
      BY <3>1, <1>1, FS_RemoveElement
    <3>. QED  BY <3>2, <1>1
  <2>4. g = Unfold(u, Small(n + 1), g)
    <3> HIDE DEF Small
    <3>. QED  BY <2>2, <2>3 DEF Unfold
  <2>5. n + 1 \in Nat  OBVIOUS
  <2> HIDE DEF g, Small
  <2>. QED  BY <2>4, <2>5
<1>4. Nat \subseteq Done
  <2> HIDE DEF Done
  <2>. QED  BY <1>2, <1>3, Induct
<1>5. Cardinality(S) \in Done  BY <1>1, <1>4
<1>6. Small(Cardinality(S)) = SUBSET S  BY FS_Subset
<1>7. \E f : IsFold(u, S, f)  BY <1>5, <1>6 DEF IsFold
<1>. QED  BY <1>7 DEF TheFold


\* A sum of integers is one.
LEMMA SumTyped ==
    ASSUME NEW S, IsFiniteSet(S), NEW u, \A x \in S : u[x] \in Int
    PROVE  Sum(u, S) \in Int
<1> DEFINE f == TheFold(u, S)
           Done == {n \in Nat : \A s \in SUBSET S : Cardinality(s) = n => f[s] \in Int}
<1>1. IsFold(u, S, f)  BY FoldExists
<1>2. \A s \in SUBSET S : IsFiniteSet(s) /\ Cardinality(s) \in Nat
  BY FS_Subset, FS_CardinalityType
<1> HIDE DEF f
<1>3. 0 \in Done
  <2>1. ASSUME NEW s \in SUBSET S, Cardinality(s) = 0  PROVE f[s] \in Int
    <3>1. s = {}  BY <2>1, <1>2, FS_EmptySet
    <3>. QED  BY <3>1, <1>1 DEF IsFold, Unfold
  <2>. QED  BY <2>1
<1>4. ASSUME NEW n \in Nat, n \in Done  PROVE n + 1 \in Done
  <2>1. ASSUME NEW s \in SUBSET S, Cardinality(s) = n + 1  PROVE f[s] \in Int
    <3>1. s # {}
      <4>1. n + 1 # 0  OBVIOUS
      <4>. QED  BY <4>1, <2>1, FS_EmptySet
    <3>2. Pick(s) \in s  BY <3>1, PickIn
    <3>3. Cardinality(s \ {Pick(s)}) = n
      <4>1. Cardinality(s \ {Pick(s)}) = Cardinality(s) - 1
        BY <3>2, <1>2, FS_RemoveElement
      <4>. QED  BY <4>1, <2>1
    <3>4. f[s \ {Pick(s)}] \in Int  BY <3>3, <1>4
    <3>5. f[s] = u[Pick(s)] + f[s \ {Pick(s)}]  BY <3>1, <1>1 DEF IsFold, Unfold
    <3>. QED  BY <3>2, <3>4, <3>5
  <2>. QED  BY <2>1
<1>5. Nat \subseteq Done
  <2> HIDE DEF Done
  <2>. QED  BY <1>3, <1>4, Induct
<1>6. f[S] \in Int  BY <1>2, <1>5
<1>. QED  BY <1>6, SumIsFold DEF f

-----------------------------------------------------------------------------
(* The scorecard and the confidence *)

\* The offline seats vote in whole numbers.
LEMMA VoteTyped == \A s : Vote(s) \in Int
BY DEF Vote

\* Their votes for and against make a whole number.
LEMMA VotesTyped ==
    ASSUME NEW S, IsFiniteSet(S)
    PROVE  MapThenSumSet(Vote, S) \in Int
<1> DEFINE u == [s \in S |-> Vote(s)]
<1>1. \A x \in S : u[x] \in Int  BY VoteTyped
<1>2. Sum(u, S) \in Int
  <2> HIDE DEF u
  <2>. QED BY <1>1, SumTyped
<1>3. MapThenSumSet(Vote, S) = Sum(u, S)
  BY DEF Sum, MapThenSumSet, MapThenFoldSet
<1>. QED  BY <1>2, <1>3

\* A confidence out of the offline provider, or out of a model's seats, is a number.
LEMMA DebateTyped ==
    ASSUME NEW b, IsFiniteSet(b.states), NEW d \in DebatesOf(b)
    PROVE  d.confidence \in Nat
<1>1. CASE d = FakeDebate(b)
  <2> DEFINE p == FakeProposal(b)
  <2>1. Bull(b) \in Int /\ Bear(b) \in Int
    <3>1. /\ IsFiniteSet({s \in b.states : Vote(s) > 0})
          /\ IsFiniteSet({s \in b.states : Vote(s) < 0})
      BY FS_Subset
    <3>. QED  BY <3>1, VotesTyped DEF Bull, Bear
  <2>2. p.confidence \in Nat
    BY <2>1 DEF FakeProposal, Magnitude
  <2>3. d.confidence = 0 \/ d.confidence = (p.confidence + p.confidence) \div 2
    BY <1>1 DEF FakeDebate, RunDebate, Debias
  <2> HIDE DEF p
  <2>. QED  BY <2>2, <2>3
<1>2. CASE d # FakeDebate(b)
  <2>1. PICK s \in Seats : d = RunDebate(s.bull, s.bear, s.fwd, s.rev)
    BY <1>2 DEF DebatesOf
  <2>2. s.fwd.confidence \in Nat /\ s.rev.confidence \in Nat
    BY MirrorAssumption
  <2>3. d.confidence = 0 \/ d.confidence = (s.fwd.confidence + s.rev.confidence) \div 2
    BY <2>1 DEF RunDebate, Debias
  <2>4. (s.fwd.confidence + s.rev.confidence) \div 2 \in Nat  BY <2>2
  <2>. QED  BY <2>3, <2>4
<1>. QED  BY <1>1, <1>2

\* The guardrails keep a whole number of twentieths.
LEMMA DowngradeTyped == ASSUME NEW b  PROVE AutoDowngrade(b) \in Nat
<1> DEFINE x == IF IsStale(b) THEN 17 ELSE 20
           y == IF IsSingleSource(b) THEN 18 ELSE 20
           z == IF IsConflict(b) THEN 17 ELSE 20
           w == IF IsForumOnly(b) THEN 16 ELSE 20
<1>1. x \in {17, 20} /\ y \in {18, 20} /\ z \in {17, 20} /\ w \in {16, 20}  OBVIOUS
<1>2. AutoDowngrade(b) = x * y * z * w  BY DEF AutoDowngrade
<1> HIDE DEF x, y, z, w
<1>3. x * y \in Nat  BY <1>1
<1>4. (x * y) * z \in Nat  BY <1>1, <1>3
<1>5. ((x * y) * z) * w \in Nat  BY <1>1, <1>4
<1>. QED  BY <1>2, <1>5

\* The states of a brief are the few that its factors found.
LEMMA BriefFinite ==
    ASSUME NEW asOf, NEW reads, NEW l, NEW book \in Books
    PROVE  IsFiniteSet(Brief(asOf, reads, l, book).states)
<1>1. \A factor, h, min : IsFiniteSet(Ranked(factor, h, min))
  BY FS_EmptySet, FS_Singleton DEF Ranked
<1>2. \A levels : IsFiniteSet(CrossMarket(levels))
  BY <1>1, FS_EmptySet DEF CrossMarket
<1>3. \A h : /\ IsFiniteSet(Crowding(h)) /\ IsFiniteSet(Demand(h))
             /\ IsFiniteSet(Valuation(h)) /\ IsFiniteSet(Macro(h))
  BY <1>1 DEF Crowding, Demand, Valuation, Macro
<1>4. IsFiniteSet(BookStates(book))
  BY <1>2, <1>3, FS_Union DEF BookStates
<1>5. IsFiniteSet(Reversal(reads.navs)) /\ IsFiniteSet(TrendFactor(reads.navs))
  BY FS_EmptySet, FS_Singleton DEF Reversal, TrendFactor
<1>6. IsFiniteSet(PriceStates(reads.navs) \cup BookStates(book))
  BY <1>4, <1>5, FS_Union DEF PriceStates
<1>7. Brief(asOf, reads, l, book).states = PriceStates(reads.navs) \cup BookStates(book)
  BY DEF Brief, StatesOf
<1>. QED  BY <1>6, <1>7

\* A share of what was decided, in Fine units.
LEMMA RateTyped ==
    ASSUME NEW h \in Nat, NEW n \in Nat \ {0}
    PROVE  (100 * Fine * h) \div n \in Nat
<1>1. 100 * Fine = 64000000  BY DEF Fine, KeepWhole
<1> DEFINE x == (100 * Fine) * h
<1>2. x \in Nat  BY <1>1
<1> HIDE DEF x
<1>3. x \div n \in Nat  BY <1>2
<1>. QED  BY <1>3 DEF x

\* The scorecard holds rates: every bucket it shows counts some finite calls.
LEMMA RealisedTyped ==
    ASSUME NEW rs, NEW cs, IsFiniteSet(cs), NEW asOf,
           NEW r \in BuildScorecard(rs, cs, asOf).reliability
    PROVE  r.realised \in Nat
<1> DEFINE D == Decided(rs, cs, asOf)
           group(k) == {c \in D : Bucket(c.confidence * Bp) = k}
<1>1. IsFiniteSet(D)  BY FS_Subset DEF Decided
<1>2. \A k : IsFiniteSet(group(k)) /\ Cardinality(group(k)) \in Nat
  <2> HIDE DEF D
  <2>. QED  BY <1>1, FS_Subset, FS_CardinalityType
<1>3. \A k : Hits(rs, group(k), asOf) \in Nat
  <2>1. ASSUME NEW k  PROVE Hits(rs, group(k), asOf) \in Nat
    <3> DEFINE G == group(k)
    <3>1. IsFiniteSet(G)  BY <1>2
    <3> HIDE DEF G
    <3>2. IsFiniteSet({c \in G : Outcome(rs, c, asOf) = "hit"})  BY <3>1, FS_Subset
    <3>3. Hits(rs, G, asOf) \in Nat  BY <3>2, FS_CardinalityType DEF Hits
    <3>. QED  BY <3>3 DEF G
  <2>. QED  BY <2>1
<1>4. r \in ReliabilityBuckets(rs, D, asOf)
  BY DEF BuildScorecard, NoMirror
<1>5. PICK k : /\ r.realised = (100 * Fine * Hits(rs, group(k), asOf))
                                  \div Cardinality(group(k))
               /\ Cardinality(group(k)) >= BucketMinN
  <2> DEFINE K == {n \in {Bucket(c.confidence * Bp) : c \in D} :
                      Cardinality(group(n)) >= BucketMinN}
             rate(n) == [bucket |-> n,
                         realised |-> (100 * Fine * Hits(rs, group(n), asOf))
                                         \div Cardinality(group(n))]
  <2>1. ReliabilityBuckets(rs, D, asOf) = {rate(n) : n \in K}  BY DEF ReliabilityBuckets
  <2>2. PICK k \in K : r = rate(k)
    <3> HIDE DEF K, rate
    <3>. QED  BY <1>4, <2>1
  <2>3. r.realised = (100 * Fine * Hits(rs, group(k), asOf)) \div Cardinality(group(k))
    <3> HIDE DEF K, group
    <3>. QED  BY <2>2
  <2>4. Cardinality(group(k)) >= BucketMinN
    <3> HIDE DEF group, rate
    <3>. QED  OBVIOUS
  <2> HIDE DEF group
  <2>. QED  BY <2>3, <2>4
<1>6. Cardinality(group(k)) \in Nat \ {0}
  <2> DEFINE n == Cardinality(group(k))
  <2>1. n \in Nat /\ n >= BucketMinN  BY <1>2, <1>5
  <2> HIDE DEF n
  <2>2. n \in Nat \ {0}  BY <2>1, MirrorAssumption
  <2>. QED  BY <2>2 DEF n
<1> HIDE DEF group
<1>. QED  BY <1>3, <1>5, <1>6, RateTyped

\* The calls are few.
Few == IsFiniteSet(calls)

\* A night adds one.
LEMMA CallsFinite == Spec => []Few
<1>1. Init => Few  BY FS_EmptySet DEF Init, Few
<1>2. Few /\ [Next]_vars => Few'
  <2>. SUFFICES ASSUME IsFiniteSet(calls), [Next]_vars  PROVE IsFiniteSet(calls')
    BY DEF Few
  <2>1. ASSUME NEW asOf \in 1..day, Night(asOf)  PROVE IsFiniteSet(calls')
    <3>1. \E c : calls' = calls \cup {c}  BY <2>1, Zenon DEF Night
    <3>. QED  BY <3>1, FS_AddElement
  <2>2. CASE \E date \in 1..day, nav \in Nav, settled \in BOOLEAN : Pull(date, nav, settled)
    BY <2>2 DEF Pull
  <2>. QED  BY <2>1, <2>2 DEF Next, NextDay, vars
<1>. QED  BY <1>1, <1>2, PTL DEF Spec

\* Without a scorecard a confidence is what the guardrails leave of the debate's.
LEMMA BareIsPlain ==
    ASSUME NEW c, NEW tokens
    PROVE  ApplyScorecard(NoMirror, c, tokens) = c
BY DEF ApplyScorecard, Dampen, Nudge, Matching, NoMirror

\* The scorecard takes no lean to another action, and lifts its confidence at most to
\* what the bucket realised.
LEMMA ScorecardBounded ==
    ASSUME NEW asOf, NEW l, NEW states, NEW gate, NEW evidence, NEW m, NEW d,
           d.confidence \in Nat, \A r \in m.reliability : r.realised \in Nat
    PROVE  LET b == [as_of |-> asOf, list |-> l, states |-> states, gate |-> gate,
                     evidence |-> evidence, mirror |-> m]
               seen == Digest(b, d)
               bare == Digest([b EXCEPT !.mirror = NoMirror], d)
           IN  /\ seen.action = bare.action
               /\ \/ seen.confidence =< bare.confidence
                  \/ \E r \in m.reliability : seen.confidence =< r.realised
<1> DEFINE brief(x) == [as_of |-> asOf, list |-> l, states |-> states, gate |-> gate,
                        evidence |-> evidence, mirror |-> x]
           b == brief(m)
           n == brief(NoMirror)
           c == 4 * d.confidence * AutoDowngrade(b)
<1>1. [b EXCEPT !.mirror = NoMirror] = n  OBVIOUS
<1>2. Digest(b, d).action = Digest(n, d).action  BY MirrorLeavesTheAction
<1>3. c \in Nat
  <2>1. AutoDowngrade(b) \in Nat  BY DowngradeTyped
  <2> DEFINE k == AutoDowngrade(b)
  <2> HIDE DEF k
  <2>2. 4 * d.confidence \in Nat  OBVIOUS
  <2>3. (4 * d.confidence) * k \in Nat  BY <2>1, <2>2 DEF k
  <2>. QED  BY <2>3 DEF k
<1>4. /\ Tokens(n) = Tokens(b) /\ AutoDowngrade(n) = AutoDowngrade(b)
      /\ Blind(n) = Blind(b) /\ EnforceGate(d.action, n) = EnforceGate(d.action, b)
      /\ b.mirror = m /\ n.mirror = NoMirror
  BY DEF Tokens, AutoDowngrade, IsStale, IsSingleSource, IsConflict, IsForumOnly, Blind,
         EnforceGate
<1> DEFINE seen == ApplyScorecard(m, c, Tokens(b))
<1>5. seen =< c \/ \E r \in m.reliability : seen =< r.realised
  <2> HIDE DEF b, c
  <2>. QED  BY <1>3, NudgeBounded
<1>6. CASE Blind(b) \/ EnforceGate(d.action, b) = "abstain"
  <2>1. Digest(b, d) = Abstention /\ Digest(n, d) = Abstention
    <3> HIDE DEF b, n
    <3>. QED  BY <1>4, <1>6 DEF Digest, ApplyGuardrails
  <2>2. Digest(b, d).confidence = 0 /\ Digest(n, d).confidence = 0
    <3> HIDE DEF b, n
    <3>. QED  BY <2>1 DEF Abstention
  <2>. QED  BY <1>1, <1>2, <2>2
<1>7. CASE ~(Blind(b) \/ EnforceGate(d.action, b) = "abstain")
  <2>1. Digest(b, d).confidence = seen /\ Digest(n, d).confidence = c
    <3> HIDE DEF b, n
    <3>. QED  BY <1>4, <1>7, BareIsPlain DEF Digest, ApplyGuardrails
  <2>. QED  BY <1>1, <1>2, <1>5, <2>1
<1>. QED  BY <1>6, <1>7

\* However the fund's calls came out, the scorecard changes no lean of any night, and
\* raises its confidence at most to the rate one of its buckets realised.
THEOREM MirrorBounded == Spec => []MirrorMovesOnlyConfidence
<1>1. Few => MirrorMovesOnlyConfidence
  <2> DEFINE reads == Reads(day)
  <2>. SUFFICES ASSUME IsFiniteSet(calls), NEW l \in ItemLists, NEW book \in Books,
                       NEW d \in DebatesOf(Brief(day, reads, l, book))
       PROVE  LET b == Brief(day, reads, l, book)
                  seen == Digest(b, d)
                  bare == Digest([b EXCEPT !.mirror = NoMirror], d)
              IN  /\ seen.action = bare.action
                  /\ \/ seen.confidence =< bare.confidence
                     \/ \E r \in reads.mirror.reliability : seen.confidence =< r.realised
    BY DEF MirrorMovesOnlyConfidence, Few
  <2>1. \A r \in reads.mirror.reliability : r.realised \in Nat
    BY RealisedTyped DEF Reads
  <2> HIDE DEF reads
  <2>2. d.confidence \in Nat  BY BriefFinite, DebateTyped
  <2> DEFINE states == PriceStates(reads.navs) \cup StatesOf[book]
             evidence == {[src |-> "akshare", as_of |-> r.as_of] : r \in reads.mark}
  <2>3. Brief(day, reads, l, book) =
          [as_of |-> day, list |-> l, states |-> states, gate |-> Gate(reads.navs),
           evidence |-> evidence, mirror |-> reads.mirror]
    BY DEF Brief
  <2> HIDE DEF states, evidence
  <2>. QED  BY <2>1, <2>2, <2>3, ScorecardBounded
<1>. QED  BY <1>1, CallsFinite, PTL
=============================================================================
