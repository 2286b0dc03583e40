------------------------------- MODULE Funnel -------------------------------
(***************************************************************************)
(* The three-stage funnel: a theme is qualified on its own (Stage A), its   *)
(* candidate funds are filtered, vetoed and ranked on a fixed scorecard     *)
(* (Stage B), and the finalists are re-ranked to the few the seats see      *)
(* (Stage 3). Fractions are in percent, sizes in hundredths of 亿, fees and *)
(* tracking errors in percent of their caps, scores in SCALE-ths.           *)
(***************************************************************************)
EXTENDS Universe, FiniteSetsExt

CONSTANTS
    Freshness,      \* FRESHNESS_WINDOW_DAYS
    Finalists,      \* FINALISTS
    TopN,           \* TOP_N
    NearMissN       \* NEAR_MISS_N

ASSUME FunnelAssumption ==
    /\ Freshness \in Nat /\ Finalists \in Nat
    /\ TopN \in Nat \ {0} /\ NearMissN \in Nat

AccelMin == 40
BreadthRef == 6
SignalMin == 50
BaseMax == 70
CrowdVeto == 70
AccelEstablished == 60
AumFloor == 500
AumRef == 6000
OverlapCap == 20
RunUpVeto == 50
PeVeto == 95
MinOverlap == 10

SCALE == 20000
TieBand == 2 * SCALE    \* 0.02 of a total, which is in SCALE * 100 ths

AtMost(bound, x) == IF x < bound THEN x ELSE bound
Clamp(x) == IF x < 0 THEN 0 ELSE AtMost(SCALE, x)

-----------------------------------------------------------------------------
(* Look-through *)

\* overlap_with: the weight a portfolio carries in the securities that match.
OverlapWith(portfolio, matching) ==
    LET names == DOMAIN portfolio \cap matching
    IN  [weight |-> MapThenSumSet(LAMBDA s : portfolio[s], names), names |-> names]

\* look_through: the weight through the funds of the book that hold the security, in value
\* times percent (the book's total is left out). A position is [held, value].
LookThrough(book, security) ==
    MapThenSumSet(LAMBDA p : p.held[security] * p.value,
                                {p \in book : security \in DOMAIN p.held})

\* The names I already own through my core.
Owned(book) ==
    {s \in UNION {DOMAIN p.held : p \in book} : LookThrough(book, s) > 0}

\* overlap_with_core: the names of the portfolio the book already owns.
OverlapWithCore(portfolio, owned) == OverlapWith(portfolio, owned)

\* _score of a link: overlap, confirmed by co-movement or halved without it.
LinkScore(overlap, corr) ==
    IF corr = Unread THEN 200 * overlap
    ELSE overlap * (100 + (IF corr > 0 THEN corr ELSE 0))

-----------------------------------------------------------------------------
(* Stage A *)

\* signal_strength, in sixths of a percent
SignalStrength(t) ==
    6 * t.acceleration + 100 * AtMost(BreadthRef, t.breadth) - 6 * t.crowding

Cresting(t) == t.crowding >= CrowdVeto /\ t.acceleration < AccelEstablished

\* qualify_theme: the first gate that fails, or "passed".
QualifyTheme(t) ==
    IF t.acceleration < AccelMin \/ t.base_level > BaseMax
       \/ SignalStrength(t) < 6 * SignalMin THEN "signal"
    ELSE IF Cresting(t) THEN "late_stage"
    ELSE IF ~(t.broad_adoption /\ t.path_to_profit /\ t.fad_resistant) THEN "durability"
    ELSE IF ~t.lead_chain THEN "lead_chain"
    ELSE IF ~t.wrapper_exists THEN "wrapper" ELSE "passed"

-----------------------------------------------------------------------------
(* Stage B *)

\* run_up of the trailing window, in percent; Missing when the history is too thin.
RunUp(navs, minSessions, window) ==
    LET n == Len(navs)
        base == navs[n - AtMost(n - 1, window)]
    IN  IF n < minSessions THEN Unread
        ELSE IF base =< 0 THEN Unread
        ELSE (100 * navs[n]) \div base - 100

Overheated(c) ==
    /\ c.run_up # Unread /\ c.pe_pctile # Missing
    /\ c.run_up >= RunUpVeto /\ c.pe_pctile >= PeVeto
LaunchedAtPeak(c, asOf) == Young(c.inception, asOf) /\ c.crowding >= CrowdVeto

\* coarse_filter and veto_funds
CoarseFilter(candidates) == {c \in candidates : c.aum >= AumFloor}
Vetoed(candidates, asOf) == {c \in candidates : Overheated(c) \/ LaunchedAtPeak(c, asOf)}

\* score_fund: seven criteria on fixed weights; `core` is the overlap with the book.
ScoreFund(c, core) ==
    LET total == 25 * Clamp(c.methodology)
               + 25 * (SCALE - AtMost(SCALE, (SCALE * core.weight) \div OverlapCap))
               + 10 * (SCALE - Clamp(200 * c.crowding))
               + 15 * (SCALE - AtMost(SCALE, 200 * c.fee))
               + 15 * AtMost(SCALE, (SCALE * c.aum) \div AumRef)
               +  5 * (SCALE - AtMost(SCALE, 200 * c.tracking_error))
               +  5 * Clamp(SCALE - 200 * c.top10_weight)
    IN  [candidate |-> c, overlap_names |-> core.names, total |-> total]

\* screen_funds: the finalists, best total first.
Better(s, o) ==
    s.total > o.total \/ (s.total = o.total /\ s.candidate.code < o.candidate.code)
ScreenFunds(scores) ==
    LET ranked == Sorted(scores, Better)
    IN  SubSeq(ranked, 1, AtMost(Finalists, Len(ranked)))

-----------------------------------------------------------------------------
(* Stage 3 *)

IsFresh(s, asOf) == asOf - s.candidate.as_of =< Freshness

\* round(total / TIE_BAND), a half going to the even neighbour.
TieBucket(total) ==
    LET q == total \div TieBand  r == total % TieBand
    IN  IF 2 * r > TieBand \/ (2 * r = TieBand /\ q % 2 = 1) THEN q + 1 ELSE q

\* Mutant: the read decides, and the scorecard only breaks its ties.
BeforeByRead(s, o, pref) ==
    LET p == pref[s.candidate.code]  q == pref[o.candidate.code]
    IN  p > q \/ (p = q /\ Better(s, o))

\* The sort key: the bucket of the total, then the cheap read, then the code.
Before(s, o, pref) ==
    LET b == TieBucket(s.total)  d == TieBucket(o.total)
        p == pref[s.candidate.code]  q == pref[o.candidate.code]
    IN  \/ b > d
        \/ b = d /\ (p > q \/ (p = q /\ s.candidate.code < o.candidate.code))

\* _redundant: all the core names it re-buys, a fund already kept re-buys.
Redundant(s, kept) ==
    /\ s.overlap_names # {}
    /\ \E i \in DOMAIN kept : s.overlap_names \subseteq kept[i].overlap_names

\* The greedy pass over the ordered reads: leveraged repeats are dropped, until the places
\* are taken.
Keep(sorted) ==
    LET kept[n \in 0..Len(sorted)] ==
          IF n = 0 THEN <<>>
          ELSE IF Len(kept[n - 1]) = TopN + NearMissN \/ Redundant(sorted[n], kept[n - 1])
               THEN kept[n - 1] ELSE Append(kept[n - 1], sorted[n])
    IN  kept[Len(sorted)]

\* rerank: the stale reads are dropped, the fresh ones sorted and gone through.
Rerank(finalists, asOf, pref) ==
    LET fresh == {s \in Range(finalists) : IsFresh(s, asOf)}
    IN  Keep(Sorted(fresh, LAMBDA s, o : Before(s, o, pref)))

\* run_funnel for one theme: the funds, ranked, the near misses below the cut and what
\* the guardrails removed; no shortlist when nothing survives.
Shortlist(theme, candidates, asOf, core, pref) ==
    LET generated == CoarseFilter({c \in candidates : c.theme = theme.key})
        vetoed    == Vetoed(generated, asOf)
        kept      == generated \ vetoed
        screened  == ScreenFunds({ScoreFund(c, core[c.code]) : c \in kept})
        ranked    == Rerank(screened, asOf, pref)
        cut       == AtMost(TopN, Len(ranked))
    IN  IF QualifyTheme(theme.payload) # "passed" \/ ranked = <<>> THEN {}
        ELSE {[theme |-> theme.key, as_of |-> theme.as_of, screened |-> screened,
               n_candidates |-> Cardinality(kept), vetoed |-> {c.code : c \in vetoed},
               funds |-> SubSeq(ranked, 1, cut),
               near_misses |-> SubSeq(ranked, cut + 1, Len(ranked))]}
=============================================================================
