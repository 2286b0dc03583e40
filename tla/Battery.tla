------------------------------- MODULE Battery ------------------------------
(***************************************************************************)
(* The factor battery: a reading is ranked against its own history into a   *)
(* band, and the trend gate compares the last mark with its moving average. *)
(* A state that is too short of history is absent: missing is not bad. A    *)
(* history is the sequence the window helpers return, oldest first.         *)
(***************************************************************************)
EXTENDS Integers, Sequences, FiniteSetsExt

CONSTANTS
    MinTrend,   \* _MIN_TREND: rows the 200-day average asks for
    Lookback    \* _REVERSAL_LOOKBACK

ASSUME BatteryAssumption == MinTrend \in Nat \ {0} /\ Lookback \in Nat \ {0}

MinMacro == 12
MinCrowding == 12
MinPE == 12
MinDemand == 8
MinLead == 6

Newest(h) == h[Len(h)]

\* percentile_rank of h's last value in h, counted in halves: below + half the ties.
MidRank(h) ==
    2 * Cardinality({i \in DOMAIN h : h[i] < Newest(h)})
    + Cardinality({i \in DOMAIN h : h[i] = Newest(h)})

\* rank_to_band: the constant cut-points 5 / 25 / 75 / 95 percent.
BandOf(h) ==
    LET r == MidRank(h)  n == 2 * Len(h)
    IN  IF 20 * r < n THEN "extreme_low" ELSE IF 4 * r < n THEN "low"
        ELSE IF 4 * r < 3 * n THEN "neutral" ELSE IF 20 * r < 19 * n THEN "high"
        ELSE "extreme_high"

\* One factor's valid state, or none.
State(factor, level, dir) == [factor |-> factor, level |-> level, dir |-> dir]
Ranked(factor, h, min) ==
    IF Len(h) < min THEN {} ELSE {State(factor, BandOf(h), "ranked")}

\* cross_market: the quarter-on-quarter changes of the leaders' disclosed shares.
CrossMarket(levels) ==
    IF Len(levels) < MinLead THEN {}
    ELSE Ranked("lead", [i \in 1..(Len(levels) - 1) |-> levels[i + 1] - levels[i]], 1)

Crowding(turns) == Ranked("crowding", turns, MinCrowding)
Demand(revs) == Ranked("demand", revs, MinDemand)
Valuation(pes) == Ranked("valuation", pes, MinPE)
Macro(yields) == Ranked("macro", yields, MinMacro)

\* horizon_returns, in basis points.
Returns(navs) ==
    [i \in 1..(Len(navs) - Lookback) |->
        (10000 * navs[i + Lookback]) \div navs[i] - 10000]

\* reversal: a return stretched up against its own history is a risk downwards.
Reversal(navs) ==
    IF Len(navs) < 2 * Lookback THEN {}
    ELSE LET band == BandOf(Returns(navs))
         IN  {State("reversal", band, IF band \in {"high", "extreme_high"}
                                      THEN "reversal-DOWN" ELSE "ranked")}

\* moving_average: the last mark against the mean of the last MinTrend rows.
Below(navs) ==
    LET n == Len(navs)
    IN  MinTrend * Newest(navs)
            < MapThenSumSet(LAMBDA i : navs[i], (n - MinTrend + 1)..n)

\* trend_gate, the factor, and compute_gate, the hard rule.
TrendFactor(navs) ==
    IF Len(navs) < MinTrend THEN {}
    ELSE {State("trend", BandOf(navs), IF Below(navs) THEN "downtrend" ELSE "uptrend")}

Gate(navs) ==
    IF Len(navs) < MinTrend THEN "unknown"
    ELSE IF Below(navs) THEN "capped" ELSE "open"

\* compute_states, in the two kinds of history it reads: the fund's own marks, and what
\* a night knows of its turnover, its basket, the leaders, demand and money.
PriceStates(navs) == Reversal(navs) \cup TrendFactor(navs)

BookStates(book) ==
    CrossMarket(book.levels) \cup Crowding(book.turns) \cup Demand(book.revs)
    \cup Valuation(book.pes) \cup Macro(book.yields)
=============================================================================
