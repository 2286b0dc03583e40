------------------------------ MODULE Emerging ------------------------------
(***************************************************************************)
(* The emerging list, from the world to the seats. An ingest pulls the      *)
(* universe, its sizes, prices and holdings into the store, discloses the   *)
(* funds the feed dropped, and freezes the theme-to-fund mapping as rows;   *)
(* the research job writes themes; a run as of a date reads all of it back  *)
(* through the funnel. Prices' provisional estimates are Feed's, the        *)
(* holdings' windows HoldingsGraph's: here a date has one settled price and *)
(* a filing is known from the night that pulled it.                         *)
(*                                                                         *)
(* Time is counted in instants, three to a day: before 22:00Z, the mark     *)
(* fetched_at_for stamps a derived row with, and after it. Only a live      *)
(* gather stamps its rows with the instant.                                 *)
(***************************************************************************)
EXTENDS Funnel, Battery, Discovery, Readings

CONSTANTS
    Fund,           \* codes, integers in the order of their digits
    Book,           \* positions: the funds of my lists, and my shares of each
    Worlds,         \* what the sources may disclose
    Listings,       \* the funds a universe pull may bring
    Reaches,        \* funds the two gather loops get to before a deadline trips
    Prefs,          \* the cheap reads, in percent per fund
    RunUpMin,       \* RUN_UP_MIN_SESSIONS
    RunUpWindow,    \* RUN_UP_WINDOW
    MinEmergingAge, \* _MIN_EMERGING_AGE
    MaxDay,         \* bound: days
    MaxIngests,     \* bound: ingests
    MaxDiscoveries  \* bound: research jobs

Day == 1..MaxDay

\* What the adapters parse out of the disclosures: numbers, of my funds and of dates; a
\* theme once per date (data/fixtures/themes.csv).
Parsed(w) ==
    /\ w.source \in {"live", "fixtures"}
    /\ w.ends \in [Fund -> Nat] /\ w.inception \in [Fund -> Int] /\ w.corr \in [Fund -> Int]
    /\ w.exchange \subseteq Fund /\ w.aum \in [Fund -> [0..MaxDay -> Int]]
    /\ \A f \in Fund, d \in 0..MaxDay :
         LET filing == w.filings[f][d]
         IN  IsFiniteSet(DOMAIN filing) /\ \A s \in DOMAIN filing : filing[s] \in Int
    /\ w.sheet \in [Fund -> [fee : Int, tracking_error : Int, top10_weight : Int]]
    /\ IsFiniteSet(w.bundled) /\ IsFiniteSet(w.docs)
    /\ \A d \in w.docs : IsFiniteSet(d.words)
    /\ \A t \in w.bundled : t.as_of \in Int /\ t.payload.crowding \in Int
    /\ \A t, u \in w.bundled : t.key = u.key /\ t.as_of = u.as_of => t = u

ASSUME EmergingAssumption ==
    /\ Fund \subseteq Nat /\ IsFiniteSet(Fund) /\ DOMAIN Book \subseteq Fund
    /\ \A h \in DOMAIN Book : Book[h] \in Nat
    /\ Listings \subseteq SUBSET Fund /\ Reaches \subseteq Nat
    /\ RunUpMin \in Nat \ {0} /\ RunUpWindow \in Nat \ {0} /\ MinEmergingAge \in Nat
    /\ MaxDay \in Nat \ {0} /\ MaxIngests \in Nat /\ MaxDiscoveries \in Nat
    /\ Prefs \subseteq [Fund -> Int] /\ \A w \in Worlds : Parsed(w)

VARIABLES
    world,      \* the disclosures of this behaviour
    clock,      \* the instant
    ingests, discoveries,
    store       \* the series the funnel reads: sets of rows

vars == <<world, clock, ingests, discoveries, store>>

SeriesName == {"universe", "scale", "prices", "holdings", "themes", "mapping"}

Init ==
    /\ world \in Worlds
    /\ clock = 3
    /\ ingests = 0 /\ discoveries = 0
    /\ store = [s \in SeriesName |-> {}]

-----------------------------------------------------------------------------
(* Dates and stamps *)

Today == clock \div 3
\* fetched_at_for: 22:00Z of the date.
DerivedStamp(asOf) == 3 * asOf + 1
\* What a gather stamps its rows with: the wall clock, or the date's mark.
GatherStamp(asOf) == IF world.source = "live" THEN clock ELSE DerivedStamp(asOf)

Row(key, asOf, stamp, payload) ==
    [key |-> key, as_of |-> asOf, fetched_at |-> stamp, payload |-> payload]

-----------------------------------------------------------------------------
(* Gather *)

Size(f, d) == [aum |-> world.aum[f][d], amount |-> world.amount[f][d]]

\* AkShare's list of names carries no scorecard: only a recorded row is valid.
UniverseRows(listed, asOf, stamp) ==
    {Row(f, asOf, stamp, [delisting |-> world.ends[f], inception |-> world.inception[f],
                          valid |-> world.source = "fixtures"]) : f \in listed}

ScaleRows(stamp) ==
    {Row(f, Today, stamp, Size(f, Today)) : f \in world.exchange}

\* The newest date stored per fund as of the run's date, or none (-1).
FloorOf(series, f, asOf) ==
    Max({-1} \cup {r.as_of : r \in {r \in ReadAsOf(store[series], asOf) : r.key = f}})

\* The tier of each listed fund the board trades.
TierOf(listed, asOf) ==
    [f \in listed \cap world.exchange |-> Tier(Size(f, Today), world.inception[f], asOf)]

HoldingRows(fs, asOf, stamp) ==
    UNION {{Row(f, d, stamp, world.filings[f][d]) :
              d \in {d \in (FloorOf("holdings", f, asOf) + 1)..Today :
                        world.filings[f][d] # <<>>}} : f \in fs}

\* One reconciled bar per date past the floor on which any source quotes the fund.
PriceRows(fs, asOf, stamp) ==
    UNION {{Row(f, d, stamp, SelectReconciled(world.quotes[f][d])) :
              d \in {d \in (FloorOf("prices", f, asOf) + 1)..Today :
                        world.quotes[f][d] # <<>>}} : f \in fs}

First(n, order) == {order[i] : i \in {i \in DOMAIN order : i =< n}}

\* The funds each of the two loops gets to before the wall-clock budget, which the
\* recorded source does not have, trips: `reached` counts them over both.
Fetched(listed, asOf) == FetchCodes(TierOf(listed, asOf), DOMAIN Book)
Deep(listed, reached, asOf) == First(reached, Fetched(listed, asOf))
Priced(listed, reached, asOf) ==
    LET order == Fetched(listed, asOf)
    IN  First(reached - Len(order), PriceOrder(order, DOMAIN Book))

\* _check_price_health: more than half of the held funds asked for have no agreed price.
Systemic(priced, asOf) ==
    LET asked == priced \cap DOMAIN Book
        LastBar(f) == {r \in PriceRows({f}, asOf, 0) :
                        \A s \in PriceRows({f}, asOf, 0) : s.as_of =< r.as_of}
        degraded  == {f \in asked :
                        \/ \E r \in LastBar(f) : r.payload.divergence # Missing
                        \/ LastBar(f) = {} /\ FloorOf("prices", f, asOf) = -1}
    IN  2 * Cardinality(degraded) > Cardinality(asked)

\* AShareMarket.gather and the append of it.
Gathered(listed, reached, asOf) ==
    LET stamp == GatherStamp(asOf)
    IN  [store EXCEPT
          !["universe"] = AppendTo(@, UniverseRows(listed, asOf, stamp)),
          !["scale"]    = AppendTo(@, ScaleRows(stamp)),
          !["holdings"] = AppendTo(@, HoldingRows(Deep(listed, reached, asOf), asOf, stamp)),
          !["prices"]   = AppendTo(@, PriceRows(Priced(listed, reached, asOf), asOf, stamp)),
          !["themes"]   = AppendTo(@, {Row(t.key, t.as_of, stamp, t.payload) :
                                         t \in world.bundled})]

Disclosed(db, asOf) ==
    [db EXCEPT !["universe"] =
        AppendTo(@, Disclosures(ReadAsOf(@, asOf), asOf, DerivedStamp(asOf)))]

-----------------------------------------------------------------------------
(* Mapping *)

ListedAt(db, asOf) ==
    {r \in ReadAsOf(db["universe"], asOf) : StillListed(r.payload.delisting, asOf)}

\* price_navs: every row dated up to asOf, oldest first.
Navs(db, f, asOf) ==
    LET rows == {r \in db["prices"] : r.key = f /\ r.as_of =< asOf}
        seq  == SetToSortSeq(rows, LAMBDA r, s :
                    r.as_of < s.as_of \/ (r.as_of = s.as_of /\ r.fetched_at < s.fetched_at))
    IN  [i \in DOMAIN seq |-> seq[i].payload.nav]

\* The portfolio the graph serves: the fund's last filing dated up to asOf.
Portfolio(db, f, asOf) ==
    LET rows == {r \in ReadAsOf(db["holdings"], asOf) : r.key = f}
    IN  IF rows = {} THEN <<>> ELSE (CHOOSE r \in rows : TRUE).payload

\* latest_pe_percentile, in percent.
PePercentile(f) ==
    LET pes == world.pes[f]
    IN  IF Len(pes) < MinPE THEN Missing ELSE (50 * MidRank(pes)) \div Len(pes)

\* The mapping rows of one theme: the listed, sized, fully disclosed funds that carry a
\* tenth of themselves in its names, with the inputs the guardrails will read.
Links(db, t, asOf) ==
    LET listed == {r \in ListedAt(db, asOf) : r.payload.valid}
        sized  == ReadAsOf(db["scale"], asOf)
        over(f) == OverlapWith(Portfolio(db, f, asOf), t.payload.constituents).weight
        Link(u, z) ==
            Row(<<t.key, u.key>>, asOf, DerivedStamp(asOf),
                [theme |-> t.key, code |-> u.key, aum |-> z.payload.aum,
                 methodology |-> LinkScore(over(u.key), world.corr[u.key]),
                 crowding |-> t.payload.crowding, inception |-> u.payload.inception,
                 run_up |-> RunUp(Navs(db, u.key, asOf), RunUpMin, RunUpWindow),
                 pe_pctile |-> PePercentile(u.key)])
    IN  {Link(p[1], p[2]) : p \in {p \in listed \X sized :
            p[1].key = p[2].key /\ over(p[1].key) >= MinOverlap}}

\* Mutant: the mapping is stamped with the clock.
MaterialisedNow(db, asOf) ==
    LET rows == UNION {Links(db, t, asOf) : t \in ReadAsOf(db["themes"], asOf)}
    IN  [db EXCEPT !["mapping"] = AppendTo(@, {[r EXCEPT !.fetched_at = 3 * MaxDay + clock] : r \in rows})]

\* _materialise_mapping
Materialised(db, asOf) ==
    LET rows == UNION {Links(db, t, asOf) : t \in ReadAsOf(db["themes"], asOf)}
    IN  [db EXCEPT !["mapping"] = AppendTo(@, rows)]

-----------------------------------------------------------------------------
(* The list *)

\* Mutant: a mapped fund is a candidate for as long as its row is read.
CandidatesMapped(db, asOf) ==
    {r \in ReadAsOf(db["mapping"], asOf) : r.payload.code \in Fund}

\* The mapping rows whose fund is still listed at the run's own date.
CandidateRows(db, asOf) ==
    LET listed == {r.key : r \in ListedAt(db, asOf)}
    IN  {r \in ReadAsOf(db["mapping"], asOf) : r.payload.code \in listed}

\* _candidate_from_reading, with the static lines of the scorecard.
Candidate(r) ==
    LET p == r.payload  sheet == world.sheet[p.code]
    IN  [theme |-> p.theme, code |-> p.code, methodology |-> p.methodology, aum |-> p.aum,
         crowding |-> p.crowding, inception |-> p.inception, run_up |-> p.run_up,
         pe_pctile |-> p.pe_pctile, as_of |-> r.as_of, fee |-> sheet.fee,
         tracking_error |-> sheet.tracking_error, top10_weight |-> sheet.top10_weight]

\* _build_book: shares at the last price, nothing without one.
BuildBook(db, asOf) ==
    {LET navs == Navs(db, h, asOf)
     IN  [code |-> h, held |-> Portfolio(db, h, asOf),
          value |-> IF navs = <<>> THEN 0 ELSE Book[h] * navs[Len(navs)]] : h \in DOMAIN Book}

\* emerging_gate: a known trend is final; a thin history opens for a liquid, seasoned and
\* not overvalued fund.
EmergingGate(db, c, asOf) ==
    LET navs == Navs(db, c.code, asOf)
        overvalued == \E s \in Valuation(world.pes[c.code]) : s.level = "extreme_high"
    IN  IF Gate(navs) # "unknown" THEN Gate(navs)
        ELSE IF c.aum >= AumFloor /\ Len(navs) >= MinEmergingAge /\ ~overvalued
        THEN "open" ELSE "capped"

\* run_funnel over the themes, in name order.
Shortlists(db, asOf, pref) ==
    LET candidates == {Candidate(r) : r \in CandidateRows(db, asOf)}
        owned == Owned(BuildBook(db, asOf))
        core == [f \in Fund |-> OverlapWithCore(Portfolio(db, f, asOf), owned)]
    IN  UNION {Shortlist(t, candidates, asOf, core, pref) :
                 t \in ReadAsOf(db["themes"], asOf)}

\* _build_emerging: the codes of the list, with their gates.
EmergingList(db, asOf, pref) ==
    UNION {{[code |-> l.funds[i].candidate.code, theme |-> l.theme, rank |-> i,
             gate |-> EmergingGate(db, l.funds[i].candidate, asOf)] : i \in DOMAIN l.funds} :
             l \in Shortlists(db, asOf, pref)}

-----------------------------------------------------------------------------
(* Steps *)

\* ingest, tonight's or a back-filled date's.
Ingest(asOf, listed, reached) ==
    /\ ingests < MaxIngests
    /\ asOf =< Today
    /\ world.source = "fixtures" => reached >= 2 * Cardinality(Fund)
    /\ ~Systemic(Priced(listed, reached, asOf), asOf)
    /\ \E pulled \in {Gathered(listed, reached, asOf)} :
       \E dropped \in {Disclosed(pulled, asOf)} :
         store' = Materialised(dropped, asOf)
    /\ ingests' = ingests + 1
    /\ UNCHANGED <<world, clock, discoveries>>

\* discover: the corpus published by the date; only a live job has a budget to stop it.
Discover(asOf, assessed) ==
    /\ discoveries < MaxDiscoveries
    /\ asOf =< Today
    /\ world.source = "fixtures" => assessed = Cardinality(world.docs)
    /\ LET docs == {d \in world.docs : d.as_of =< asOf}
       IN  store' = [store EXCEPT !["themes"] =
                AppendTo(@, DiscoverThemes(docs, assessed, asOf, DerivedStamp(asOf)))]
    /\ discoveries' = discoveries + 1
    /\ UNCHANGED <<world, clock, ingests>>

\* build_dashboard, over an ingested store: a run maps when no ingest has.
RunMaps(asOf) ==
    /\ ingests > 0 /\ store["mapping"] = {}
    /\ asOf =< Today
    /\ store' = Materialised(store, asOf)
    /\ UNCHANGED <<world, clock, ingests, discoveries>>

TimePasses ==
    /\ Today < MaxDay
    /\ clock' = IF world.source = "live" /\ clock % 3 = 0 THEN clock + 2 ELSE 3 * (Today + 1)
    /\ UNCHANGED <<world, ingests, discoveries, store>>

Next ==
    \/ \E asOf \in Day, listed \in Listings, reached \in Reaches :
         Ingest(asOf, listed, reached)
    \/ \E asOf \in Day, assessed \in 0..Cardinality(world.docs) : Discover(asOf, assessed)
    \/ \E asOf \in Day : RunMaps(asOf)
    \/ TimePasses

Spec == Init /\ [][Next]_vars

-----------------------------------------------------------------------------
(* Properties *)

\* Once a pull has brought anything of a date, whatever surfaces as of that date was
\* brought by a pull of that date, or has announced a later end, however many earlier
\* mapping rows still name a fund the feed has stopped listing (pipeline.py:767-768 "a stale
\* mapping row must not resurrect a since-delisted fund").
OnlyListedFundsSurface ==
    [][\A db \in {store'}, d \in Day, pref \in Prefs :
         (\E r \in db["universe"] \ store["universe"] : r.as_of = d) =>
            {e.code : e \in EmergingList(db, d, pref)} \subseteq
                {r.key : r \in {r \in db["universe"] :
                                  r.as_of = d /\ r.payload.delisting # d}}
                \cup {f \in Fund : world.ends[f] > d}]_vars

Repeats(s, o) == s.overlap_names # {} /\ s.overlap_names \subseteq o.overlap_names

\* The cheap read and the business rules never turn the scorecard over: of two funds that
\* surface, the later is never better than the earlier by more than a tie band, and a
\* fresh finalist that does not surface re-buys what one that does re-buys, or all places
\* are taken by funds no worse than it by more than a band (shortlist.py:8 "funds that
\* separate on the disciplined scorecard are never reordered").
SpineIsNeverTurned ==
    \A d \in 1..Today, pref \in Prefs : \A l \in Shortlists(store, d, pref) :
      LET ranked == l.funds \o l.near_misses
          shown  == {ranked[i] : i \in DOMAIN ranked}
      IN  /\ \A i, j \in DOMAIN ranked :
               i < j => ranked[j].total =< ranked[i].total + TieBand
          /\ \A i \in DOMAIN l.screened :
               LET s == l.screened[i]
               IN  IsFresh(s, d) /\ s \notin shown =>
                     \/ \E o \in shown : Repeats(s, o)
                     \/ /\ Len(ranked) = TopN + NearMissN
                        /\ \A o \in shown : s.total =< o.total + TieBand

\* What the mapping said as of a date is never restated: not by a later night, nor by
\* another ingest of that same date after the themes, the sizes or the marks it was
\* inferred from have moved (pipeline.py:637 "a later disclosure never rewrites a past
\* mapping").
FrozenMappingStands ==
    [][\A r \in store["mapping"] :
         r \in ReadAsOf(store["mapping"], r.as_of)
            => r \in ReadAsOf(store'["mapping"], r.as_of)]_vars

\* An ingest maps the themes the research job wrote: a listed and sized fund that carries
\* a tenth of itself in a theme's names has a mapping row (pipeline.py:222 "the next
\* ingest maps the discovered themes to funds and run surfaces them").
DiscoveredThemesAreMapped ==
    [][\A db \in {store'}, d \in Day :
         (\E r \in db["universe"] \ store["universe"] : r.as_of = d) =>
            \A t \in ReadAsOf(store["themes"], d) :
              \A f \in {u.key : u \in ListedAt(db, d)}
                        \cap {z.key : z \in ReadAsOf(db["scale"], d)} :
                OverlapWith(Portfolio(db, f, d), t.payload.constituents).weight >= MinOverlap
                  => \E r \in ReadAsOf(db["mapping"], d) : r.key = <<t.key, f>>]_vars
=============================================================================
