# factor-scope in TLA+

A verification project for factor-scope, the nightly that ingests market
readings into a point-in-time store, has language-model seats argue each held
fund, logs their calls for a later scoring, and publishes a dashboard. The
modules are translated from the source at one commit (paths below are relative
to the repository's root, most under `src/factor_scope/`); the configurations
are checked with TLC, the theorems with TLAPS. `PROJECT.json` lists, for every
definition, the lines it models, and for every property a plausible bug of the
code that breaks it.

    tlc -config MCStore.cfg MCStore        # and so on for each run below
    tlapm StoreProofs.tla                  # and for each *Proofs module

## 1. The system

| Component | State it keeps | Operations | What makes it correct |
|---|---|---|---|
| Point-in-time store `store/__init__.py` | the hot DuckDB table, cold Parquet files | `append`, `read_as_of`, `history`, `count`, `tier_cold` | append-only over both tiers; a read as of a date is moved only by what is dated on or before it; inside the hot window a row enters only with news; a restatement of a pulled series surfaces |
| Nightly `pipeline.py` | what the processes that open the store append; each one's frozen night, leans, slots | `nightly`, `ingest`, `build_dashboard`, `run` | one call of a fund per night, each resting on a debate of its own night or before; no call from a failure; the artifact shows the record |
| Digest `digest/orchestrator.py`, providers | the debate cache, the night's slots, the broken-quota flag | `digest_item`: debate, gate, downgrades, mirror | cached first, slot second; a failed seat leaves no call; a capped fund is never bought, whatever a debate says |
| Call trail and scorer `scoring/calls.py`, `scorer.py` | the call rows | `log_call`, `window_open`, `score_call` | calls are added, never edited, never in hindsight; a resolved score is moved by nothing outside its window |
| Scorecard `scoring/scorecard.py` | none: a view of the scored calls | buckets, weak patterns | it bears on confidence alone |
| Factors and trend gate `factors/` | none: views of histories | bands, ranked states, reversal, gate | point in time; missing is not bad |
| Live feed `ingest/feed.py`, `ingest/__init__.py` | watermarks in the store; per run the board, the memo, the cap, the breaker | the gather of every fund, one pull or board bar each | only closed sessions settle; no history is torn but by the cap |
| Fund universe `ingest/fund_universe.py`, `markets/ashare.py` | the universe rows, their ends and sizes | tiers, fetch order, delisting by disappearance | a fund is disclosed gone only when a pull that brought something lacked it, and stays a member of its past |
| Holdings graph `graph/store.py`, look-through | the durable edges with windows | build, merge, as-of reads, overlaps | serves the snapshot in force, once, at its weight; the past stands |
| Emerging funnel `emerging/`, mapping | mapping rows | map themes to funds, qualify, filter, score, re-rank, gate | only listed funds surface; a past mapping stands; the scorecard's order is never turned by the cheap read |
| Discovery `discovery/` | theme rows | topics, trajectories, assessments | what it writes, the next ingest maps; it spends from the same month |
| Cost ledger `cost.py` | the ledger's rows; per job a guard | month to date; the guard seeded, checked, charged; booking | how far a month can pass its ceiling; every finished job booked once |
| Publication `pipeline.nightly`, `history.py`, `series.py` | dashboard.json, the night files, the catalog, the trails | `record` (night, series), rebuild | a listed night opens; a recorded night stands; the trails name recorded nights |
| Read API `serve.py` | none of its own | latest, a night, the index, a series, with validators | a revalidated answer is never stale |
| Read replica `store/replica.py` | a copy of the store file; a pool of connections | copy, rename; query with a deadline | a whole store, never half of one; a deadline hits its own query and every call returns |
| Schedule `schedule/` | cron and launchd text, the run log | nightly at 22:00, resume at 05:30 | the resume finishes last night |

**How they interact.** Nothing in the repository talks by message. The nightly
is one process that runs `ingest` (the markets call the feed and the adapters;
what they bring is appended in one batch, then the delistings, the graph and
the exposure map), then `build_dashboard` (opens the store again; re-ranks the
emerging finalists; digests one item after another; appends calls and
debates), then writes the files the API reads and the replica, then books what
it spent. The research job holds the same store, writes themes and books its
own spend. DuckDB lets one process at a time hold the store, and the nightly
closes and reopens it between its phases. So the 05:30 resume, a back-fill by
hand (`nightly --as-of`), a bare `run` and the research job can work between
two holds of another process. What closes the loop is the record: the calls a
night logs are scored by a later night, whose scorecard bears on what is said
then.

Threads appear in three places: a read past its deadline leaves its worker
running, and its answer may still reach the memo (Feed); the two seats of a
debate run side by side, and a seat that raises leaves the other running and
paid for (Ledger); a query of the replica runs on a thread its caller waits
for and interrupts (Replica).

**What is hard here.** A process that dies between two appends, two statements
or two renames; re-runs, resumes and back-fills of nights in any order over a
store that has learned more since; reads that hang, hosts that refuse,
sessions that close in the middle of a gather; caps, slots and budgets that
run out, asked before and charged after; rows derived on one night and read on
another. `PROJECT.json` lists each hazard at its line, with the property that
covers it or the reason none does.

## 2. The modules

    Readings ── FactLog                      what reads and append compute; the promised log
        └────── Store ── MCStore, StoreProofs          Store implements FactLog
    CallTrail                                the promised audit trail
        └────── Nightly ── MCNightly, NightlyProofs    Nightly implements CallTrail
    Feed ── MCFeed, FeedProofs
    HoldingsGraph ── MCHoldingsGraph, HoldingsGraphProofs
    Publish ── MCPublish ┐
    Replica ── MCReplica ┴ ReadSideProofs
    Ledger ── MCLedger, LedgerProofs
    Battery, Guardrails, Readings ── Mirror ── MCMirror, MirrorProofs
    Universe ── Funnel ┐
    Battery, Discovery, Readings ── Emerging ── MCEmerging, EmergingProofs

Battery, Guardrails, Universe, Funnel and Discovery are pure: the code's
algorithms as operators. Mirror and Emerging compose them with a store that
grows. `Mutant:` above a definition marks a form the code does not have; the
mutation runs put it in the place of the definition below it.

### Readings, FactLog, Store

A reading is `[key, as_of, fetched_at, payload]`; `key` is the (series, key)
pair, dates and stamps are integers in the order of the code's ISO strings.
`Readings` has what the SQL computes: `Accepts` is the `WHERE` of the insert with
`ON CONFLICT DO NOTHING`, `ReadAsOf` the window function of `read_as_of`.

| Store | code |
|---|---|
| `hot`, `cold` | the `readings` table, the Parquet files in write order |
| `AppendPulled`, `AppendWritten` | `append`: one atomic insert, of what a pull brought (`Pulled`) or of what a run writes itself (`Written`) |
| `TierCopy`, `TierPrune` | the COPY and the DELETE of `tier_cold`, two statements |
| `Crash` | a death between the two; the next process opens what is on disk |
| `StartRun` | a run of any date, the next or an earlier one: an explicit `--as-of` always wins |

A pull stamps its rows with its own instant and re-reads `Lookback` nights, and one
night ahead, where a skewed clock dates a bar. A run stamps what it writes with a
`Mark` of its date (22:00Z), which a pull may precede, share or follow. A batch may
hold two payloads of one fact. Some keys are pulled, some written, and some both, as
the fund universe is (pulled, and disclosed delisted). Nothing relates `Lookback` and
`HotWindow`: config.py:147 asks for a window longer than any lookback, the numbers
shipped are 365 (config.py:150) and 650 (prices.py:38).

`FactLog` is what the store can promise under these numbers: facts only grow, and from
a `horizon` on a row enters only with news. `Store` implements it with `facts <- hot
\cup cold` and the history variable `horizon`, the newest cutoff `tier_cold` was run
with: what is older may be cold, and `append` compares with the hot table alone.

### CallTrail, Nightly

| Nightly | code |
|---|---|
| `StartNightly`, `StartResume`, `StartBackfill`, `StartRun` | the four ways to start, each freezing its `as_of` (`_resolve_as_of`) |
| `CheckIngested` | `_night_already_ingested` |
| `OpenIngest` ... `Materialise` | `ingest`: hold the store, append, disclose the delisted, build the graph, map the exposures |
| `OpenBuild` | the second hold; `logged_tonight` and the debate cache are read here, once |
| `DigestBroken`, `DigestFree`, `DigestFresh`, `DigestFails` | the branches of `_attach_leans` and `digest_item` for the next item of the priority order |
| `Commit` | the seal, the id, `log_call` |
| `CloseBuild`, `WriteOutput` | close the store, then the artifact |
| `Die` | a death anywhere; appended rows stay, the rest is lost |
| `TimePasses` | today's close, or the next day |

A brief, which the code hashes, is the item, the date of the newest bar its night may
see and the `view` of it: what the evidence, the states and the gate say. Any append
may move the view of a bar already stored (a restatement, a source that comes late),
so a re-run or a back-fill may argue the same bar again. `Blind` is the view of an item
whose gate is UNKNOWN or that has fewer than two valid states; with no bar at all or a
blind view (`Seen` is `Nothing`) the digest abstains for free, and commits. The guardrails are a function of the brief,
so they are part of the action a debate reaches (their content is
Guardrails, their feedback through the scorecard Mirror). A month's budget that
refuses a seat is one of the nondeterministic failures (`Fails`); the
accounting behind the refusal is Ledger. `CallTrail` is the promise to the
scorer: `Log` adds a call of a fund and night that has none, while no later
price of it is known; `Learn` adds prices.

### Feed

One gather of the A-share market: first the activity loop over every fund, then
the price loop, book first, then one append. For each fund `ReadsBoard` or
`Granted` decides between a K-line pull and the shared spot board by watermark,
seeding, gap and cap; `PullAnswers`, `PullRefused`, `PullHangs`, `LateAnswer`,
`FallsBack` are what a pull can come to; `StopEarly` the deadline,
`AppendGathered` the append, `Abort` a gather that dies or whose circuit breaker
trips. A bar is its session date: a property of a price's value is not in reach
here, and a divergence between sources is one of the causes of `Abort` (the
breaker's share of bad reads is computed in Emerging). Provisional rows
(today's, tagged) are left out because every read modelled excludes them. Code
outside the repository is modelled from its use: the K-line host may answer today's
unfinished session; the board's date advances only at a close, as feed.py:459 says of
it and the settling of both legs relies on (a board that broke its word is not in the
model); the other sources (Baostock, Mootdx, Sina) bring closed sessions only. The clock moves during a gather,
which ends before the next day's close.

### HoldingsGraph

`File` publishes a fund's snapshots in order, on their day or later; `IngestAppend`
pulls past the watermark (an N-PORT filer's pull brings its latest filing only),
`IngestBuild` derives the window of every holding from the whole history
(`WindowEdges`) and merges it (`Merge`: `MERGE ... ON CREATE`), `Crash` dies
between the two, `RunBuild` is the build of a later run. `Served` is the as-of
match. Days are those on which something can be disclosed.

### Publish

`StartRun` is a dashboard of some night with some funds in it; then `dashboard.json` in
place (`TruncateOutput`, `WriteOutput`), the night's file and its catalog entry
(`RecordNight`, `CatalogNight`), one point per fund (`FileFund`), `Finish`. `Die` ends
a run anywhere; `LoseCatalog` is the lost or damaged catalog the RUNBOOK speaks
of. `ReadIndex`, `Load`, `Latest`, `SeriesETag`, `LatestETag` are the API's reads. Runs follow
one another: two that publish at the same time are not in the model.

### Ledger

Jobs are nightlies, bare runs and research jobs of one of several months. What
a model turn costs is any amount up to `MaxCost`.

| Ledger | code |
|---|---|
| `holder` | which process has the store file open; all model turns happen under it |
| `OpenBuild`, `RerankRead` | `build_dashboard` opens; the re-rank reads, before any guard exists |
| `SeedSeats`, `OpenDiscovery` | `BudgetGuard(limit, month to date + own re-rank)`; the research job's |
| `Start`, `Throttle` | `affordable` before a debate or an assessment; else the brief is deferred, or discovery stops |
| `SeatAnswers`, `SeatRaises`, `SynthesisAnswers`, `SynthesisRaises`, `AssessorAnswers` | one turn each, in two threads for the seats; a turn that raises records no usage |
| `Charge` | the debate's usages are charged, after two turns or four |
| `BookDiscovery`; `CloseBuild`, `ReadPrior`, `BookNightly`, `AppendRecord` | the research job books while it holds the store; the nightly closes, publishes, reads the prior month, appends its spend, then the run record |
| `Abort` | what nothing catches, or a death, anywhere |

`metered`, `reranked` and `blind` are history: what a month really cost, the
part spent on the re-rank, and the most a guard of the month did not know of
when it was seeded (jobs not booked yet, dead, or bare runs, which book
nothing).

### Battery, Guardrails, Mirror

`Battery` has the percentile rank counted in halves, the bands at 5/25/75/95,
each factor with its minimum history and the gate at the moving average (`MinTrend`
rows; 200 in the code). `Guardrails` has the opposing-extremes test, the two
presentation orders and their de-biasing, the offline provider's votes,
`EnforceGate`, the four downgrades and the scorecard's two channels.
Confidences are exact: `Fine` is the unit in which every product and halving
of the code is whole; the rounding of a tenth to its bucket follows the
doubles (0.85 rounds to 0.8, `MiddleGoesUp`).

`Mirror` closes the loop over one fund. `Pull` brings a bar, provisional or
settled, of any date; `Night(asOf)` reads a brief as of its date, has a debate
(the seats may say anything in `Seats`, or the offline provider speaks),
guards the lean and logs it; `NextDay`. `Outcome` is `score_call`:
`ForwardMarks` the entry and exit, `ClassifyOutcome` the dead-band; `BuildScorecard`
the rolling window, the reliability buckets and the weak patterns.

### Universe, Funnel, Discovery, Emerging

`Universe` has the tiers at their floors, the order the deep and the price
loops take the funds in, delisting by disappearance, and the reconciliation of
up to three quotes of a date. `Funnel` has the look-through sums, the gates of
a theme (stage A), the coarse filter, the two vetoes and the seven weighted
criteria (stage B), and the re-rank with tie bands, freshness, redundancy and
the cut (stage 3). `Discovery` has the offline topic model and assessor, their
trajectories and the noise threshold. A sort is stated by what comes out of it
(`Sorted`: the element at a place is the one with so many others before it), a claim of
documents label by label by what each label is left (`Claimed`: those no earlier label
occurs in), so that both can be reasoned about.

| Emerging | code |
|---|---|
| `Ingest(asOf, listed, reached)` | the gather of a night or a back-filled date, as far as its deadline let it get (`reached` funds over the two loops), the price circuit breaker, the delistings, the mapping rows |
| `Discover(asOf, assessed)` | the research job over the corpus published by a date, as far as its budget let it |
| `RunMaps` | a bare run maps when no ingest has |
| `TimePasses` | the next instant: before, at or after the 22:00Z mark derived rows are stamped with |
| `EmergingList` | `_build_emerging`: candidates still listed, the funnel of each theme, the gate of a fund with a thin history |

A `world` is what the sources may disclose in one behaviour (quotes, sizes,
filings, listings, ends, documents), recorded or live; a model checks several.
`Parsed` says what is assumed of one: the types its adapters parse, finitely many
bundled themes and documents, a bundled theme once per date.

### Replica

The jobs commit, checkpoint and close; a nightly then copies the file in two
blocks and renames the copy. A reader opens a pool on the replica: `Query`,
`Get` a connection, the thread's `Execute` and `EndStatement`, `Expire` and
`Interrupt` at the deadline, `Put` back. A statement may be one that never ends
by itself. The database's part (log, checkpoint, what an interrupt marks) is
external and modelled from the use the code makes of it. Nothing keeps jobs
apart (replica.py:45 has no lock, the schedule none either), so any may run while another does.
`disturbed` is history: the jobs under whose copying another moved the store or the
staged file.

## 3. What is model-checked

"States" are distinct ones.

| Run | Properties | States | Bounds, and why they are enough |
|---|---|---|---|
| `store` | TypeOK, HotHoldsTheWindow, CrashesBoundCopies, ImplementsLog, LaterDisclosureNeverMoves, PulledRestatementSurfaces | 515 k | a key only pulled and one both pulled and written (what only a run writes has the second's stamps), two payloads (same, changed), a lookback of one night against a window of none, so that a re-pull reaches rows already cold, as the shipped numbers do; runs of three nights in any order, two pulls and any number of written batches, two cold files, one crash |
| `nightly` | TypeOK, OneCallPerNight, CallsRestOnTheirNight, ArtifactMatchesRecord, ImplementsTrail, NoCallForNonDecision | 667 k | two processes of any kind, two days, three starts: a night, its overlap, and its re-run or back-fill; two items about one fund, the case in which a call id collides; two views of a bar and the blind one, so that it is restated either way; one slot, so that it runs out |
| `feed` | TypeOK, SettledIsClosed, HolesOnlyWhenDeferred | 610 k | two funds, one older than the seed and one younger, five days with one holiday, a cap of one, a breaker that trips at the first refusal, two attempts |
| `graph` | TypeOK, BuildServesInForce, FreshBuildIsExact, PastReadsStand | 157 k | one fund and one filer, portfolios that keep, drop and re-weigh a security, three days: a snapshot has one before and one after it |
| `publish` | TypeOK, ListedNightsLoad, PointsOfRecordedNights, NightStands, ListingGrows, RevalidationIsSound | 140 k | three nights in any order (a back-fill falls between two others), two builds of each, any number of runs, deaths and lost catalogs; one fund, as no property relates two trails |
| `ledger` | TypeOK, CeilingAccounted, FinishedIsBookedOnce, RecordNeverAboveLedger | 210 k | two jobs of any kinds, so that one spends between another's last turn and its booking; two months, a ceiling of two turns against debates of four, so that it is met at a debate's start and passed within one; one re-rank read; two briefs, so that one is refused after another |
| `mirror` | MirrorMovesOnlyConfidence, CappedFundsAreNeverBought, LaterNeverMovesTheBrief, SettledMovedOnlyByItsWindow | 141 k | three days and a horizon of one: a call is made, resolves, and bears on the next; three bars of two marks, of any date up to today, so that a resolved call's marks are restated; an average over two rows, crossed both ways; seats that want to buy, seats that disagree, and the offline votes |
| `emerging` | SpineIsNeverTurned, OnlyListedFundsSurface, FrozenMappingStands | 54 k | two recorded worlds; four funds (one held, two that re-buy its name, one that does not; one that doubles at a dear basket, one launched on day one, one that announces its end), pulls that are whole, empty and partial; three days, three ingests of any date, one research job; one place and one near miss for three finalists |
| `replica` | InterruptsHitTheirOwn, UndisturbedCopyIsACommit, EveryCallReturns | 378 k | a nightly and a research job in any overlap, each dying anywhere, two commits; three callers on two connections, so that a call waits behind a heavy one; three calls, so that a connection is used again after an interrupt |

Symmetry is used over payloads, processes, actions, builds, jobs and months, which no
definition orders. Deadlock is not checked in `nightly`, `ledger`, `mirror`, `emerging` and
`replica`, where the bounds end every behaviour; the others check it.

**Fairness.** All runs but `replica` are safety only. `replica` checks under `FairSpec`: each step of a call that was
made is weakly fair, because it is a thread the machine runs; no job is fair (it may
die or never start), and nobody need ever query. Weak fairness is enough since
calls are bounded, so a waiting call cannot be overtaken forever. `Expire`
needs the statement to have started: the deadline is seconds, and an interrupt
that fell before the start would be lost and the call would hang, which the
code does not guard against.

The deep ones, in words:

* **ImplementsLog**: tiering, a crash in it, re-pulls and runs of earlier dates never
  lose or edit a fact, and inside the window never repeat one. **HotHoldsTheWindow** is
  why: `append` compares with the hot table alone, and a run of an earlier date
  tiers nothing back in or out. **LaterDisclosureNeverMoves** is the point-in-time
  promise. **PulledRestatementSurfaces**: a changed payload of a pulled series is
  what its date reads, even when the fact has gone cold. **CrashesBoundCopies**: a read
  returns a row once, and once more for each death inside `tier_cold`, never more.
  What does not hold of the store is in the four configurations below.
* **ImplementsTrail**, **OneCallPerNight**: whichever processes overlap,
  re-run, back-fill or die, the calls are the trail the scorer was promised,
  though the set of calls logged is read once before the loop.
  **CallsRestOnTheirNight**: a back-fill never takes a judgment of a later night
  from the cache. **ArtifactMatchesRecord**: what a re-run shows as decided is what
  was committed on the same brief. **NoCallForNonDecision**: an abstention enters the
  record only when the night could see nothing to argue, though the view may move
  between two runs of it.
* **SettledIsClosed**: midnight and the close may pass inside a gather, reads may hang
  and answer late, and still no bar of an open session is taken as history.
  **HolesOnlyWhenDeferred**: outages, refusals, deadlines and skipped nights
  leave no gap in the activity series; only the cap does.
* **BuildServesInForce**, **PastReadsStand**: the graph a night built serves every
  holding in force at its weight, once, on every date, whatever crashed before,
  and what it serves of the past no longer depends on when it is asked.
* **ListingGrows**, **PointsOfRecordedNights**, **RevalidationIsSound**: the order
  of the writes and the self-healing catalog never take back what a reader saw,
  and an unchanged validator means unchanged contents.
* **CeilingAccounted** says exactly how far a month can pass its ceiling: by one
  debate (asked before, charged after), the re-rank reads (no guard stands before them),
  and what no row of the ledger knew when a guard was seeded. **FinishedIsBookedOnce**
  and **RecordNeverAboveLedger**: however jobs overlap and die, the ledger has
  each finished job once, and the month a run record shows never counts
  tonight twice, though the ledger is read and appended to without the store.
* **SettledMovedOnlyByItsWindow**: a scored call stays scored, and only a bar
  dated inside its window moves its outcome. **LaterNeverMovesTheBrief**: a back-filled
  night reads of the factors, the gate and the scorecard what it would have
  read then. **MirrorMovesOnlyConfidence**: the feedback loop cannot turn a
  lean, or lift a confidence above what its bucket realised.
  **CappedFundsAreNeverBought**: over any bars, debates and scorecards.
* **OnlyListedFundsSurface**: old mapping rows never bring back a fund the feed stopped
  listing, across partial pulls, back-fills and re-listings.
  **FrozenMappingStands**: a second ingest of a date, after themes or sizes
  have moved, does not restate what was mapped: derived rows carry the date's own
  stamp, so the first wins. **SpineIsNeverTurned**: rounding to tie bands, the cheap
  read, the redundancy rule and the cut never put a fund before one that beats
  it by more than a band.
* **UndisturbedCopyIsACommit**: whatever jobs overlap and die, what a job renames into
  place is one commit of the store, unless another job's step fell inside its own copying
  (which does happen: `MCReplicaOverlap`). **InterruptsHitTheirOwn**,
  **EveryCallReturns**: the interrupt races the end of its statement, on a
  connection another call gets next, and neither hits that call nor loses the
  connection.

### Where the code and its documents disagree

Three runs check one sentence of the repository each and find it violated.

| Run | The sentence | What happens |
|---|---|---|
| `nightly_resume` | the resume is a re-run "for the same night" (RUNBOOK.md:280) | at 05:30 it resolves that morning's date and starts a new night |
| `graph_stale` | "no name carried forward as if still held" (graph/store.py:198) | `valid_to` is set only when an edge is created, so a window that was open when merged stays open |
| `emerging_live` | "the next `ingest` maps the discovered themes to funds and `run` surfaces them" (pipeline.py:222) | the live universe adapter writes every row with `valid` false (fund_universe.py:168), and the mapping admits valid rows only (pipeline.py:645): with the live sources no theme is ever mapped |

Eight more configurations show a disagreement when they are run by hand (`tlc -config
MCStoreCrash.cfg MCStore`, and so on); each checks the one property named and TLC
violates it. The last column is what does hold and is checked by the runs above.

| Configuration | The sentence | What happens | What holds |
|---|---|---|---|
| `MCStoreCrash` (TieringIsRelocation) | tier_cold is "a physical relocation, not a logical edit" (store/\_\_init\_\_.py:246) | a death between COPY and DELETE leaves rows in both tiers; the next `tier_cold` copies them again, so count, history and snapshot_id see them twice for good | CrashesBoundCopies: one copy more for each death |
| `MCStoreRefetch` (RefetchIsNoOp) | the window is "sized to comfortably exceed any ingest re-fetch lookback" so the dedup stays correct (config.py:147) | the window is 365 days, a seed pulls 650, and a fund younger than the seed is seeded every night (feed.py:491): unchanged rows gone cold are stored again | ImplementsLog: from the newest cutoff on it is a no-op |
| `MCStoreBackdated` (WrittenStands) | rows are stamped so that "a later disclosure never rewrites a past mapping" (pipeline.py:636) | a second ingest of a date whose rows went cold meets no conflict in the hot table: two payloads under one stamp | ImplementsLog: from the newest cutoff on a stamp is taken once |
| `MCStoreRelisted` (FreshRowIsRead) | a fund the feed re-lists "reads as listed again from its fresh row" (fund_universe.py:97) | a disclosure is stamped 22:00Z: one made earlier that day wins over a re-pull of the date stamped before 22:00Z | PulledRestatementSurfaces, of what only a source writes |
| `MCNightlyCrash` (CallsFollowDisclosure) | a vanished fund is disclosed "as of tonight" (pipeline.py:196) | a death after the first append makes the re-run skip the rest of the ingest, disclosures included | no property: what holds of a night holds whether or not its ingest was whole |
| `MCFeedGap` (DeferralDropsNothing) | a deferred fund resumes a later night, "nothing dropped" (feed.py:374) | the board's settled bar moves its watermark past the sessions it missed | HolesOnlyWhenDeferred: nothing but the cap drops a session |
| `MCPublishDrift` (CatalogCannotDrift) | the catalog "cannot drift" (RUNBOOK.md:77) | a death between a night's file and its entry leaves a night no later run lists | ListedNightsLoad, ListingGrows: what is listed opens and stays |
| `MCReplicaOverlap` (ReplicaIsACommit) | "the replica is a point-in-time copy" (replica.py:32-33) | with two jobs at a time, one may write the store while the other copies it, or both use one staging name | UndisturbedCopyIsACommit: only another job's step breaks it |

Met while modelling and only told here:

* A fund that has announced its end and vanishes gets no disclosure; a back-fill
  adds universe rows, and delistings, dated in the past.
* A settled call is immutable only to bars dated after its window
  (scorer.py:6-8): a late or restated bar inside it moves the outcome, which is what
  `SettledMovedOnlyByItsWindow` allows.
* "Every model call ... books one `Usage`" (RUNBOOK.md:312): a bare `run`, a job that
  aborts and one that dies book nothing. `blind` accounts for it.
* A re-run that meets the usage wall early shows an item it had already
  committed as deferred (pipeline.py:521 precedes the reading of the cache).
* A fund that surfaces under two themes shows the near misses of one of them
  (pipeline.py:802).
* A held fund whose board size is dead is skipped by the deep gather
  (ashare.py:166-168), though a held fund the board does not list is not.
* The prices' averages count every revision of a bar (factors/window.py), not
  the last of each date.
* A theme that is no longer qualified keeps its old mapping rows until they are stale.

## 4. What is proved

For every value of the constants that meets the named `ASSUME`s (evaluated by TLC
in every run). The bounds on days and counts are constants too, so the proofs do not
rest on them being small.

* **StoreProofs.** Every property of `store`, with no assumption that relates the lookback
  to the window, on runs of any dates: `StoreTypeCorrect`, `WindowStaysHot`,
  `StoreImplementsLog`, `ReadsArePointInTime`, `PulledRestatementsSurface`,
  `CopiesAreBounded`. What is news is decided from the hot table, so the refinement is
  not inductive. `IInv` (`StoreInvariant`) adds that cold rows are older than the horizon
  (`ColdIsOld`), that between COPY and DELETE the cutoff is part of the horizon
  (`HorizonPassed`) and the aged rows have been copied (`CopiedFirst`), and that the stamps of pulled keys lie in the past (`PulledPast`),
  which makes what a pull brings the latest. `CopiesAreBounded` has an invariant of its
  own (`FilesCountCrashes`): the files that hold a pulled row are at most the deaths, and
  one more once the row has left the hot table for good. `DerivedRowsStand`, of any rows: a series
  whose stamps follow from its dates is never restated in the table its append
  compares with, which is why a frozen mapping stands while it is hot (`FrozenStands` is
  that of the whole emerging list, which has no cold tier).
* **NightlyProofs.** `NightlyTypeCorrect`, `CallsUnique`, `CallsAttested`,
  `NightlyImplementsTrail`, `ArtifactAgrees`, `AbstentionsAreBlind`: every property of
  `nightly`, for any number of processes, items, slots and kinds of run. `IInv` adds where a process stands in its items (`Shape`), that a lean
  waiting for its commit rests on a debate of the cache (`Attested`), and that an id
  names its fund and night (`IdsName`), so the duplicate test by id is one by fund
  and night. The last two rest on a second invariant (`RecordInv`), inductive given the
  first: what an artifact shows and what a call records are both the newest
  judgment of a brief knowable on the night (`ShownJudged`, `CallsJudged`), of which
  there is one (`OneDebate`) and which no later debate unseats (`JudgmentStands`: a brief is
  argued on a night only when no night up to it has argued it); and no bar is learned
  and no view moves between the digest of an item and its commit (`NewestAtCommit`), because the
  process holds the store (`HeldByOne`).
* **FeedProofs.** Every property of `feed`, for any funds, listing dates, calendar, cap,
  threshold and retries. `SettledClosed`: `IInv` carries the claim back from the store to
  what has been gathered (`GatheredClosed`), the memo (`MemoClosed`) and the board
  (`BoardClosed`), which is pulled first and remains closed because a session does.
  `FeedTypeCorrect`: the price loop stays within the codes because the book's part and
  the others' have the order's length together (`ChosenSplits`).
  `NoHoleWithoutDeferral` rests on a second invariant, `GInv` (`RunsKeepWholeSpans`), whose
  idea is `Kept`: what a run holds of a fund's trading activity, when the cap did not
  defer the fund, leaves out no session up to where the board stands, back to where its
  pull starts. That is where the stored history ends; or, when only the price leg asked for
  the pull, it is the seed's floor, and then the history has no gap: what it lacks
  before the floor is smaller than one (`BegReachesBack`, `SmallerThanGap`). Two bars that are
  neighbours after an append were so before, or one of them is new and the sessions
  between them are too few to be a hole (`NewNeighbours`, `AppendMakesNoHole`). It needs
  one assumption beyond the types: some weekday lies in every seed window. The window is
  650 calendar days (prices.py:38), so the code's has hundreds of them.
* **HoldingsGraphProofs.** `GraphTypeCorrect`, `GraphServesInForce`,
  `GraphFreshIsExact`, `GraphPastStands`. `IInv`: stored snapshots were filed,
  an edge discloses one, its window closes at a later snapshot of the fund, and a
  snapshot the graph lacks is newer than all it has of that fund (`Lag`), which is
  why a merge over a stale graph still serves the latest.
* **ReadSideProofs**, of Publish. Every property of `publish`. `IInv`: a catalog entry is a night
  on disk (`Entries`), a run reaches its series only once its night stands
  (`Filing`), trails are finite, so a longer trail has another count.
* **LedgerProofs.** `LedgerTypeCorrect`, `LedgerCeiling`, `LedgerRecord`, for
  any jobs, months, prices and ceiling. The guard is a copy of the ledger, so
  `CeilingAccounted` is not inductive. `IInv` adds that a seeded job's guard, with
  what it has not charged yet and what its seed missed, covers the month (`Covered`:
  nobody else can meter while it holds the store); that what is not charged is
  the debate under way (`Uncharged`), which started under the ceiling (`Allowed`); that
  a debate under way is one of those left (`Ahead`); and that what the nightly
  read of the ledger stays on it (`PriorHolds`). `LedgerBookedOnce`: a month's ledger
  is the sum of what its finished jobs metered, no more and no less. Its invariant
  (`BInv`) adds that only finitely many jobs have begun (`Begun`) and which stage is which
  kind's (`KindFits`); the step that books one job more adds one element to the sum (`SumAdd`), which is proved of `MapThenSumSet` itself: the fold
  it is defined by exists (`FoldExists`), any element may come first (`FoldAnyFirst`),
  and only the elements count (`FoldsAgree`).
* **MirrorProofs.** Every property of `mirror`: `CappedNeverBought`, `BriefStands`,
  `SettledStands`, `MirrorBounded`, for any bars, books, answers of the seats and
  horizons: the gate is enforced on whatever a
  debate says (`GateCaps`), the last mark of a date is moved by no later bar (`MarkStands`),
  and a bar moves it to another mark, never to none (`MarkMoves`, `OutcomeStands`). And of
  the pure parts: `MirrorLeavesTheAction` (with any two scorecards the guardrails
  give one action), `NudgeBounded`, `ConservativeIsNearer` (of two presentation
  orders, the one nearer inaction). `MirrorBounded` puts them together for the scorecard
  a night really builds: the calls stay finite (`CallsFinite`), so a bucket it shows
  holds a rate (`RealisedTyped`: at least `BucketMinN` calls are counted), and a
  debate's confidence is a number, out of the seats (`_clamp01`) or out of the
  offline votes (`DebateTyped`, over a sum of votes, `SumTyped`).
* **ReadSideProofs**, of Replica. `InterruptsAreOwn`, for any connections and callers: a
  connection is in the queue or with one call (`Lent`, `Apart`), and the mark of an interrupt on a
  running statement is its own call's (`Spared`); a closed pool has no call out
  (`Closed`). `NoCallIsStuck`, the safety half of `EveryCallReturns`: while any call is out,
  some call has a step to take, because the pool loses no connection (`Kept`) and an
  interrupted statement stays marked until it ends (`Marked`). `ReplicaWhole` is
  `UndisturbedCopyIsACommit`, for any jobs in any overlap: the store file has one holder
  (`Held`), a job that closes it leaves a commit (`Closing`), and while nobody
  disturbs a job the store it copies and what it has staged are of that commit (`Copied`).

* **EmergingProofs.** Every property of `emerging`, for any disclosures the adapters can
  parse, listings, corpora, books and cheap reads. `EmergingInvariant`: `EInv` says that each
  series has one row per key, date and stamp (`Stamped`), so that a key reads one row back
  as of a date (`OneRead`); that a mapping row is of its own theme and fund and stamped
  with its own date; and that an end is none, the announced one, or the day the fund was
  found dropped. Each is true of what a gather pulls, what a research job writes and what
  a mapping infers (`PulledUniverse` to `LinksHold`), and an append keeps it
  (`AppendStamped`). `FrozenStands` follows from the stamps alone: a later row of the fact
  would have to be stamped later. `OnlyListedSurface` follows a fund that is read as listed
  and was not brought on the date (`ListedSurvives`): its last row is older and without an
  end, so the date's pull, which brought something, would have had it disclosed.
  `SpineStands`: a theme's candidates are one per fund, so the sort keys order the scores
  totally, and in a total order of a finite set every rank is taken, once (`RankTaken`), which
  makes `Sorted` the sorted sequence (`RankedLists`); what comes first is not
  behind by more than a band, because a bucket lies within half a band of its totals
  (`BucketNear`); and the greedy pass keeps a sorted subsequence and leaves out only a
  repeat of something kept, or what found the places taken (`KeepPasses`).
  `TopicsPartition`: the topics of a corpus partition its documents that carry a recurring word.

**Model-checked only.** `EveryCallReturns`: liveness under fairness and `ENABLED` are out
of the prover's reach, as are recursive operators.

Induction needs a way round too: the library's theorems take a predicate as a
parameter, which the provers cannot instantiate. Where a proof needs it (sums, the price
loop, the greedy pass, the newest of finitely many bars), the predicate is a set of numbers, and
`Induct` says that a set with 0 and all its successors has every number, from the
well-foundedness of `<` (`WFMin`). A recursive function's equation is then proved to have a
solution before it is used (`FoldExists`, `UpToExists`).

## 5. What is not modelled, and why

* Text, HTTP, HTML, prompts, subprocesses, row parsing, cron rendering, command-line
  arguments, field validation of the contract: formatting and I/O. Values of prices,
  holdings and scores where no property compares them.
* Cassettes: they replay recorded files. Emerging's recorded worlds are what
  they bring, for the series the funnel reads.
* Floating-point statistics: low volatility's standard deviation, the Brier score and the
  skill (displayed only), the Pearson correlation of a fund with the book (an input of
  `Links`). Other fractions are exact integers, on whose boundaries the double
  may fall to the other side; where the code's rounding decides a bucket it is modelled
  (`MiddleGoesUp`).
* The model-backed seats' words, BERTopic's embeddings and clustering, the live assessor's
  prompts: a seat or an assessor answers, raises or reports its quota; what it says is a
  choice out of a set.
* The benchmark legs of the A-share market, the research rows and the text streams: no decision
  modelled reads them.
* DuckDB's and the file system's own behaviour: an insert, a COPY, a DELETE and a
  rename are atomic; a copy of a file is not.
* A deadline of the replica that falls before its statement starts (see Fairness).
* A board whose date moves before the close (feed.py:459 says it does not).
* Between Emerging and its neighbours: its rows stay in one table, so what a second
  ingest of a date does once the first one's rows are cold is Store's question
  (`MCStoreBackdated`), not `FrozenMappingStands`; and its portfolios are a fund's last filing,
  while the durable graph keeps a window that was open when merged, which is
  HoldingsGraph's (`graph_stale`).
* Damage from outside other than a lost catalog. A bare `run` over a store nothing was ever
  ingested into: it stands on the bundled files alone.

## 6. Plan

Done, in this order: Readings/FactLog/Store, CallTrail/Nightly, Feed,
HoldingsGraph, Publish; then Ledger, Battery/Guardrails/Mirror,
Universe/Funnel/Discovery/Emerging, Replica; each with its proofs where the
prover reaches.

Next:

1. **Liveness of the feed**: every fund of the book seeds within so many nights
   when gathers complete. A fund younger than the seed window asks for a deep pull
   every night and takes a place under the cap (feed.py:491), so the claim
   needs a bound on their number.
2. **Overlapping publishers**: the catalog is read, extended and renamed without a
   lock (history.py:77), so two processes that publish at once may lose an entry. Publish takes
   one run at a time, as the schedule does.
