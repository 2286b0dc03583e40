------------------------------- MODULE Store --------------------------------
(***************************************************************************)
(* DuckDBStore: the append-only, point-in-time store, with its hot DuckDB  *)
(* table and its cold Parquet files. A process that holds the store appends*)
(* batches and tiers old rows out; tier_cold is a COPY statement and a     *)
(* DELETE statement, and the process can die between the two.              *)
(*                                                                         *)
(* Observed are the keys a live source returns: a pull re-reads the last   *)
(* Lookback nights and stamps every row with the instant of the pull.      *)
(* Derived are the keys the program itself writes (theme_map, calls,       *)
(* debate_cache): dated with the run's night and stamped with a mark of    *)
(* that date. The universe is both: pulled, and disclosed delisted.        *)
(* A run's night is any date: an explicit --as-of always wins.             *)
(***************************************************************************)
EXTENDS Readings, FiniteSets, Sequences

CONSTANTS
    Observed,       \* keys pulled from a source
    Derived,        \* keys the program writes
    Payload,
    Lookback,       \* how many nights back a pull re-reads
    HotWindow,      \* config.hot_window_days, in nights
    FirstMark,      \* the instant night 1's own rows are stamped with
    MaxNight,       \* bound: dates
    MaxClock,       \* bound: instants
    MaxBatch,       \* bound: rows of a batch
    MaxFiles,       \* bound: cold files
    MaxCrashes      \* bound: crashes inside tier_cold

ASSUME StoreAssumption ==
    /\ Lookback \in Nat /\ HotWindow \in Nat
    /\ FirstMark \in Nat /\ MaxNight \in Nat \ {0} /\ MaxClock \in Nat
    /\ MaxBatch \in Nat /\ MaxFiles \in Nat /\ MaxCrashes \in Nat

VARIABLES
    hot,        \* the readings table of the DuckDB file
    cold,       \* the Parquet files, in the order COPY ... APPEND wrote them
    tiering,    \* TRUE between the COPY and the DELETE of tier_cold
    night,      \* the run's as_of
    now,        \* the instant of the last pull
    horizon,    \* history: the newest cutoff tier_cold was run with
    crashes

vars == <<hot, cold, tiering, night, now, horizon, crashes>>

Row == [key : Observed \cup Derived, as_of : Int, fetched_at : Nat, payload : Payload]

\* What a read sees: SELECT ... FROM readings UNION ALL ... read_parquet(...).
ColdRows == UNION {cold[i] : i \in DOMAIN cold}
Contents == hot \cup ColdRows

\* How often the UNION ALL returns a row: count, history and snapshot_id see it
\* as many times.
Copies(r) == (IF r \in hot THEN 1 ELSE 0)
             + Cardinality({i \in DOMAIN cold : r \in cold[i]})

Init ==
    /\ hot = {} /\ cold = <<>> /\ tiering = FALSE
    /\ night = 1 /\ now = 0 /\ horizon = 1 - HotWindow /\ crashes = 0

\* fetched_at_for: the stamp of what a run of date d writes itself, an instant of d that
\* a pull may precede, share or follow.
Mark(d) == FirstMark + d - 1

\* A skewed clock may date a bar a day ahead (pipeline.py:137).
Dates == {d \in (night - Lookback)..(night + 1) : d =< MaxNight}

\* What a pull at instant t can hand to append; a listing is dated with the run.
Pulled(t) ==
    [key : Observed \ Derived, as_of : Dates,
     fetched_at : {t}, payload : Payload]
    \cup [key : Observed \cap Derived, as_of : {night}, fetched_at : {t}, payload : Payload]

\* What a run writes itself: of a pulled key, the end of a listing tonight's pull left out.
Written ==
    {w \in [key : Derived, as_of : {night}, fetched_at : {Mark(night)}, payload : Payload] :
        w.key \in Observed => \E r \in ReadAsOf(Contents, night) :
                                   /\ r.key = w.key /\ r.as_of < night
                                   /\ r.payload # w.payload}

Batches(rows) == {batch \in SUBSET rows : batch # {} /\ Cardinality(batch) =< MaxBatch}

\* store.append(batch): one INSERT, atomic in DuckDB.
AppendBatch(batch) ==
    /\ ~tiering
    /\ hot' \in Appends(hot, batch)
    /\ UNCHANGED <<cold, tiering, night, horizon, crashes>>

AppendPulled ==
    \E t \in (now + 1)..MaxClock : \E batch \in Batches(Pulled(t)) :
        AppendBatch(batch) /\ now' = t

AppendWritten ==
    \E batch \in Batches(Written) : AppendBatch(batch) /\ now' = now

Cutoff == night - HotWindow

\* Mutant: the cutoff night itself is tiered too.
AgedInclusive == {r \in hot : r.as_of =< Cutoff}

Aged == {r \in hot : r.as_of < Cutoff}

Tiered ==
    /\ tiering' = TRUE
    /\ horizon' = IF horizon < Cutoff THEN Cutoff ELSE horizon
    /\ UNCHANGED <<hot, night, now, crashes>>

\* Mutant: tier_cold without its early return writes a file of no rows.
TierCopyAlways ==
    /\ ~tiering /\ Len(cold) < MaxFiles
    /\ cold' = Append(cold, Aged)
    /\ Tiered

\* tier_cold, first statement: COPY the aged rows to new Parquet files. With no
\* aged row tier_cold returns before it.
TierCopy ==
    /\ ~tiering /\ Len(cold) < MaxFiles
    /\ Aged # {}
    /\ cold' = Append(cold, Aged)
    /\ Tiered

\* Mutant: the DELETE keeps one night more than the COPY exported.
TierPruneLess ==
    /\ tiering
    /\ hot' = {r \in hot : r.as_of >= Cutoff - 1}
    /\ tiering' = FALSE
    /\ UNCHANGED <<cold, night, now, horizon, crashes>>

\* tier_cold, second statement: DELETE them from the hot table.
TierPrune ==
    /\ tiering
    /\ hot' = hot \ Aged
    /\ tiering' = FALSE
    /\ UNCHANGED <<cold, night, now, horizon, crashes>>

\* The process dies between the statements; both files keep what they hold.
Crash ==
    /\ tiering /\ crashes < MaxCrashes
    /\ tiering' = FALSE
    /\ crashes' = crashes + 1
    /\ UNCHANGED <<hot, cold, night, now, horizon>>

\* The next run, of the next night or of any other.
StartRun ==
    /\ ~tiering
    /\ night' \in 1..MaxNight
    /\ UNCHANGED <<hot, cold, tiering, now, horizon, crashes>>

Next == AppendPulled \/ AppendWritten \/ TierCopy \/ TierPrune \/ Crash \/ StartRun

Spec == Init /\ [][Next]_vars

-----------------------------------------------------------------------------
(* Properties *)

TypeOK ==
    /\ hot \in SUBSET Row
    /\ cold \in Seq((SUBSET Row) \ {{}})     \* an empty file is never written
    /\ tiering \in BOOLEAN
    /\ night \in 1..MaxNight
    /\ now \in 0..MaxClock
    /\ horizon \in Int
    /\ crashes \in 0..MaxCrashes

Log == INSTANCE FactLog WITH facts <- Contents

\* The two tiers together are an append-only log: no row is lost or edited by
\* tiering, by a crash in it, by a re-pull or by a run of another date; and from the
\* newest cutoff on, whatever the lookback and the dates run in between, a row enters
\* only with news (store/__init__.py:149-154).
ImplementsLog == Log!LogSpec

\* Every row dated from the newest cutoff on is in the hot table, the only one append
\* compares with (config.py:147-149), though later runs were of earlier dates.
HotHoldsTheWindow == \A r \in Contents : r.as_of >= horizon => r \in hot

\* What a reader of date d sees moves only when a row dated d or earlier is
\* disclosed: neither a later date nor tiering nor a crash moves it.
LaterDisclosureNeverMoves ==
    [][\A d \in (1 - Lookback)..MaxNight :
         ReadAsOf(Contents, d)' # ReadAsOf(Contents, d)
           => \E r \in Contents' \ Contents : r.as_of =< d]_vars

\* A changed payload of a series only its source writes surfaces, on any date and in
\* either tier: the row just written is what a read as of its own date returns.
PulledRestatementSurfaces ==
    [][\A r \in Contents' \ Contents :
         r.key \notin Derived => r \in ReadAsOf(Contents, r.as_of)']_vars

\* However often a reading is pulled and tiered, count, history and snapshot_id see it at
\* most once more for every process that died inside tier_cold: without a death, once.
CrashesBoundCopies ==
    ~tiering => \A r \in Contents : r.key \notin Derived => Copies(r) =< 1 + crashes

\* tier_cold's docstring (store/__init__.py:246): "a physical relocation, not a logical
\* edit, so the unioned read is byte-for-byte unchanged": when it has ended, a read finds
\* as many copies of a row as before its COPY.
TieringIsRelocation ==
    [][tiering /\ ~tiering' =>
         \A r \in Contents :
            Copies(r)' = Copies(r) - (IF r \in cold[Len(cold)] THEN 1 ELSE 0)]_vars

\* config.py:147-149: the hot window is "sized to comfortably exceed any ingest re-fetch
\* lookback so the append-time dedup ... stays correct": no row repeats the latest
\* revision the store already holds.
RefetchIsNoOp ==
    [][\A r \in Contents' \ Contents :
         \A s \in Revisions(Contents, r) : IsLatest(Contents, s) => s.payload # r.payload]_vars

\* pipeline.py:636-637: rows of a mapping are stamped with a "deterministic fetched_at,
\* so a later disclosure never rewrites a past mapping": no second payload under the
\* stamp of one the program wrote itself.
WrittenStands ==
    \A r, s \in Contents : r.key \notin Observed /\ SameStamp(r, s) => r = s

\* fund_universe.py:97-98: a fund the feed re-lists "reads as listed again from its fresh
\* row": what a pull brings and append keeps is what its date reads.
FreshRowIsRead ==
    [][\A r \in Contents' \ Contents :
         r.fetched_at = now' /\ now' # now => r \in ReadAsOf(Contents, r.as_of)']_vars
=============================================================================
