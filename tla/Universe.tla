------------------------------ MODULE Universe ------------------------------
(***************************************************************************)
(* Which funds a night fetches, which it believes are gone, and what their  *)
(* price is when three sources quote it. A size is in hundredths of 亿, a   *)
(* date is a day; Missing stands for a cell the source left empty.          *)
(***************************************************************************)
EXTENDS Integers, Sequences, FiniteSets, SequencesExt

CONSTANTS
    SeasoningDays,  \* SEASONING_DAYS, and the funnel's LAUNCH_SEASONING_DAYS
    Tolerance       \* corroboration_tolerance, in thousandths

ASSUME UniverseAssumption == SeasoningDays \in Nat /\ Tolerance \in Nat

Missing == -1
Unread == -101   \* no read, of a quantity that may be negative

CoreAum == 500
CoreAmount == 50
DeadAum == 50
DeadAmount == 1

\* The age of a fund is known: its launch is disclosed and not in the future.
Launched(inception, asOf) == inception # Missing /\ inception =< asOf
Young(inception, asOf) == Launched(inception, asOf) /\ asOf - inception < SeasoningDays

\* classify_tier: a fresh listing and an undisclosed size are never held against a fund.
Tier(size, inception, asOf) ==
    IF Young(inception, asOf) \/ Missing \in {size.aum, size.amount} THEN "probation"
    ELSE IF size.aum >= CoreAum /\ size.amount >= CoreAmount THEN "core"
    ELSE IF size.aum < DeadAum /\ size.amount < DeadAmount THEN "dead"
    ELSE "probation"

\* sorted: the elements of a finite set in the order of `before`, total on them. The
\* element at i is the one with i - 1 others before it.
Sorted(S, before(_, _)) ==
    [i \in 1..Cardinality(S) |->
        CHOOSE s \in S : Cardinality({o \in S : before(o, s)}) = i - 1]

Ascending(codes) == Sorted(codes, <)

\* _fetch_codes_by_priority: the book and the core tier, then probation; never a dead
\* fund of the board, though it be held.
FetchCodes(tier, book) ==
    LET alive == {f \in DOMAIN tier : tier[f] # "dead"}
        core  == {f \in alive : f \in book \/ tier[f] = "core"} \cup (book \ DOMAIN tier)
    IN  Ascending(core) \o Ascending(alive \ core)

\* The price leg: the book first, whatever its codes, then the rest of the stream.
PriceOrder(order, book) ==
    Ascending(book) \o SelectSeq(order, LAMBDA f : f \notin book)

-----------------------------------------------------------------------------
(* Delisting *)

\* The rows of the funds the feed stopped listing: a pull that brought nothing drops nobody.
Dropped(latest, asOf) ==
    IF \A r \in latest : r.as_of # asOf THEN {}
    ELSE {r \in latest : r.as_of < asOf /\ r.payload.delisting = 0}

\* delisting_disclosures
Disclosures(latest, asOf, stamp) ==
    {[r EXCEPT !.as_of = asOf, !.fetched_at = stamp, !.payload.delisting = asOf] :
        r \in Dropped(latest, asOf)}

\* still_listed: gone from the delisting day onward, a member before it.
StillListed(delisting, asOf) == delisting = 0 \/ delisting > asOf

-----------------------------------------------------------------------------
(* Reconciliation of one date's quotes, in source order *)

Gap(a, b) == IF a < b THEN b - a ELSE a - b
Apart(a, b) == a # 0 /\ 1000 * Gap(a, b) > Tolerance * a

Mark(nav, divergence) == [nav |-> nav, divergence |-> divergence]

\* select_reconciled over a same-day cohort of one, two or three sources: alone it is
\* believed, two keep the first and flag the gap, three take the median and flag the
\* farthest. The first quote at the median carries it.
SelectReconciled(q) ==
    IF Len(q) = 1 THEN Mark(q[1], Missing)
    ELSE IF Len(q) = 2 THEN Mark(q[1], IF Apart(q[1], q[2]) THEN q[2] ELSE Missing)
    ELSE LET median   == SortSeq(q, <)[2]
             far      == CHOOSE i \in DOMAIN q : \A j \in DOMAIN q :
                            \/ Gap(q[j], median) < Gap(q[i], median)
                            \/ Gap(q[j], median) = Gap(q[i], median) /\ i =< j
         IN  Mark(median, IF Apart(median, q[far]) THEN q[far] ELSE Missing)
=============================================================================
