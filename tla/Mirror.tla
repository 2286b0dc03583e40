------------------------------- MODULE Mirror -------------------------------
(***************************************************************************)
(* The self-scoring loop over one fund of the book: bars arrive, provisional *)
(* or settled, in any order; a night reads a brief as of its date, debates,   *)
(* guards the lean and logs it as a call; a later night scores the calls      *)
(* whose horizon has passed against the bars the store holds by then, and the *)
(* scorecard it builds bears on the confidence of the next lean.              *)
(***************************************************************************)
EXTENDS Battery, Guardrails, Readings, SequencesExt

CONSTANTS
    Fund,
    Nav, SeedNav,   \* marks of a bar, of the bar the fund comes with
    Books,          \* the other histories a night may read (see States)
    Seats,          \* what the two seats and the synthesis may answer (_clamp01)
    ItemLists,      \* lists the fund may be on
    Horizon,        \* DEFAULT_HORIZON_D
    Window,         \* DEFAULT_WINDOW, in days
    MinN,           \* DEFAULT_MIN_N
    BucketMinN,     \* DEFAULT_BUCKET_MIN_N
    PatternMinN,    \* DEFAULT_PATTERN_MIN_N
    MaxDay,         \* bound: days
    MaxPulls,       \* bound: pulls that bring a bar
    MaxCalls        \* bound: calls

ASSUME MirrorAssumption ==
    /\ Nav \subseteq Nat \ {0} /\ SeedNav \subseteq Nav /\ ItemLists \subseteq Lists
    /\ \A s \in Seats : {s.fwd.confidence, s.rev.confidence} \subseteq 0..100
    /\ Horizon \in Nat \ {0} /\ Window \in Nat
    /\ MinN \in Nat \ {0} /\ BucketMinN \in Nat \ {0} /\ PatternMinN \in Nat \ {0}
    /\ MaxDay \in Nat \ {0} /\ MaxPulls \in Nat /\ MaxCalls \in Nat

VARIABLES
    day,        \* today
    pulls,      \* the instant of the last pull
    rows,       \* the prices series of the fund
    calls       \* the calls series

vars == <<day, pulls, rows, calls>>

Bar(date, at, nav, settled) ==
    [key |-> Fund, as_of |-> date, fetched_at |-> at,
     payload |-> [nav |-> nav, settled |-> settled]]

\* The fund comes seeded with one bar of the day before the first.
Init ==
    /\ day = 1 /\ pulls = 0
    /\ \E nav \in SeedNav : rows = {Bar(0, 0, nav, TRUE)}
    /\ calls = {}

-----------------------------------------------------------------------------
Earlier(r, s) ==
    r.as_of < s.as_of \/ (r.as_of = s.as_of /\ r.fetched_at < s.fetched_at)

\* The marks of the rows, oldest first.
InOrder(rs) ==
    LET seq == SetToSortSeq(rs, Earlier)
    IN  [i \in DOMAIN seq |-> seq[i].payload.nav]

\* Mutant: a factor reads every row of the store, whatever its date.
PriceNavsUnceiled(rs, asOf) == InOrder(rs)

\* price_navs: every revision of every bar dated up to the run's date.
PriceNavs(rs, asOf) == InOrder({r \in rs : r.as_of =< asOf})

-----------------------------------------------------------------------------
LeanDirection(action) ==
    CASE action = "buy_early" -> 1 [] action = "hold" -> 0 [] OTHER -> -1

\* classify_outcome over the return from `entry` to `exit`, flat within half a percent.
ClassifyOutcome(dir, entry, exit) ==
    LET flat == 200 * Magnitude(exit - entry) =< entry
        hit  == CASE dir = 0 -> flat [] dir = 1 -> ~flat /\ exit > entry
                  [] dir = -1 -> ~flat /\ exit < entry
    IN  IF hit THEN "hit" ELSE "miss"

\* The last row dated up to `date`: its latest revision.
Mark(rs, date) == {r \in rs : r.as_of =< date /\ \A s \in rs : s.as_of =< date => NotBefore(s, r)}

\* Mutant: the exit is the last mark of the run's date, not of the horizon's end.
ForwardMarksAtRun(rs, c, asOf) ==
    IF c.as_of + Horizon > asOf THEN {}
    ELSE {p \in Mark(rs, c.as_of) \X Mark(rs, asOf) : p[2].as_of > p[1].as_of}

\* _forward_return: the entry and exit marks, none while it is not resolvable.
ForwardMarks(rs, c, asOf) ==
    IF c.as_of + Horizon > asOf THEN {}
    ELSE {p \in Mark(rs, c.as_of) \X Mark(rs, c.as_of + Horizon) : p[2].as_of > p[1].as_of}

\* score_call: "pending" while there is nothing to mark it against.
Outcome(rs, c, asOf) ==
    IF c.action = "abstain" THEN "abstain"
    ELSE LET marks == ForwardMarks(rs, c, asOf)
         IN  IF marks = {} THEN "pending"
             ELSE LET m == CHOOSE p \in marks : TRUE
                  IN  ClassifyOutcome(LeanDirection(c.action), m[1].payload.nav, m[2].payload.nav)

-----------------------------------------------------------------------------
Hits(rs, cs, asOf) == Cardinality({c \in cs : Outcome(rs, c, asOf) = "hit"})

\* score_calls and build_scorecard's trim: the decided calls of the rolling window.
Decided(rs, cs, asOf) ==
    {c \in cs : /\ c.as_of =< asOf /\ c.as_of >= asOf - Window
                /\ Outcome(rs, c, asOf) \in {"hit", "miss"}}

\* A logged confidence is rounded to ten-thousandths.
Bp == Fine \div 100

\* reliability_buckets: realised rates in Fine units, small buckets hidden.
ReliabilityBuckets(rs, decided, asOf) ==
    LET group(k) == {c \in decided : Bucket(c.confidence * Bp) = k}
    IN  {[bucket |-> k,
          realised |-> (100 * Fine * Hits(rs, group(k), asOf)) \div Cardinality(group(k))] :
            k \in {n \in {Bucket(c.confidence * Bp) : c \in decided} :
                        Cardinality(group(n)) >= BucketMinN}}

\* weak_patterns: mean stated confidence more than a tenth above the realised rate.
WeakPatterns(rs, decided, asOf) ==
    LET group(p) == {c \in decided : c.pattern = p}
        stated(p) == MapThenSumSet(LAMBDA c : c.confidence, group(p))
    IN  {p \in {c.pattern : c \in decided} :
            /\ Cardinality(group(p)) >= PatternMinN
            /\ stated(p) - 10000 * Hits(rs, group(p), asOf) > 1000 * Cardinality(group(p))}

NoMirror == [reliability |-> {}, weak |-> {}]

\* build_scorecard, gated below MinN decided calls.
BuildScorecard(rs, cs, asOf) ==
    LET decided == Decided(rs, cs, asOf)
    IN  IF Cardinality(decided) < MinN THEN NoMirror
        ELSE [reliability |-> ReliabilityBuckets(rs, decided, asOf),
              weak |-> WeakPatterns(rs, decided, asOf)]

-----------------------------------------------------------------------------
StatesOf == [book \in Books |-> BookStates(book)]

\* What the store holds of the fund as of a date.
Reads(asOf) ==
    [navs |-> PriceNavs(rows, asOf), mark |-> Mark(rows, asOf),
     mirror |-> BuildScorecard(rows, calls, asOf)]

\* _build_items: what the night of `asOf` puts before the seats.
Brief(asOf, reads, l, book) ==
    [as_of |-> asOf, list |-> l, states |-> PriceStates(reads.navs) \cup StatesOf[book],
     gate |-> Gate(reads.navs),
     evidence |-> {[src |-> "akshare", as_of |-> r.as_of] : r \in reads.mark},
     mirror |-> reads.mirror]

\* What a debate may come to: the seats of a model, or the offline provider.
DebatesOf(b) ==
    {FakeDebate(b)} \cup {RunDebate(s.bull, s.bear, s.fwd, s.rev) : s \in Seats}

WindowOpen(asOf) == \E r \in rows : r.as_of > asOf

\* A pull brings a bar: closed sessions as settled, past the watermark or, while the
\* fund is seeded, from its floor on; the session under way as provisional.
Pull(date, nav, settled) ==
    /\ pulls < MaxPulls
    /\ settled \/ date = day
    /\ pulls' = pulls + 1
    /\ rows' = AppendTo(rows, {Bar(date, pulls', nav, settled)})
    /\ UNCHANGED <<day, calls>>

\* _attach_leans for the fund on a night of `asOf`: digest_item, then log_call unless the
\* night has its call or its outcome can be seen.
Night(asOf) ==
    /\ Cardinality(calls) < MaxCalls
    /\ \A c \in calls : c.as_of # asOf
    /\ ~WindowOpen(asOf)
    /\ LET reads == Reads(asOf)
       IN  \E l \in ItemLists, book \in Books :
            LET b == Brief(asOf, reads, l, book)
            IN  \E d \in DebatesOf(b) :
                    LET lean == Digest(b, d)
                    IN  calls' = calls \cup
                            {[as_of |-> asOf, action |-> lean.action,
                              confidence |-> (lean.confidence + Bp \div 2) \div Bp,
                              pattern |-> Tokens(b)]}
    /\ UNCHANGED <<day, pulls, rows>>

NextDay ==
    /\ day < MaxDay
    /\ day' = day + 1
    /\ UNCHANGED <<pulls, rows, calls>>

Next ==
    \/ \E date \in 1..day, nav \in Nav, settled \in BOOLEAN : Pull(date, nav, settled)
    \/ \E asOf \in 1..day : Night(asOf)
    \/ NextDay

Spec == Init /\ [][Next]_vars

-----------------------------------------------------------------------------
(* Properties *)

\* No call buys a fund that the bars known when it is made have below its average, and
\* a fund with too few of them gets no call but an abstention (compute_gate,
\* _enforce_gate), whatever the seats answer and whatever the mirror holds.
CappedFundsAreNeverBought ==
    [][\A c \in calls' \ calls :
        LET gate == Gate(PriceNavs(rows, c.as_of))
        IN  /\ gate = "capped" => c.action # "buy_early"
            /\ gate = "unknown" => c.action = "abstain"]_vars

\* "It can never change a factor state, open the trend gate" (scorecard.py): with the
\* scorecard or without, a night's lean is the same one, and the scorecard raises its
\* confidence at most to what its bucket realised.
MirrorMovesOnlyConfidence ==
    LET reads == Reads(day)
    IN  reads.mirror # NoMirror => \A l \in ItemLists, book \in Books :
            LET b == Brief(day, reads, l, book)
            IN  \A d \in DebatesOf(b) :
                    LET seen == Digest(b, d)
                        bare == Digest([b EXCEPT !.mirror = NoMirror], d)
                    IN  /\ seen.action = bare.action
                        /\ \/ seen.confidence =< bare.confidence
                           \/ \E r \in reads.mirror.reliability :
                                    seen.confidence =< r.realised

\* What a night reads as of its date, the scorecard included, is moved by no bar and
\* no call dated later (the point-in-time filters of the factors and the scorer).
LaterNeverMovesTheBrief ==
    [][\A asOf \in 1..(day - 1) :
        (/\ \A r \in rows' \ rows : r.as_of > asOf
         /\ \A c \in calls' \ calls : c.as_of > asOf)
            => Reads(asOf)' = Reads(asOf)]_vars

\* "Prices that arrive after the window can never move a score that has resolved"
\* (scorer.py), as far as it goes: a resolved call stays resolved, and its outcome is
\* moved only by a bar dated within its window.
SettledMovedOnlyByItsWindow ==
    [][\A c \in calls :
        Outcome(rows, c, day) # "pending"
            => LET after == Outcome(rows', c, day')
               IN  /\ after # "pending"
                   /\ \/ after = Outcome(rows, c, day)
                      \/ \E r \in rows' \ rows : r.as_of =< c.as_of + Horizon]_vars
=============================================================================
