---------------------------------- MODULE Feed ----------------------------------
(***************************************************************************)
(* The live feed's load shape (ingest/feed.py) inside one gather of the    *)
(* A-share market (markets/ashare.py): per fund, a K-line pull of a window *)
(* or the current bar of the shared spot board; a per-run cap on the pulls;*)
(* a breaker that gives up on a refusing host; a wall-clock deadline; and  *)
(* reads that hang, whose abandoned threads answer late.                   *)
(*                                                                         *)
(* A bar is its session date. Provisional rows are left out: every read of *)
(* this module excludes them (settled_watermarks). A gather can last for   *)
(* hours: the session closes, and midnight passes, while it runs. Nothing  *)
(* it read reaches the store before its end, in one append.                *)
(***************************************************************************)
EXTENDS Integers, Sequences, FiniteSets, FiniteSetsExt

CONSTANTS
    Order,          \* the fetch codes: book and core tier, then probation
    Book,           \* the held codes
    OnBoard,        \* the codes the spot board lists
    Listed,         \* per code, its first session
    Session,        \* the exchange's trading days
    Weekday,        \* Monday to Friday
    SeedDays,       \* _SEED_CALENDAR_DAYS
    GapSessions,    \* config.eastmoney_gap_sessions
    Cap,            \* config.eastmoney_deep_pull_cap
    Threshold,      \* the host breaker's
    Attempts,       \* _RETRY_ATTEMPTS
    MaxDay          \* bound: days

Code == {Order[i] : i \in DOMAIN Order}
Series == {"prices", "trading_activity"}
Day == 1..MaxDay
NoDay == 0

ASSUME FeedAssumption ==
    /\ Order \in Seq(Code) /\ Book \subseteq Code /\ OnBoard \subseteq Code
    /\ Session \subseteq Weekday /\ Weekday \subseteq Day
    /\ SeedDays \in Nat /\ GapSessions \in Nat /\ Cap \in Nat
    /\ Threshold \in Nat \ {0} /\ Attempts \in Nat \ {0}
    /\ MaxDay \in Nat /\ SeedDays < MaxDay
    /\ Listed \in [Code -> Day]
    /\ \E s \in Session : s =< SeedDays
    \* No seed window (650 days) is without a weekday.
    /\ \A d \in Day : SeedDays < d => \E w \in Weekday : d - SeedDays =< w /\ w =< d
    /\ \A c \in OnBoard : \E s \in Session : Listed[c] =< s /\ s =< SeedDays

\* What _em hands to both legs: the settled and the provisional NAV bars, and
\* the settled activity bars.
EmReadings == [nav : SUBSET Day, provisional : SUBSET Day, activity : SUBSET Day]
NoReadings == [nav |-> {}, provisional |-> {}, activity |-> {}]

VARIABLES
    day, closed,    \* the calendar; has today's session closed
    settled,        \* per series and code: the store's settled bars
    pc,             \* "idle", the universe loop, the price loop, the append
    at,             \* the position in the loop's order
    attempt,        \* reads of the current leg that hung
    stamp,          \* the run date (fetched_at)
    board,          \* the board snapshot's session
    budget,         \* deep pulls left
    streak,         \* consecutive refusals of the K-line host
    fetched, memo,  \* _em_cache: its codes, and what it has for them
    late,           \* codes with an abandoned pull still on its way
    deferred,       \* codes the cap sent to the board
    got             \* per series and code: settled bars gathered so far

runVars == <<at, attempt, stamp, board, budget, streak, fetched, memo, late, deferred, got>>
vars == <<day, closed, settled, pc, runVars>>

Nothing == [s \in Series |-> [c \in Code |-> {}]]

Init ==
    /\ day = SeedDays + 1 /\ closed = FALSE
    /\ settled = Nothing
    /\ pc = "idle" /\ at = 1 /\ attempt = 0
    /\ stamp = NoDay /\ board = NoDay
    /\ budget = 0 /\ streak = 0
    /\ fetched = {} /\ memo = [c \in Code |-> NoReadings]
    /\ late = {} /\ deferred = {}
    /\ got = Nothing

-----------------------------------------------------------------------------
(* The exchange *)

IsClosed(s) == s < day \/ (s = day /\ closed)
LastClosed == Max({s \in Session : IsClosed(s)})

\* Daily closes of a code on the other hosts: closed sessions only.
Closes(c) == {s \in Session : Listed[c] =< s /\ IsClosed(s)}
\* Its K-line: today's bar is in it while it still forms.
KLine(c) == {s \in Session : Listed[c] =< s /\ s =< day}

\* Bound: a gather ends before the next day's session closes ("multi-hour").
TimePasses ==
    /\ pc = "idle" \/ day = stamp
    /\ \/ ~closed /\ closed' = TRUE /\ day' = day
       \/ closed /\ day < MaxDay /\ closed' = FALSE /\ day' = day + 1
    /\ UNCHANGED <<settled, pc, runVars>>

-----------------------------------------------------------------------------
(* _load_shape *)

SeedFloor == stamp - SeedDays

\* settled_watermarks.
Watermark(s, c) == IF settled[s][c] = {} THEN NoDay ELSE Max(settled[s][c])

\* Mutant: the session that just closed is not counted.
SessionsInside(latest, through) ==
    Cardinality({d \in Weekday : latest < d /\ d < through})

\* _sessions_between: weekdays after one day and up to another.
SessionsBetween(latest, through) ==
    Cardinality({d \in Weekday : latest < d /\ d =< through})

Seeded(s, c) == \E d \in settled[s][c] : d =< SeedFloor

Cold(s, c) == Watermark(s, c) = NoDay \/ ~Seeded(s, c)
Gapped(s, c) ==
    SessionsBetween(Watermark(s, c), IF c \in OnBoard THEN board ELSE stamp) > GapSessions
Deep(s, c) == Cold(s, c) \/ Gapped(s, c)

\* Bars a leg keeps are strictly past its floor.
Floor(s, c) == IF Cold(s, c) THEN SeedFloor ELSE Watermark(s, c)

WantsPull(c) == \E s \in Series : Deep(s, c)

\* _em_start: one pull covers the legs that are deep.
Beg(c) == Min({IF Cold(s, c) THEN SeedFloor ELSE Watermark(s, c) + 1 :
                  s \in {s \in Series : Deep(s, c)}})

-----------------------------------------------------------------------------
(* What a fetch of a code brings *)

\* Mutant: a bar past the board's last session counts as settled.
AnySettled(c, bars) == bars

\* _settled_through.
SettledThrough(c, bars) == IF c \in OnBoard THEN {d \in bars : d =< board} ELSE bars

\* _deep, the K-line answered.
Pulled(c) ==
    LET window == {d \in KLine(c) : Beg(c) =< d}
        nav == {d \in window : Floor("prices", c) < d}
        activity == {d \in window : Floor("trading_activity", c) < d}
    IN  [nav |-> SettledThrough(c, nav),
         provisional |-> nav \ SettledThrough(c, nav),
         activity |-> SettledThrough(c, activity)]

\* _deep, the host refused or is given up on: Sina's closes if it answers, and
\* a provisional activity bar.
Fallbacks(c) ==
    {[nav |-> sina, provisional |-> {}, activity |-> {}] :
        sina \in {{}, {d \in Closes(c) : Floor("prices", c) < d}}}

\* The board's bar, settled when its session is the run date.
BoardBar(s, c) == IF c \in OnBoard /\ Floor(s, c) < board THEN {board} ELSE {}
OffBoard(c) ==
    IF board = stamp
    THEN [nav |-> BoardBar("prices", c), provisional |-> {},
          activity |-> BoardBar("trading_activity", c)]
    ELSE [nav |-> {}, provisional |-> BoardBar("prices", c), activity |-> {}]

-----------------------------------------------------------------------------
(* A gather *)

\* The price loop takes the held codes first, then the rest of the stream.
Chosen(codes) ==
    LET upTo[n \in 0..Len(Order)] ==
            IF n = 0 THEN <<>>
            ELSE IF Order[n] \in codes THEN Append(upTo[n - 1], Order[n]) ELSE upTo[n - 1]
    IN  upTo[Len(Order)]
PriceOrder == Chosen(Book) \o Chosen(Code \ Book)

Current == IF pc = "activity" THEN Order[at] ELSE PriceOrder[at]
InLoop == pc \in {"activity", "price"} /\ at =< Len(Order)
IsOpen == streak >= Threshold

\* The breaker is reset and the board pulled; a board or a universe that cannot
\* be read aborts the gather (see Abort).
StartGather ==
    /\ pc = "idle"
    /\ pc' = "activity" /\ at' = 1 /\ attempt' = 0
    /\ stamp' = day /\ board' = LastClosed
    /\ budget' = Cap /\ streak' = 0
    /\ fetched' = {} /\ memo' = [c \in Code |-> NoReadings]
    /\ late' = {} /\ deferred' = {} /\ got' = Nothing
    /\ UNCHANGED <<day, closed, settled>>

Memoise(c, result) ==
    fetched' = fetched \cup {c} /\ memo' = [memo EXCEPT ![c] = result]

\* The current leg runs _em on a code no leg has fetched yet.
Fetching == InLoop /\ Current \notin fetched /\ attempt < Attempts

\* Mutant: a pull is granted when the budget is spent.
GrantedUncapped == Fetching /\ WantsPull(Current) /\ ~IsOpen

\* _grant_deep_pull, asked only when the host is reachable.
Granted == Fetching /\ WantsPull(Current) /\ ~IsOpen /\ budget > 0

PullAnswers ==
    /\ Granted
    /\ budget' = budget - 1 /\ streak' = 0
    /\ Memoise(Current, Pulled(Current))
    /\ UNCHANGED <<day, closed, settled, pc, at, attempt, stamp, board, late, deferred, got>>

PullRefused ==
    /\ Granted
    /\ budget' = budget - 1 /\ streak' = streak + 1
    /\ \E result \in Fallbacks(Current) : Memoise(Current, result)
    /\ UNCHANGED <<day, closed, settled, pc, at, attempt, stamp, board, late, deferred, got>>

\* _with_timeout abandons the read; _with_retries tries again.
PullHangs ==
    /\ Granted
    /\ budget' = budget - 1
    /\ attempt' = attempt + 1
    /\ late' = late \cup {Current}
    /\ UNCHANGED <<day, closed, settled, pc, at, stamp, board, streak, fetched, memo, deferred, got>>

\* An abandoned thread is still running: its answer reaches memo and breaker.
LateAnswer(c) ==
    /\ pc # "idle" /\ c \in late
    /\ late' = late \ {c}
    /\ \/ streak' = 0 /\ Memoise(c, Pulled(c))
       \/ streak' = streak + 1 /\ \E result \in Fallbacks(c) : Memoise(c, result)
    /\ UNCHANGED <<day, closed, settled, pc, at, attempt, stamp, board, budget, deferred, got>>

\* The breaker is open: no pull can be made and no budget is spent.
FallsBack ==
    /\ Fetching /\ WantsPull(Current) /\ IsOpen
    /\ \E result \in Fallbacks(Current) : Memoise(Current, result)
    /\ UNCHANGED <<day, closed, settled, pc, at, attempt, stamp, board,
                   budget, streak, late, deferred, got>>

\* A warm code, or a code that wanted a pull after the budget was spent.
ReadsBoard ==
    /\ Fetching
    /\ \/ ~WantsPull(Current) /\ deferred' = deferred
       \/ WantsPull(Current) /\ ~IsOpen /\ budget = 0
            /\ deferred' = deferred \cup {Current}
    /\ Memoise(Current, OffBoard(Current))
    /\ UNCHANGED <<day, closed, settled, pc, at, attempt, stamp, board,
                   budget, streak, late, got>>

\* The last leg of the loop is followed by the next loop, then by the append.
Advance ==
    /\ attempt' = 0
    /\ IF at < Len(Order)
       THEN at' = at + 1 /\ pc' = pc
       ELSE at' = 1 /\ pc' = IF pc = "activity" THEN "price" ELSE "append"

Gather(s, bars) == got' = [got EXCEPT ![s][Current] = @ \cup bars]

\* The leg reads the memo - or has hung on every attempt and reads nothing.
LegReady == InLoop /\ (Current \in fetched \/ attempt = Attempts)
LegReading == memo[Current]

TakeActivity ==
    /\ pc = "activity" /\ LegReady
    /\ Gather("trading_activity", LegReading.activity)
    /\ Advance
    /\ UNCHANGED <<day, closed, settled, stamp, board, budget, streak, fetched, memo, late, deferred>>

\* The closes past the price watermark that Baostock and Mootdx bring.
OtherCloses(c) ==
    LET since == IF Watermark("prices", c) = NoDay THEN SeedFloor ELSE Watermark("prices", c)
    IN  {d \in Closes(c) : since < d}

\* None, one or both of them answer. _reconcile_history: where up to two sources
\* have a date the first of them is kept, of three the median one, whichever
\* source that is.
TakePrice ==
    /\ pc = "price" /\ LegReady
    /\ \E others \in 0..2 :
         LET closes == IF others = 0 THEN {} ELSE OtherCloses(Current)
         IN  \E kept \in SUBSET (LegReading.provisional \cap closes) :
               /\ others < 2 => kept = {}
               /\ Gather("prices", LegReading.nav \cup kept
                                     \cup (closes \ LegReading.provisional))
    /\ Advance
    /\ UNCHANGED <<day, closed, settled, stamp, board, budget, streak, fetched, memo, late, deferred>>

\* The deadline stops the universe loop before a code, and with it the price loop.
StopEarly ==
    /\ InLoop /\ attempt = 0 /\ (pc = "activity" => Current \notin fetched)
    /\ pc' = "append"
    /\ UNCHANGED <<day, closed, settled, runVars>>

Reset ==
    /\ pc' = "idle" /\ at' = 1 /\ attempt' = 0
    /\ stamp' = NoDay /\ board' = NoDay /\ budget' = 0 /\ streak' = 0
    /\ fetched' = {} /\ memo' = [c \in Code |-> NoReadings]
    /\ late' = {} /\ deferred' = {} /\ got' = Nothing

\* ingest appends everything the gather returned.
AppendGathered ==
    /\ pc = "append"
    /\ settled' = [s \in Series |-> [c \in Code |-> settled[s][c] \cup got[s][c]]]
    /\ Reset
    /\ UNCHANGED <<day, closed>>

\* An unreadable board, a systemic price failure or a crash: nothing is kept.
Abort ==
    /\ pc # "idle"
    /\ Reset
    /\ UNCHANGED <<day, closed, settled>>

-----------------------------------------------------------------------------
Next ==
    \/ TimePasses \/ StartGather
    \/ PullAnswers \/ PullRefused \/ PullHangs \/ FallsBack \/ ReadsBoard
    \/ \E c \in Code : LateAnswer(c)
    \/ TakeActivity \/ TakePrice \/ StopEarly
    \/ AppendGathered \/ Abort

Spec == Init /\ [][Next]_vars

-----------------------------------------------------------------------------
(* Properties *)

TypeOK ==
    /\ day \in Day /\ closed \in BOOLEAN
    /\ settled \in [Series -> [Code -> SUBSET Day]]
    /\ pc \in {"idle", "activity", "price", "append"}
    /\ at \in 1..(Len(Order) + 1) /\ attempt \in 0..Attempts
    /\ stamp \in Day \cup {NoDay} /\ board \in Session \cup {NoDay}
    /\ budget \in 0..Cap /\ streak \in Nat
    /\ fetched \in SUBSET Code /\ memo \in [Code -> EmReadings]
    /\ late \in SUBSET Code /\ deferred \in SUBSET Code
    /\ got \in [Series -> [Code -> SUBSET Day]]

\* A bar is settled history only when its session has closed, however long the
\* gather takes and whichever source, retry or late answer brought it.
SettledIsClosed ==
    \A s \in Series, c \in OnBoard : \A d \in settled[s][c] : IsClosed(d)

\* Two neighbouring settled activity bars with as many sessions missing between
\* them as the load shape calls a gap ("the default tolerates a small hole").
\* No source but the K-line has the bars of the past.
Holes(c) ==
    LET bars == settled["trading_activity"][c]
        missing(lo, hi) == {d \in Session : Listed[c] =< d /\ lo < d /\ d < hi}
    IN  {h \in bars \X bars :
            /\ h[1] < h[2] /\ \A d \in bars : ~(h[1] < d /\ d < h[2])
            /\ missing(h[1], h[2]) # {}
            /\ Cardinality(missing(h[1], h[2])) >= GapSessions}

\* Only the cap tears a hole into a history: after an outage, a refusal, a hang,
\* a holiday, skipped nights or a deadline the next pull starts where it stopped.
HolesOnlyWhenDeferred ==
    [][\A c \in Code \ deferred : Holes(c)' \subseteq Holes(c)]_vars

\* feed.py:347-351, 373: a fund the cap deferred "falls to the fresh spot bar and
\* its K-line seeding resumes a later night ... nothing dropped": the sessions a
\* seeded fund missed are still past its watermark, where a later pull starts.
DeferralDropsNothing ==
    [][\A c \in deferred : ~Cold("trading_activity", c) => Holes(c)' \subseteq Holes(c)]_vars
=============================================================================
