------------------------------- MODULE FeedProofs -------------------------------
(***************************************************************************)
(* What the store holds as settled has closed, and only the cap loses       *)
(* sessions, for any funds, calendar, cap, breaker threshold and retries,   *)
(* and a gather of any length.                                              *)
(*                                                                          *)
(* The first invariant (IInv) must reach back to where a bar comes from:    *)
(* what a run has gathered and what its memo holds are closed too, because  *)
(* the board's session was closed when it was pulled and stays closed while *)
(* the run goes on.                                                         *)
(*                                                                          *)
(* The second (GInv) says that a run leaves no session out of what it holds *)
(* of a fund, back to where its pull starts (Kept). That start is at the    *)
(* history's end, or it is in a seed window that a fund with no gap has     *)
(* nothing older than a gap before: what is missing there is too little.    *)
(***************************************************************************)
EXTENDS Feed, WellFoundedInduction, FiniteSetTheorems, TLAPS

AllClosed(bars) == \A d \in bars : IsClosed(d)

\* The bars and the calendar are in type.
BarsTyped ==
    /\ day \in Day /\ SeedDays < day /\ closed \in BOOLEAN
    /\ settled \in [Series -> [Code -> SUBSET Day]]
    /\ got \in [Series -> [Code -> SUBSET Day]]
    /\ memo \in [Code -> EmReadings]

\* A run's board shows a session that has closed.
BoardClosed == pc # "idle" => board \in Session /\ IsClosed(board)

StoredClosed == \A s \in Series, c \in OnBoard : AllClosed(settled[s][c])
GatheredClosed == \A s \in Series, c \in OnBoard : AllClosed(got[s][c])
MemoClosed == \A c \in OnBoard : AllClosed(memo[c].nav) /\ AllClosed(memo[c].activity)

IInv ==
    /\ BarsTyped
    /\ BoardClosed
    /\ StoredClosed
    /\ GatheredClosed
    /\ MemoClosed

\* What a fetch of a code may hand to its legs.
Sound(c, result) ==
    /\ result \in EmReadings
    /\ c \in OnBoard => AllClosed(result.nav) /\ AllClosed(result.activity)

-----------------------------------------------------------------------------
(* The calendar *)

\* What the constants say of the calendar and the board.
LEMMA Calendar ==
    /\ MaxDay \in Nat /\ SeedDays \in Nat /\ SeedDays < MaxDay
    /\ \A s \in Session : s \in Nat /\ 1 =< s /\ s =< MaxDay
    /\ \E s \in Session : s =< SeedDays
    /\ OnBoard \subseteq Code
<1>1. Session \subseteq Day  BY FeedAssumption
<1>2. MaxDay \in Nat /\ SeedDays \in Nat /\ SeedDays < MaxDay  BY FeedAssumption
<1>3. \A s \in Session : s \in Nat /\ 1 =< s /\ s =< MaxDay
  BY <1>1, <1>2 DEF Day
<1>4. \E s \in Session : s =< SeedDays  BY FeedAssumption
<1>5. OnBoard \subseteq Code  BY FeedAssumption
<1>. QED  BY <1>2, <1>3, <1>4, <1>5

\* A bounded set of numbers that is not empty has a largest member.
LEMMA MaxExists ==
    ASSUME NEW N \in Nat, NEW S \in SUBSET (0..N), S # {}
    PROVE  \E m \in S : \A x \in S : m >= x
<1> DEFINE T == {N - x : x \in S}
           R == OpToRel(<, Nat)
<1>1. T \subseteq Nat
  <2>1. ASSUME NEW x \in S  PROVE N - x \in Nat
    OBVIOUS
  <2>. QED  BY <2>1
<1>2. T # {}  OBVIOUS
<1>3. IsWellFoundedOn(R, Nat)  BY NatLessThanWellFounded
<1> HIDE DEF T, R
<1>4. PICK y \in T : \A z \in T : <<z, y>> \notin R
  BY <1>1, <1>2, <1>3, WFMin
<1> USE DEF T
<1>5. PICK m \in S : y = N - m  OBVIOUS
<1>6. ASSUME NEW x \in S  PROVE m >= x
  <2>1. <<N - x, y>> \notin R  BY <1>4
  <2>2. ~(N - x < y)  BY <2>1, <1>1, <1>4 DEF R, OpToRel
  <2>. QED  BY <2>2, <1>5
<1>. QED  BY <1>6

\* After the first seed window there is a last closed session.
LEMMA LastClosedIsClosed ==
    ASSUME day \in Day, SeedDays < day
    PROVE  LastClosed \in Session /\ IsClosed(LastClosed)
<1> USE Calendar
<1> DEFINE over == {s \in Session : IsClosed(s)}
<1>1. over \in SUBSET (0..MaxDay)  BY DEF Day
<1>2. over # {}  BY DEF IsClosed, Day
<1> HIDE DEF over
<1>3. \E m \in over : \A x \in over : m >= x  BY <1>1, <1>2, MaxExists
<1>4. Max(over) \in over  BY <1>3 DEF Max
<1>. QED  BY <1>4 DEF over, LastClosed

\* A bar up to a closed session has closed.
LEMMA ClosedBefore ==
    ASSUME day \in Day, NEW s \in Day, NEW d \in Day, IsClosed(s), d =< s
    PROVE  IsClosed(d)
BY DEF IsClosed, Day

\* While the calendar stands, what is closed is what was.
LEMMA CalendarStands ==
    ASSUME UNCHANGED <<day, closed>>, NEW d
    PROVE  IsClosed(d)' <=> IsClosed(d)
BY DEF IsClosed

-----------------------------------------------------------------------------
(* What a fetch brings *)

\* The K-line's window, cut at the board's session, has closed.
LEMMA PulledSound ==
    ASSUME IInv, pc # "idle", NEW c
    PROVE  Sound(c, Pulled(c))
<1> USE Calendar
<1>1. Session \subseteq Day  BY DEF Day
<1>2. Pulled(c) \in EmReadings
  BY <1>1 DEF Pulled, EmReadings, SettledThrough, KLine
<1>3. ASSUME c \in OnBoard
      PROVE  AllClosed(Pulled(c).nav) /\ AllClosed(Pulled(c).activity)
  <2>1. board \in Day /\ IsClosed(board) /\ day \in Day
    BY <1>1 DEF IInv, BoardClosed, BarsTyped
  <2>2. ASSUME NEW d \in Pulled(c).nav \cup Pulled(c).activity
        PROVE  d \in Day /\ d =< board
    BY <2>2, <1>1, <1>3 DEF Pulled, SettledThrough, KLine
  <2>. QED  BY <2>1, <2>2, ClosedBefore DEF AllClosed
<1>. QED  BY <1>2, <1>3 DEF Sound

\* Without the K-line there are Sina's closes or nothing.
LEMMA FallbackSound ==
    ASSUME NEW c, NEW result \in Fallbacks(c)
    PROVE  Sound(c, result)
<1> USE Calendar
<1>1. PICK sina \in {{}, {d \in Closes(c) : Floor("prices", c) < d}} :
         result = [nav |-> sina, provisional |-> {}, activity |-> {}]
  BY DEF Fallbacks
<1>2. Closes(c) \in SUBSET Day /\ AllClosed(Closes(c))  BY DEF Closes, AllClosed, Day
<1> HIDE DEF Closes, Floor
<1>3. sina \in SUBSET Day /\ AllClosed(sina)  BY <1>2 DEF AllClosed
<1>4. {} \in SUBSET Day /\ AllClosed({})  BY DEF AllClosed
<1>. QED  BY <1>1, <1>3, <1>4 DEF Sound, EmReadings

\* The board's bar is the board's session.
LEMMA OffBoardSound ==
    ASSUME IInv, pc # "idle", NEW c
    PROVE  Sound(c, OffBoard(c))
<1> USE Calendar
<1>1. board \in Day /\ IsClosed(board)  BY DEF IInv, BoardClosed, Day
<1>2. \A s \in Series : BoardBar(s, c) \in SUBSET Day /\ AllClosed(BoardBar(s, c))
  BY <1>1 DEF BoardBar, AllClosed
<1>3. "prices" \in Series /\ "trading_activity" \in Series  BY DEF Series
<1>4. {} \in SUBSET Day /\ AllClosed({})  BY DEF AllClosed
<1> HIDE DEF BoardBar
<1>. QED  BY <1>2, <1>3, <1>4 DEF OffBoard, Sound, EmReadings

-----------------------------------------------------------------------------
(* Steps *)

\* The invariant holds at the start.
LEMMA InvInit == Init => IInv
<1> SUFFICES ASSUME Init  PROVE IInv
  OBVIOUS
<1> USE Calendar DEF Init
<1>1. NoReadings \in EmReadings  BY DEF NoReadings, EmReadings
<1>2. Nothing \in [Series -> [Code -> SUBSET Day]]  BY DEF Nothing
<1>3. BarsTyped
  <2>1. day \in Day /\ SeedDays < day  BY DEF Day
  <2>2. memo \in [Code -> EmReadings]  BY <1>1
  <2>. QED  BY <1>2, <2>1, <2>2 DEF BarsTyped
<1>4. BoardClosed  BY DEF BoardClosed
<1>5. StoredClosed /\ GatheredClosed
  BY DEF StoredClosed, GatheredClosed, AllClosed, Nothing
<1>6. MemoClosed  BY DEF MemoClosed, AllClosed, NoReadings
<1>. QED  BY <1>3, <1>4, <1>5, <1>6 DEF IInv

\* A sound result joins the memo: what every fetch, in time or late, does.
LEMMA MemoiseKeeps ==
    ASSUME IInv, NEW c, NEW result, Sound(c, result), Memoise(c, result),
           UNCHANGED <<day, closed, settled, pc, board, got>>
    PROVE  IInv'
<1> USE DEF IInv
<1>1. memo' \in [Code -> EmReadings]  BY DEF Memoise, Sound, BarsTyped
<1>2. BarsTyped'  BY <1>1 DEF BarsTyped
<1>3. \A d : IsClosed(d)' <=> IsClosed(d)  BY CalendarStands
<1>4. BoardClosed'  BY <1>3 DEF BoardClosed
<1>5. StoredClosed' /\ GatheredClosed'
  BY <1>3 DEF StoredClosed, GatheredClosed, AllClosed
<1>6. ASSUME NEW f \in OnBoard
      PROVE  \A d \in memo'[f].nav \cup memo'[f].activity : IsClosed(d)
  <2>1. f \in Code  BY Calendar
  <2>2. memo'[f] = IF f = c THEN result ELSE memo[f]
    BY <2>1 DEF Memoise, BarsTyped
  <2>. QED  BY <2>2 DEF Sound, MemoClosed, AllClosed
<1>7. MemoClosed'  BY <1>3, <1>6 DEF MemoClosed, AllClosed
<1>. QED  BY <1>2, <1>4, <1>5, <1>7

\* Closed bars join what a leg has gathered of a code.
LEMMA GatherKeeps ==
    ASSUME IInv, NEW s \in Series, NEW bars,
           Current \in Code => bars \in SUBSET Day,
           Current \in OnBoard => AllClosed(bars),
           Gather(s, bars), BoardClosed',
           UNCHANGED <<day, closed, settled, memo>>
    PROVE  IInv'
<1> USE DEF IInv
<1>1. got' \in [Series -> [Code -> SUBSET Day]]  BY DEF Gather, BarsTyped
<1>2. BarsTyped'  BY <1>1 DEF BarsTyped
<1>3. \A d : IsClosed(d)' <=> IsClosed(d)  BY CalendarStands
<1>4. StoredClosed' /\ MemoClosed'
  BY <1>3 DEF StoredClosed, MemoClosed, AllClosed
<1>5. ASSUME NEW r \in Series, NEW c \in OnBoard, NEW d \in got'[r][c]
      PROVE  IsClosed(d)
  <2>1. c \in Code  BY Calendar
  <2>2. d \in got[r][c] \/ (c = Current /\ d \in bars)
    BY <1>5, <2>1 DEF Gather, BarsTyped
  <2>. QED  BY <2>2 DEF GatheredClosed, AllClosed
<1>6. GatheredClosed'  BY <1>3, <1>5 DEF GatheredClosed, AllClosed
<1>. QED  BY <1>2, <1>4, <1>6

\* Leaving the run with the calendar as it is, and closed bars in the store.
LEMMA ResetKeeps ==
    ASSUME IInv, Reset, UNCHANGED <<day, closed>>,
           settled' \in [Series -> [Code -> SUBSET Day]],
           \A s \in Series, c \in OnBoard : AllClosed(settled'[s][c])
    PROVE  IInv'
<1> USE DEF IInv, Reset
<1>1. NoReadings \in EmReadings  BY DEF NoReadings, EmReadings
<1>2. Nothing \in [Series -> [Code -> SUBSET Day]]  BY DEF Nothing
<1>3. BarsTyped'  BY <1>1, <1>2 DEF BarsTyped
<1>4. BoardClosed'  BY DEF BoardClosed
<1>5. \A d : IsClosed(d)' <=> IsClosed(d)  BY CalendarStands
<1>6. StoredClosed'  BY <1>5 DEF StoredClosed, AllClosed
<1>7. GatheredClosed'  BY Calendar DEF GatheredClosed, AllClosed, Nothing
<1>8. MemoClosed'  BY Calendar DEF MemoClosed, AllClosed, NoReadings
<1>. QED  BY <1>3, <1>4, <1>6, <1>7, <1>8

\* Time only closes sessions.
LEMMA TimeKeeps == ASSUME IInv, TimePasses  PROVE IInv'
<1> USE DEF IInv, runVars
<1>1. /\ day' \in Day /\ SeedDays < day' /\ closed' \in BOOLEAN
      /\ \A d \in Day : IsClosed(d) => IsClosed(d)'
  <2>1. day \in Nat /\ 1 =< day /\ day =< MaxDay /\ MaxDay \in Nat /\ SeedDays \in Nat
        /\ SeedDays < day
    BY Calendar DEF BarsTyped, Day
  <2>2. CASE ~closed /\ closed' = TRUE /\ day' = day
    BY <2>1, <2>2 DEF Day, IsClosed
  <2>3. CASE closed /\ day < MaxDay /\ closed' = FALSE /\ day' = day + 1
    <3>1. day' \in Day /\ SeedDays < day'  BY <2>1, <2>3 DEF Day
    <3>2. closed' \in BOOLEAN  BY <2>3
    <3>3. ASSUME NEW d \in Day, IsClosed(d)  PROVE d < day'
      <4>1. d =< day  BY <2>1, <3>3 DEF Day, IsClosed
      <4>. QED  BY <4>1, <2>1, <2>3 DEF Day
    <3>. QED  BY <3>1, <3>2, <3>3 DEF IsClosed
  <2>4. \/ ~closed /\ closed' = TRUE /\ day' = day
        \/ closed /\ day < MaxDay /\ closed' = FALSE /\ day' = day + 1
    BY DEF TimePasses
  <2>. QED  BY <2>2, <2>3, <2>4
<1>2. UNCHANGED <<settled, got, memo, pc, board>>  BY DEF TimePasses
<1>3. BarsTyped'  BY <1>1, <1>2 DEF BarsTyped
<1>4. BoardClosed'
  <2>1. pc # "idle" => board \in Day  BY Calendar DEF BoardClosed, Day
  <2>. QED  BY <1>1, <1>2, <2>1 DEF BoardClosed
<1>5. \A s \in Series, c \in OnBoard : settled[s][c] \in SUBSET Day /\ got[s][c] \in SUBSET Day
  BY Calendar DEF BarsTyped
<1>6. \A c \in OnBoard : memo[c] \in EmReadings  BY Calendar DEF BarsTyped
<1>7. StoredClosed'  BY <1>1, <1>2, <1>5 DEF StoredClosed, AllClosed
<1>8. GatheredClosed'  BY <1>1, <1>2, <1>5 DEF GatheredClosed, AllClosed
<1>9. MemoClosed'  BY <1>1, <1>2, <1>6 DEF MemoClosed, AllClosed, EmReadings
<1>. QED  BY <1>3, <1>4, <1>7, <1>8, <1>9

\* The run's start: the board shows the last closed session.
LEMMA StartKeeps == ASSUME IInv, StartGather  PROVE IInv'
<1> USE DEF IInv
<1>1. LastClosed \in Session /\ IsClosed(LastClosed)
  BY LastClosedIsClosed DEF BarsTyped
<1>2. \A d : IsClosed(d)' <=> IsClosed(d)  BY CalendarStands DEF StartGather
<1>3. BoardClosed'  BY <1>1, <1>2 DEF StartGather, BoardClosed
<1>4. NoReadings \in EmReadings  BY DEF NoReadings, EmReadings
<1>5. Nothing \in [Series -> [Code -> SUBSET Day]]  BY DEF Nothing
<1>6. BarsTyped'  BY <1>4, <1>5 DEF StartGather, BarsTyped
<1>7. StoredClosed'  BY <1>2 DEF StartGather, StoredClosed, AllClosed
<1>8. GatheredClosed'  BY Calendar DEF StartGather, GatheredClosed, AllClosed, Nothing
<1>9. MemoClosed'  BY Calendar DEF StartGather, MemoClosed, AllClosed, NoReadings
<1>. QED  BY <1>3, <1>6, <1>7, <1>8, <1>9

\* The price leg keeps its reading's settled bars and the closes.
LEMMA PriceKeeps == ASSUME IInv, TakePrice  PROVE IInv'
<1> USE DEF IInv
<1>1. UNCHANGED <<day, closed, settled, memo, board>> /\ pc # "idle"  BY DEF TakePrice
<1>2. BoardClosed'
  BY <1>1, CalendarStands DEF BoardClosed
<1>3. Closes(Current) \in SUBSET Day /\ AllClosed(Closes(Current))
  BY Calendar DEF Closes, AllClosed, Day
<1>4. Current \in Code => LegReading \in EmReadings  BY DEF BarsTyped, LegReading
<1>5. Current \in OnBoard => AllClosed(LegReading.nav)  BY DEF MemoClosed, LegReading
<1>6. PICK others \in 0..2 :
        LET closes == IF others = 0 THEN {} ELSE OtherCloses(Current)
        IN  \E kept \in SUBSET (LegReading.provisional \cap closes) :
              /\ others < 2 => kept = {}
              /\ Gather("prices", LegReading.nav \cup kept
                                    \cup (closes \ LegReading.provisional))
  BY DEF TakePrice
<1> DEFINE closes == IF others = 0 THEN {} ELSE OtherCloses(Current)
<1>7. PICK kept \in SUBSET (LegReading.provisional \cap closes) :
        Gather("prices", LegReading.nav \cup kept \cup (closes \ LegReading.provisional))
  BY <1>6
<1>8. closes \subseteq Closes(Current)  BY DEF OtherCloses
<1> DEFINE bars == LegReading.nav \cup kept \cup (closes \ LegReading.provisional)
<1> HIDE DEF closes
<1>9. Current \in Code => bars \in SUBSET Day  BY <1>3, <1>4, <1>7, <1>8 DEF EmReadings
<1>10. Current \in OnBoard => AllClosed(bars)  BY <1>3, <1>5, <1>7, <1>8 DEF AllClosed
<1>11. Gather("prices", bars)  BY <1>7
<1> HIDE DEF bars
<1>. QED  BY <1>1, <1>2, <1>9, <1>10, <1>11, GatherKeeps DEF Series

\* The activity leg keeps its reading's settled bars.
LEMMA ActivityKeeps == ASSUME IInv, TakeActivity  PROVE IInv'
<1> USE DEF IInv
<1>1. UNCHANGED <<day, closed, settled, memo, board>> /\ pc # "idle"  BY DEF TakeActivity
<1>2. BoardClosed'
  BY <1>1, CalendarStands DEF BoardClosed
<1>3. Current \in Code => LegReading.activity \in SUBSET Day
  BY DEF BarsTyped, LegReading, EmReadings
<1>4. Current \in OnBoard => AllClosed(LegReading.activity)  BY DEF MemoClosed, LegReading
<1>5. Gather("trading_activity", LegReading.activity)  BY DEF TakeActivity
<1>. QED  BY <1>1, <1>2, <1>3, <1>4, <1>5, GatherKeeps DEF Series

\* The append stores what was gathered.
LEMMA AppendKeeps == ASSUME IInv, AppendGathered  PROVE IInv'
<1> USE DEF IInv
<1>1. settled' \in [Series -> [Code -> SUBSET Day]]  BY DEF AppendGathered, BarsTyped
<1>2. \A s \in Series, c \in OnBoard : AllClosed(settled'[s][c])
  BY Calendar DEF AppendGathered, StoredClosed, GatheredClosed, AllClosed
<1>. QED  BY <1>1, <1>2, ResetKeeps DEF AppendGathered

\* What touches neither the bars, the calendar nor the board.
LEMMA OtherKeeps ==
    ASSUME IInv, pc # "idle",
           UNCHANGED <<day, closed, settled, board, memo, got>>
    PROVE  IInv'
<1> USE DEF IInv
<1>1. \A d : IsClosed(d)' <=> IsClosed(d)  BY CalendarStands
<1>2. BoardClosed'  BY <1>1 DEF BoardClosed
<1>3. BarsTyped'  BY DEF BarsTyped
<1>4. StoredClosed' /\ GatheredClosed' /\ MemoClosed'
  BY <1>1 DEF StoredClosed, GatheredClosed, MemoClosed, AllClosed
<1>. QED  BY <1>2, <1>3, <1>4

\* Every step of the calendar, the hosts and the gather keeps the invariant.
LEMMA InvStep == IInv /\ [Next]_vars => IInv'
<1> SUFFICES ASSUME IInv, [Next]_vars  PROVE IInv'
  OBVIOUS
<1>1. CASE TimePasses  BY <1>1, TimeKeeps
<1>2. CASE StartGather  BY <1>2, StartKeeps
<1>3. CASE PullAnswers
  BY <1>3, PulledSound, MemoiseKeeps DEF PullAnswers, Granted, Fetching, InLoop
<1>4. CASE PullRefused
  <2>1. PICK result \in Fallbacks(Current) : Memoise(Current, result)
    BY <1>4 DEF PullRefused
  <2>. QED  BY <1>4, <2>1, FallbackSound, MemoiseKeeps DEF PullRefused
<1>5. CASE PullHangs
  BY <1>5, OtherKeeps DEF PullHangs, Granted, Fetching, InLoop
<1>6. CASE FallsBack
  <2>1. PICK result \in Fallbacks(Current) : Memoise(Current, result)
    BY <1>6 DEF FallsBack
  <2>. QED  BY <1>6, <2>1, FallbackSound, MemoiseKeeps DEF FallsBack
<1>7. CASE ReadsBoard
  BY <1>7, OffBoardSound, MemoiseKeeps DEF ReadsBoard, Fetching, InLoop
<1>8. ASSUME NEW c \in Code, LateAnswer(c)  PROVE IInv'
  <2>1. pc # "idle" /\ UNCHANGED <<day, closed, settled, pc, board, got>>
    BY <1>8 DEF LateAnswer
  <2>2. PICK result : Memoise(c, result) /\ Sound(c, result)
    BY <1>8, <2>1, PulledSound, FallbackSound DEF LateAnswer
  <2>. QED  BY <2>1, <2>2, MemoiseKeeps
<1>9. CASE TakeActivity  BY <1>9, ActivityKeeps
<1>10. CASE TakePrice  BY <1>10, PriceKeeps
<1>11. CASE StopEarly
  <2>1. UNCHANGED <<day, closed, settled, board, memo, got>> /\ pc # "idle"
    BY <1>11 DEF StopEarly, InLoop, runVars
  <2>. QED  BY <2>1, OtherKeeps
<1>12. CASE AppendGathered  BY <1>12, AppendKeeps
<1>13. CASE Abort  BY <1>13, ResetKeeps DEF Abort, IInv, BarsTyped, StoredClosed
<1>14. CASE UNCHANGED vars
  <2>1. UNCHANGED <<day, closed, settled, pc, board, memo, got>>  BY <1>14 DEF vars, runVars
  <2>2. \A d : IsClosed(d)' <=> IsClosed(d)  BY <2>1, CalendarStands
  <2>. QED  BY <2>1, <2>2 DEF IInv, BarsTyped, BoardClosed, StoredClosed, GatheredClosed,
                             MemoClosed, AllClosed
<1>. QED  BY <1>1, <1>2, <1>3, <1>4, <1>5, <1>6, <1>7, <1>8, <1>9, <1>10, <1>11, <1>12,
             <1>13, <1>14 DEF Next

-----------------------------------------------------------------------------
(* The order of the price loop *)

\* A set with 0 and every successor of its numbers has every number.
LEMMA Induct ==
    ASSUME NEW T, 0 \in T, \A n \in Nat : n \in T => n + 1 \in T
    PROVE  Nat \subseteq T
<1> DEFINE R == OpToRel(<, Nat)
           Bad == {n \in Nat : n \notin T}
<1>1. SUFFICES ASSUME Bad # {}  PROVE FALSE  OBVIOUS
<1>2. IsWellFoundedOn(R, Nat)  BY NatLessThanWellFounded
<1>3. Bad \subseteq Nat  OBVIOUS
<1> HIDE DEF Bad, R
<1>4. PICK n \in Bad : \A m \in Bad : <<m, n>> \notin R
  BY <1>1, <1>2, <1>3, WFMin
<1> USE DEF Bad
<1>5. n \in Nat /\ n \notin T /\ n # 0  OBVIOUS
<1>6. n - 1 \in Nat /\ n - 1 < n  BY <1>5
<1>7. <<n - 1, n>> \in R  BY <1>5, <1>6 DEF R, OpToRel
<1>8. n - 1 \in T  BY <1>4, <1>6, <1>7
<1>. QED  BY <1>5, <1>6, <1>8

\* One unfolding, up to N, of the function Chosen is defined by.
UpTo(codes, N, f) ==
    [n \in 0..N |-> IF n = 0 THEN <<>>
                    ELSE IF Order[n] \in codes THEN Append(f[n - 1], Order[n]) ELSE f[n - 1]]

\* The function itself.
TheUpTo(codes) == CHOOSE f : f = UpTo(codes, Len(Order), f)

\* The chosen codes are its value at the end of the stream.
LEMMA ChosenIs == ASSUME NEW codes  PROVE Chosen(codes) = TheUpTo(codes)[Len(Order)]
BY DEF Chosen, TheUpTo, UpTo

\* The stream is a sequence of codes.
LEMMA OrderTyped == Len(Order) \in Nat /\ \A n \in 1..Len(Order) : Order[n] \in Code
BY FeedAssumption

\* The function exists, one position after the other.
LEMMA UpToExists ==
    ASSUME NEW codes
    PROVE  TheUpTo(codes) = UpTo(codes, Len(Order), TheUpTo(codes))
<1> DEFINE Done == {N \in Nat : \E f : f = UpTo(codes, N, f)}
<1>1. 0 \in Done
  <2> DEFINE f == [n \in 0..0 |-> <<>>]
  <2>1. f = UpTo(codes, 0, f)  BY DEF UpTo
  <2>. QED  BY <2>1
<1>2. ASSUME NEW N \in Nat, N \in Done  PROVE N + 1 \in Done
  <2>1. PICK f : f = UpTo(codes, N, f)  BY <1>2
  <2> DEFINE g == UpTo(codes, N + 1, f)
  <2>2. \A n \in 0..N : g[n] = f[n]
    <3>1. ASSUME NEW n \in 0..N  PROVE g[n] = f[n]
      <4>1. n \in 0..(N + 1)  OBVIOUS
      <4>2. UpTo(codes, N, f)[n] = UpTo(codes, N + 1, f)[n]  BY <4>1 DEF UpTo
      <4>. QED  BY <2>1, <4>2
    <3>. QED  BY <3>1
  <2> HIDE DEF g
  <2>3. \A n \in 0..(N + 1) : n # 0 => g[n - 1] = f[n - 1]
    <3>1. \A n \in 0..(N + 1) : n # 0 => n - 1 \in 0..N  OBVIOUS
    <3>. QED  BY <2>2, <3>1
  <2>4. UpTo(codes, N + 1, f) = UpTo(codes, N + 1, g)
    <3>1. ASSUME NEW n \in 0..(N + 1)
          PROVE  UpTo(codes, N + 1, f)[n] = UpTo(codes, N + 1, g)[n]
      BY <2>3 DEF UpTo
    <3>. QED  BY <3>1 DEF UpTo
  <2>5. g = UpTo(codes, N + 1, g)  BY <2>4 DEF g
  <2>. QED  BY <2>5
<1>3. Nat \subseteq Done
  <2> HIDE DEF Done
  <2>. QED  BY <1>1, <1>2, Induct
<1>4. Len(Order) \in Done  BY <1>3, OrderTyped
<1>. QED  BY <1>4 DEF TheUpTo

\* Each position is chosen once, by the codes or by the others.
LEMMA ChosenSplits ==
    ASSUME NEW codes
    PROVE  /\ Chosen(codes) \in Seq(Code) /\ Chosen(Code \ codes) \in Seq(Code)
           /\ Len(Chosen(codes)) + Len(Chosen(Code \ codes)) = Len(Order)
<1> DEFINE f == TheUpTo(codes)
           g == TheUpTo(Code \ codes)
           Good(n) == f[n] \in Seq(Code) /\ g[n] \in Seq(Code) /\ Len(f[n]) + Len(g[n]) = n
           Done == {n \in Nat : n =< Len(Order) => Good(n)}
<1>1. f = UpTo(codes, Len(Order), f) /\ g = UpTo(Code \ codes, Len(Order), g)
  BY UpToExists
<1> HIDE DEF f, g
<1>2. f[0] = <<>> /\ g[0] = <<>>  BY <1>1, OrderTyped DEF UpTo
<1>3. 0 \in Done
  <2>1. <<>> \in Seq(Code) /\ Len(<<>>) = 0  OBVIOUS
  <2>2. Good(0)  BY <1>2, <2>1
  <2> HIDE DEF Good
  <2>. QED  BY <2>2
<1>4. ASSUME NEW n \in Nat, n \in Done  PROVE n + 1 \in Done
  <2>1. SUFFICES ASSUME n + 1 =< Len(Order)  PROVE Good(n + 1)
    <3> HIDE DEF Good
    <3>. QED  OBVIOUS
  <2>2. Good(n) /\ n + 1 \in 0..Len(Order)
    <3> HIDE DEF Good
    <3>. QED  BY <1>4, <2>1, OrderTyped
  <2>3. Order[n + 1] \in Code  BY <2>1, OrderTyped
  <2>4. (n + 1) - 1 = n /\ n + 1 # 0  OBVIOUS
  <2>5. f[n + 1] = IF Order[n + 1] \in codes THEN Append(f[n], Order[n + 1]) ELSE f[n]
    BY <1>1, <2>2, <2>4 DEF UpTo
  <2>6. g[n + 1] = IF Order[n + 1] \in codes THEN g[n] ELSE Append(g[n], Order[n + 1])
    BY <1>1, <2>2, <2>3, <2>4 DEF UpTo
  <2>7. \A s \in Seq(Code) : /\ Append(s, Order[n + 1]) \in Seq(Code)
                            /\ Len(Append(s, Order[n + 1])) = Len(s) + 1
                            /\ Len(s) \in Nat
    BY <2>3
  <2>8. f[n] \in Seq(Code) /\ g[n] \in Seq(Code) /\ Len(f[n]) + Len(g[n]) = n  BY <2>2
  <2>9. f[n + 1] \in Seq(Code) /\ g[n + 1] \in Seq(Code)  BY <2>5, <2>6, <2>7, <2>8
  <2>10. Len(f[n + 1]) + Len(g[n + 1]) = n + 1
    <3>1. PICK a \in Nat, b \in Nat : a = Len(f[n]) /\ b = Len(g[n])  BY <2>7, <2>8
    <3>2. PICK p, q : p = Len(f[n + 1]) /\ q = Len(g[n + 1])  OBVIOUS
    <3>3. a + b = n  BY <2>8, <3>1
    <3>4. (p = a + 1 /\ q = b) \/ (p = a /\ q = b + 1)
      BY <2>5, <2>6, <2>7, <2>8, <3>1, <3>2
    <3>5. p + q = n + 1  BY <3>3, <3>4
    <3>. QED  BY <3>2, <3>5
  <2>. QED  BY <2>9, <2>10
<1>5. Nat \subseteq Done
  <2> HIDE DEF Done
  <2>. QED  BY <1>3, <1>4, Induct
<1>6. Good(Len(Order))
  <2> HIDE DEF Good
  <2>. QED  BY <1>5, OrderTyped
<1>. QED  BY <1>6, ChosenIs DEF f, g

\* The price loop has a code for every position of the universe loop.
LEMMA PriceOrderTyped == \A n \in 1..Len(Order) : PriceOrder[n] \in Code
<1>1. /\ Chosen(Book) \in Seq(Code) /\ Chosen(Code \ Book) \in Seq(Code)
      /\ Len(Chosen(Book)) + Len(Chosen(Code \ Book)) = Len(Order)
  BY ChosenSplits
<1>2. PriceOrder \in Seq(Code) /\ Len(PriceOrder) = Len(Order)
  BY <1>1 DEF PriceOrder
<1>. QED  BY <1>2

\* A loop is always at a code.
LEMMA CurrentTyped == ASSUME InLoop, at \in 1..(Len(Order) + 1)  PROVE Current \in Code
BY PriceOrderTyped, OrderTyped DEF InLoop, Current

-----------------------------------------------------------------------------
(* TypeOK in two parts beside the bars' types. *)

\* Where the run is.
Placed ==
    /\ pc \in {"idle", "activity", "price", "append"}
    /\ at \in 1..(Len(Order) + 1) /\ attempt \in 0..Attempts
    /\ stamp \in Day \cup {NoDay} /\ board \in Session \cup {NoDay}
\* What it counts, and the codes it has dealt with.
Counted ==
    /\ budget \in 0..Cap /\ streak \in Nat
    /\ fetched \in SUBSET Code /\ late \in SUBSET Code /\ deferred \in SUBSET Code

\* The type invariant is its parts.
LEMMA TypeParts == TypeOK /\ SeedDays < day <=> BarsTyped /\ Placed /\ Counted
BY DEF TypeOK, BarsTyped, Placed, Counted

\* Bounds of the constants.
LEMMA Bounds ==
    /\ Cap \in Nat /\ Attempts \in Nat /\ Attempts # 0 /\ Threshold \in Nat
    /\ Len(Order) \in Nat /\ Session \subseteq Day /\ MaxDay \in Nat
BY FeedAssumption, OrderTyped

\* A run starts in type.
LEMMA PlacedInit == Init => Placed /\ Counted
BY Bounds DEF Init, Placed, Counted

\* The end of a run, whatever its cause.
LEMMA ResetPlaced == ASSUME Reset  PROVE Placed' /\ Counted'
BY Bounds DEF Reset, Placed, Counted

\* Every step keeps the counters, the positions and the codes in type.
LEMMA PlacedStep ==
    ASSUME IInv, Placed, Counted, [Next]_vars
    PROVE  Placed' /\ Counted'
<1>1. InLoop => Current \in Code  BY CurrentTyped DEF Placed
<1>2. CASE TimePasses  BY <1>2 DEF TimePasses, runVars, Placed, Counted
<1>3. CASE StartGather
  <2>1. LastClosed \in Session /\ day \in Day
    BY LastClosedIsClosed DEF IInv, BarsTyped
  <2>. QED  BY <1>3, <2>1, Bounds DEF StartGather, Placed, Counted
<1>4. CASE PullAnswers
  BY <1>1, <1>4, Bounds DEF PullAnswers, Granted, Fetching, Memoise, Placed, Counted
<1>5. CASE PullRefused
  BY <1>1, <1>5, Bounds DEF PullRefused, Granted, Fetching, Memoise, Placed, Counted
<1>6. CASE PullHangs
  BY <1>1, <1>6, Bounds DEF PullHangs, Granted, Fetching, Placed, Counted
<1>7. CASE FallsBack
  BY <1>1, <1>7 DEF FallsBack, Fetching, Memoise, Placed, Counted
<1>8. CASE ReadsBoard
  BY <1>1, <1>8 DEF ReadsBoard, Fetching, Memoise, Placed, Counted
<1>9. ASSUME NEW c \in Code, LateAnswer(c)  PROVE Placed' /\ Counted'
  BY <1>9 DEF LateAnswer, Memoise, Placed, Counted
<1>10. CASE TakeActivity
  <2>1. Advance /\ InLoop  BY <1>10 DEF TakeActivity, LegReady
  <2>. QED  BY <1>10, <2>1, Bounds DEF TakeActivity, Advance, InLoop, Placed, Counted
<1>11. CASE TakePrice
  <2>1. Advance /\ InLoop  BY <1>11 DEF TakePrice, LegReady
  <2>. QED  BY <1>11, <2>1, Bounds DEF TakePrice, Advance, InLoop, Placed, Counted
<1>12. CASE StopEarly  BY <1>12 DEF StopEarly, runVars, Placed, Counted
<1>13. CASE AppendGathered \/ Abort  BY <1>13, ResetPlaced DEF AppendGathered, Abort
<1>14. CASE UNCHANGED vars  BY <1>14 DEF vars, runVars, Placed, Counted
<1>. QED  BY <1>2, <1>3, <1>4, <1>5, <1>6, <1>7, <1>8, <1>9, <1>10, <1>11, <1>12,
             <1>13, <1>14 DEF Next

-----------------------------------------------------------------------------
(* Histories without holes *)

\* The series whose past only the K-line has.
Activity == "trading_activity"

\* How far a code's history can go while the run date and the board stand.
Reach(c) == IF c \in OnBoard THEN board ELSE stamp

\* The sessions a code can have a bar of.
ListedSessions(c) == {d \in Session : Listed[c] =< d}

\* What a run may hold of a code's activity unless the cap deferred it: after a pull,
\* all the sessions from its start to its last bar and to the reach; the bar of the
\* board otherwise.
Kept(c, bars) ==
    /\ \A b \in bars : b \in ListedSessions(c) /\ Floor(Activity, c) < b
    /\ c \in OnBoard => \A b \in bars : b =< board
    /\ IF WantsPull(c)
       THEN /\ \A b \in bars : Beg(c) =< b
            /\ bars # {} => \A d \in ListedSessions(c) :
                 /\ Floor(Activity, c) < d /\ Beg(c) =< d
                 /\ d =< Reach(c) \/ \E b \in bars : d < b
                 => d \in bars
       ELSE \A b \in bars : b = board /\ c \in OnBoard

\* A bar is a session of its code's life, and of no day to come.
OnCalendar ==
    \A c \in Code :
        \A bars \in {settled[Activity][c], got[Activity][c], memo[c].activity} :
            \A d \in bars : d \in ListedSessions(c) /\ d =< day

\* A run's date and board are no later than the calendar, and reach what is stored.
RunDates ==
    pc # "idle" =>
        /\ stamp \in Day /\ SeedDays < stamp /\ stamp =< day
        /\ board \in Session /\ board =< stamp
        /\ \A c \in OnBoard : Listed[c] =< board
        /\ \A c \in Code : \A d \in settled[Activity][c] : d =< Reach(c)

\* Only a code that wants a pull has one on its way, and nothing is left out of a code
\* the cap did not defer.
RunKeeps ==
    pc # "idle" =>
        /\ \A c \in late : WantsPull(c)
        /\ \A c \in Code \ deferred :
               \A bars \in {memo[c].activity, got[Activity][c]} : Kept(c, bars)

\* All of it.
GInv == IInv /\ OnCalendar /\ RunDates /\ RunKeeps

-----------------------------------------------------------------------------
\* A set of numbers that is not empty has a least member.
LEMMA MinExists ==
    ASSUME NEW S \in SUBSET Nat, S # {}
    PROVE  \E m \in S : \A x \in S : m =< x
<1> DEFINE R == OpToRel(<, Nat)
<1>1. IsWellFoundedOn(R, Nat)  BY NatLessThanWellFounded
<1> HIDE DEF R
<1>2. PICK m \in S : \A x \in S : <<x, m>> \notin R  BY <1>1, WFMin
<1>3. ASSUME NEW x \in S  PROVE m =< x
  <2>1. <<x, m>> \notin R  BY <1>2
  <2>2. ~(x < m)  BY <2>1 DEF R, OpToRel
  <2>. QED  BY <2>2
<1>. QED  BY <1>3

\* The watermark of a series is its newest bar.
LEMMA WatermarkIsNewest ==
    ASSUME BarsTyped, NEW s \in Series, NEW c \in Code
    PROVE  /\ Watermark(s, c) \in Nat
           /\ settled[s][c] = {} => Watermark(s, c) = 0
           /\ settled[s][c] # {} => Watermark(s, c) \in settled[s][c]
           /\ \A d \in settled[s][c] : d \in Nat /\ d =< Watermark(s, c)
<1> DEFINE bars == settled[s][c]
<1>1. MaxDay \in Nat  BY Calendar
<1>2. bars \in SUBSET (0..MaxDay)  BY <1>1 DEF BarsTyped, Day
<1>3. CASE bars = {}  BY <1>3 DEF Watermark, NoDay
<1>4. CASE bars # {}
  <2>1. \E m \in bars : \A x \in bars : m >= x
    <3> HIDE DEF bars
    <3>. QED  BY <1>1, <1>2, <1>4, MaxExists
  <2>2. Max(bars) \in bars /\ \A x \in bars : Max(bars) >= x
    <3> HIDE DEF bars
    <3>. QED  BY <2>1 DEF Max
  <2>3. Watermark(s, c) = Max(bars)  BY <1>4 DEF Watermark
  <2> HIDE DEF bars
  <2>4. Watermark(s, c) \in bars /\ \A x \in bars : x \in Nat /\ x =< Watermark(s, c)
    BY <1>1, <1>2, <2>2, <2>3
  <2>. QED  BY <1>2, <1>4, <2>4 DEF bars
<1>. QED  BY <1>3, <1>4

\* Weekdays are finitely many, and so counted.
LEMMA WeekdaysFinite ==
    ASSUME NEW lo, NEW hi
    PROVE  /\ IsFiniteSet({d \in Weekday : lo < d /\ d =< hi})
           /\ SessionsBetween(lo, hi) \in Nat
<1>1. IsFiniteSet(Day)  BY Calendar, FS_Interval DEF Day
<1>2. {d \in Weekday : lo < d /\ d =< hi} \in SUBSET Day  BY FeedAssumption
<1>3. IsFiniteSet({d \in Weekday : lo < d /\ d =< hi})  BY <1>1, <1>2, FS_Subset
<1>. QED  BY <1>3, FS_CardinalityType DEF SessionsBetween

\* The later of two starts has no more weekdays before it.
LEMMA SessionsBetweenShrinks ==
    ASSUME NEW lo \in Nat, NEW mid \in Nat, lo =< mid, NEW hi
    PROVE  SessionsBetween(mid, hi) =< SessionsBetween(lo, hi)
<1> DEFINE far == {d \in Weekday : lo < d /\ d =< hi}
           near == {d \in Weekday : mid < d /\ d =< hi}
<1>1. \A d \in Weekday : d \in Nat  BY FeedAssumption DEF Day
<1>2. near \in SUBSET far  BY <1>1
<1>3. IsFiniteSet(far)  BY WeekdaysFinite
<1> HIDE DEF near, far
<1>4. Cardinality(near) =< Cardinality(far)  BY <1>2, <1>3, FS_Subset
<1>. QED  BY <1>4 DEF near, far, SessionsBetween

\* Between a watermark and the reach of a fund that is not gapped, a set of days with
\* a weekday to spare is smaller than a gap.
LEMMA SmallerThanGap ==
    ASSUME NEW c \in Code, ~Gapped(Activity, c), NEW M, NEW z, z \notin M,
           \A d \in M \cup {z} : /\ d \in Weekday /\ Watermark(Activity, c) < d
                                 /\ d =< Reach(c)
    PROVE  Cardinality(M) < GapSessions
<1> DEFINE all == {d \in Weekday : Watermark(Activity, c) < d /\ d =< Reach(c)}
<1>1. IsFiniteSet(all)  BY WeekdaysFinite
<1>2. M \cup {z} \in SUBSET all /\ M \in SUBSET all  OBVIOUS
<1>3. Cardinality(all) =< GapSessions /\ Cardinality(all) \in Nat
  <2>1. SessionsBetween(Watermark(Activity, c), Reach(c)) = Cardinality(all)
    BY DEF SessionsBetween
  <2>2. ~(SessionsBetween(Watermark(Activity, c), Reach(c)) > GapSessions)
    BY DEF Gapped, Reach
  <2>3. Cardinality(all) \in Nat  BY <1>1, FS_CardinalityType
  <2>. QED  BY <2>1, <2>2, <2>3, FeedAssumption
<1> HIDE DEF all
<1>4. IsFiniteSet(M) /\ Cardinality(M \cup {z}) =< Cardinality(all)
  BY <1>1, <1>2, FS_Subset
<1>5. Cardinality(M \cup {z}) = Cardinality(M) + 1 /\ Cardinality(M) \in Nat
  BY <1>4, FS_AddElement, FS_CardinalityType
<1>. QED  BY <1>3, <1>4, <1>5, FeedAssumption

\* A pull starts no later than any leg that is deep needs.
LEMMA BegIsLeast ==
    ASSUME IInv, RunDates, pc # "idle", NEW c \in Code, WantsPull(c)
    PROVE  /\ Beg(c) \in Nat
           /\ \A s \in Series : Deep(s, c) =>
                 Beg(c) =< IF Cold(s, c) THEN SeedFloor ELSE Watermark(s, c) + 1
<1> DEFINE start(s) == IF Cold(s, c) THEN SeedFloor ELSE Watermark(s, c) + 1
           starts == {start(s) : s \in {s \in Series : Deep(s, c)}}
<1>1. SeedFloor \in Nat  BY Calendar DEF RunDates, SeedFloor, Day
<1>2. \A s \in Series : Watermark(s, c) \in Nat  BY WatermarkIsNewest DEF IInv
<1>3. \A s \in Series : start(s) \in Nat  BY <1>1, <1>2
<1>4. starts \in SUBSET Nat /\ starts # {}  BY <1>3 DEF WantsPull
<1>5. Beg(c) = Min(starts)  BY DEF Beg
<1>6. \A s \in Series : Deep(s, c) => start(s) \in starts  OBVIOUS
<1> HIDE DEF starts, start
<1>7. Min(starts) \in starts /\ \A x \in starts : Min(starts) =< x
  BY <1>4, MinExists DEF Min
<1>8. Beg(c) \in Nat /\ \A s \in Series : Deep(s, c) => Beg(c) =< start(s)
  BY <1>4, <1>5, <1>6, <1>7
<1>. QED  BY <1>8 DEF start

\* A pull reaches back to the activity's watermark - or the activity was not deep,
\* and the pull reaches back a seed window.
LEMMA BegReachesBack ==
    ASSUME IInv, RunDates, pc # "idle", NEW c \in Code, WantsPull(c)
    PROVE  /\ Cold(Activity, c) => Beg(c) =< SeedFloor
           /\ ~Cold(Activity, c) =>
                 \/ Beg(c) =< Watermark(Activity, c) + 1
                 \/ ~Gapped(Activity, c) /\ Beg(c) =< SeedFloor
<1>1. Activity \in Series /\ "prices" \in Series /\ Series = {"prices", Activity}
  BY DEF Activity, Series
<1>2. CASE Deep(Activity, c)  BY <1>1, <1>2, BegIsLeast DEF Deep
<1>3. CASE ~Deep(Activity, c)
  <2>1. Deep("prices", c)  BY <1>1, <1>3 DEF WantsPull
  <2>2. ~Cold(Activity, c) /\ ~Gapped(Activity, c)  BY <1>3 DEF Deep
  <2>3. CASE Cold("prices", c)  BY <1>1, <2>1, <2>2, <2>3, BegIsLeast
  <2>4. CASE ~Cold("prices", c)
    <3>1. Gapped("prices", c)  BY <2>1, <2>4 DEF Deep
    <3>2. Watermark("prices", c) \in Nat /\ Watermark(Activity, c) \in Nat
      BY <1>1, WatermarkIsNewest DEF IInv
    <3>3. SessionsBetween(Watermark("prices", c), Reach(c)) > GapSessions
          /\ ~(SessionsBetween(Watermark(Activity, c), Reach(c)) > GapSessions)
      BY <3>1, <2>2 DEF Gapped, Reach
    <3>4. ~(Watermark(Activity, c) =< Watermark("prices", c))
      <4>1. SUFFICES ASSUME Watermark(Activity, c) =< Watermark("prices", c)
            PROVE  FALSE
        OBVIOUS
      <4>2. SessionsBetween(Watermark("prices", c), Reach(c))
              =< SessionsBetween(Watermark(Activity, c), Reach(c))
        BY <3>2, <4>1, SessionsBetweenShrinks
      <4>3. SessionsBetween(Watermark("prices", c), Reach(c)) \in Nat
            /\ SessionsBetween(Watermark(Activity, c), Reach(c)) \in Nat
        BY WeekdaysFinite
      <4>. QED  BY <3>3, <4>2, <4>3, FeedAssumption
    <3>5. Beg(c) \in Nat /\ Beg(c) =< Watermark("prices", c) + 1
      BY <1>1, <2>1, <2>4, BegIsLeast
    <3>. QED  BY <2>2, <3>2, <3>4, <3>5
  <2>. QED  BY <2>3, <2>4
<1>. QED  BY <1>2, <1>3

\* What a pull brings of the activity leaves no session out.
LEMMA PulledKept ==
    ASSUME IInv, RunDates, pc # "idle", NEW c \in Code, WantsPull(c)
    PROVE  /\ Kept(c, Pulled(c).activity)
           /\ \A d \in Pulled(c).activity : d \in ListedSessions(c) /\ d =< day
<1> DEFINE bars == Pulled(c).activity
           raw == {d \in KLine(c) : Beg(c) =< d /\ Floor(Activity, c) < d}
<1>1. bars = SettledThrough(c, raw)
  <2>1. {d \in {d \in KLine(c) : Beg(c) =< d} : Floor("trading_activity", c) < d} = raw
    BY DEF Activity
  <2> HIDE DEF raw
  <2>. QED  BY <2>1 DEF Pulled
<1>2. \A d : d \in bars <=> /\ d \in ListedSessions(c) /\ d =< day
                            /\ Beg(c) =< d /\ Floor(Activity, c) < d
                            /\ c \in OnBoard => d =< board
  BY <1>1 DEF SettledThrough, KLine, ListedSessions
<1>3. stamp \in Nat /\ day \in Nat /\ stamp =< day /\ board \in Nat /\ board =< stamp
  BY Calendar DEF RunDates, IInv, BarsTyped, Day
<1>4. \A d \in Session : d \in Nat  BY Calendar
<1> HIDE DEF bars
<1>5. ASSUME NEW d \in ListedSessions(c), Floor(Activity, c) < d, Beg(c) =< d,
             d =< Reach(c) \/ \E b \in bars : d < b
      PROVE  d \in bars
  <2>1. d \in Nat  BY <1>4 DEF ListedSessions
  <2>2. CASE d =< Reach(c)  BY <1>2, <1>3, <1>5, <2>1, <2>2 DEF Reach
  <2>3. CASE \E b \in bars : d < b
    <3>1. PICK b \in bars : d < b  BY <2>3
    <3>2. b \in Nat /\ b =< day /\ (c \in OnBoard => b =< board)
      BY <1>2, <1>4 DEF ListedSessions
    <3>. QED  BY <1>2, <1>3, <1>5, <2>1, <3>1, <3>2
  <2>. QED  BY <1>5, <2>2, <2>3
<1>6. Kept(c, bars)  BY <1>2, <1>5 DEF Kept
<1>. QED  BY <1>2, <1>6 DEF bars

\* The board's bar is the only one of a code that wants no pull.
LEMMA OffBoardKept ==
    ASSUME IInv, RunDates, pc # "idle", NEW c \in Code
    PROVE  /\ ~WantsPull(c) => Kept(c, OffBoard(c).activity)
           /\ \A d \in OffBoard(c).activity : d \in ListedSessions(c) /\ d =< day
<1> DEFINE bars == OffBoard(c).activity
<1>1. \A d \in bars : d = board /\ c \in OnBoard /\ Floor(Activity, c) < board
  BY DEF OffBoard, BoardBar, Activity
<1>2. stamp \in Nat /\ day \in Nat /\ stamp =< day /\ board \in Nat /\ board =< stamp
  BY Calendar DEF RunDates, IInv, BarsTyped, Day
<1>3. c \in OnBoard => board \in ListedSessions(c)
  BY DEF RunDates, ListedSessions
<1> HIDE DEF bars
<1>4. ~WantsPull(c) => Kept(c, bars)  BY <1>1, <1>2, <1>3 DEF Kept
<1>5. \A d \in bars : d \in ListedSessions(c) /\ d =< day  BY <1>1, <1>2, <1>3
<1>. QED  BY <1>4, <1>5 DEF bars

\* Nothing is kept.
LEMMA NoneKept == ASSUME NEW c  PROVE Kept(c, {})
BY DEF Kept

\* A leg that reads a code's memo again, or a later memo, keeps all of both.
LEMMA KeptTogether ==
    ASSUME NEW c, NEW bars, NEW more, Kept(c, bars), Kept(c, more)
    PROVE  Kept(c, bars \cup more)
BY DEF Kept

\* What is kept rests on the store, the run date and the board alone.
LEMMA KeptStands ==
    ASSUME UNCHANGED <<settled, stamp, board>>
    PROVE  /\ \A c, bars : Kept(c, bars)' <=> Kept(c, bars)
           /\ \A c : WantsPull(c)' <=> WantsPull(c)
           /\ \A c : Reach(c)' = Reach(c)
<1>1. \A s, c : Watermark(s, c)' = Watermark(s, c)  BY DEF Watermark
<1>2. SeedFloor' = SeedFloor  BY DEF SeedFloor
<1>3. \A s, c : Seeded(s, c)' <=> Seeded(s, c)  BY <1>2 DEF Seeded
<1>4. \A s, c : Cold(s, c)' <=> Cold(s, c)  BY <1>1, <1>3 DEF Cold
<1>5. \A s, c : Gapped(s, c)' <=> Gapped(s, c)  BY <1>1 DEF Gapped
<1>6. \A s, c : Deep(s, c)' <=> Deep(s, c)  BY <1>4, <1>5 DEF Deep
<1>7. \A s, c : Floor(s, c)' = Floor(s, c)  BY <1>1, <1>2, <1>4 DEF Floor
<1>8. \A c : WantsPull(c)' <=> WantsPull(c)  BY <1>6 DEF WantsPull
<1>9. ASSUME NEW c  PROVE Beg(c)' = Beg(c)
  <2>1. {s \in Series : Deep(s, c)'} = {s \in Series : Deep(s, c)}  BY <1>6
  <2>. QED  BY <2>1, <1>1, <1>2, <1>4 DEF Beg
<1>10. \A c : Reach(c)' = Reach(c)  BY DEF Reach
<1>11. \A c, bars : Kept(c, bars)' <=> Kept(c, bars)
  BY <1>7, <1>8, <1>9, <1>10 DEF Kept
<1>. QED  BY <1>8, <1>10, <1>11

\* The sessions a history misses between two days.
Missing(c, lo, hi) == {d \in Session : Listed[c] =< d /\ lo < d /\ d < hi}

\* A neighbour is not far: after an append a pair of neighbours with a new bar has
\* nothing missing between them, or less than a gap.
LEMMA NewNeighbours ==
    ASSUME IInv, OnCalendar, RunDates, pc # "idle", NEW c \in Code,
           Kept(c, got[Activity][c]),
           NEW x \in settled[Activity][c] \cup got[Activity][c],
           NEW y \in settled[Activity][c] \cup got[Activity][c],
           ~(x \in settled[Activity][c] /\ y \in settled[Activity][c]), x < y,
           \A d \in settled[Activity][c] \cup got[Activity][c] : ~(x < d /\ d < y),
           Missing(c, x, y) # {}
    PROVE  Cardinality(Missing(c, x, y)) < GapSessions
<1> DEFINE S == settled[Activity][c]
           B == got[Activity][c]
           M == Missing(c, x, y)
           W == Watermark(Activity, c)
<1>1. Activity \in Series  BY DEF Activity, Series
<1>2. /\ W \in Nat
      /\ S # {} => W \in S
      /\ \A d \in S : d \in Nat /\ d =< W
  BY <1>1, WatermarkIsNewest DEF IInv
<1>3. /\ stamp \in Nat /\ board \in Nat /\ board =< stamp /\ board \in Session
      /\ SeedFloor \in Nat /\ SeedFloor =< stamp
  BY Calendar DEF RunDates, Day, SeedFloor
<1>4. \A d \in Session : d \in Nat /\ d \in Weekday  BY Calendar, FeedAssumption
<1>5. \A d \in S \cup B : d \in ListedSessions(c) /\ d \in Nat
  BY <1>4 DEF OnCalendar, ListedSessions
<1>6. \A d \in M : /\ d \in ListedSessions(c) /\ d \in Nat /\ x < d /\ d < y
                   /\ d \notin S /\ d \notin B
  BY <1>4 DEF Missing, ListedSessions
<1>7. \A d \in S : d =< Reach(c)  BY DEF RunDates
<1>8. \A b \in B : Floor(Activity, c) < b /\ (c \in OnBoard => b =< board)  BY DEF Kept
<1>9. Reach(c) \in Nat /\ (c \in OnBoard => Reach(c) = board)
      /\ (c \notin OnBoard => Reach(c) = stamp)
  BY <1>3 DEF Reach
<1>10. x \in S \cup B /\ y \in S \cup B /\ ~(x \in S /\ y \in S) /\ x < y /\ M # {}
       /\ \A d \in S \cup B : ~(x < d /\ d < y)
  OBVIOUS
<1>11. WantsPull(c) =>
         /\ Beg(c) \in Nat
         /\ Cold(Activity, c) => Beg(c) =< SeedFloor
         /\ ~Cold(Activity, c) =>
                 \/ Beg(c) =< W + 1
                 \/ ~Gapped(Activity, c) /\ Beg(c) =< SeedFloor
  BY BegIsLeast, BegReachesBack
<1>12. WantsPull(c) =>
         \A d \in ListedSessions(c) :
            Floor(Activity, c) < d /\ Beg(c) =< d /\ B # {}
              /\ (d =< Reach(c) \/ \E b \in B : d < b) => d \in B
  BY DEF Kept
<1>13. ~WantsPull(c) => \A b \in B : b = board /\ c \in OnBoard  BY DEF Kept
<1>14. Cold(Activity, c) => Floor(Activity, c) = SeedFloor /\ \A d \in S : SeedFloor < d
  <2>1. ASSUME Cold(Activity, c), NEW d \in S  PROVE SeedFloor < d
    <3>1. W \in S /\ W # 0
      <4>1. 0 \notin Day  BY DEF Day
      <4>2. S \in SUBSET Day  BY <1>1 DEF IInv, BarsTyped
      <4>. QED  BY <1>2, <4>1, <4>2
    <3>2. ~Seeded(Activity, c)  BY <2>1, <3>1 DEF Cold, NoDay
    <3>. QED  BY <3>2, <1>2, <1>3 DEF Seeded
  <2>. QED  BY <2>1 DEF Floor
<1>15. ~Cold(Activity, c) => Floor(Activity, c) = W /\ S # {}
  BY <1>2 DEF Cold, Floor, NoDay, Watermark
<1>16. ~WantsPull(c) => ~Cold(Activity, c) /\ ~Gapped(Activity, c)
  BY <1>1 DEF WantsPull, Deep
<1>17. \A M2, z : /\ ~Gapped(Activity, c) /\ z \notin M2
                  /\ \A d \in M2 \cup {z} : d \in Weekday /\ W < d /\ d =< Reach(c)
                  => Cardinality(M2) < GapSessions
  BY SmallerThanGap
<1>18. \E w \in Weekday : SeedFloor =< w /\ w =< stamp
  BY FeedAssumption DEF RunDates, SeedFloor
<1>19. \A d \in Weekday : d \in Nat  BY FeedAssumption DEF Day
<1> HIDE DEF S, B, M, W
<1>20. CASE Cold(Activity, c)
  <2>1. WantsPull(c)  BY <1>16, <1>20
  <2>2. PICK d \in M : TRUE  BY <1>10
  <2>3. SeedFloor < x  BY <1>8, <1>10, <1>14, <1>20
  <2>4. d \in ListedSessions(c) /\ Floor(Activity, c) < d /\ Beg(c) =< d /\ B # {}
    BY <1>3, <1>5, <1>6, <1>10, <1>11, <1>14, <1>20, <2>1, <2>3
  <2>5. d =< Reach(c) \/ \E b \in B : d < b
    <3>1. CASE y \in B  BY <1>6, <3>1
    <3>2. CASE y \in S
      <4>1. y =< Reach(c)  BY <1>7, <3>2
      <4>. QED  BY <1>5, <1>6, <1>9, <1>10, <4>1
    <3>. QED  BY <1>10, <3>1, <3>2
  <2>. QED  BY <1>6, <1>12, <2>1, <2>4, <2>5
<1>21. CASE ~Cold(Activity, c)
  <2>1. y \in B
    <3>1. SUFFICES ASSUME y \in S, x \in B  PROVE FALSE  BY <1>10
    <3>2. W < x /\ y =< W  BY <1>2, <1>8, <1>15, <1>21, <3>1
    <3>. QED  BY <1>2, <1>5, <1>10, <3>2
  <2>2. W < y  BY <1>8, <1>15, <1>21, <2>1
  <2>3. W =< x
    <3>1. CASE x \in B  BY <1>2, <1>5, <1>8, <1>15, <1>21, <3>1
    <3>2. CASE x \in S  BY <1>2, <1>5, <1>10, <1>15, <1>21, <2>2, <3>2
    <3>. QED  BY <1>10, <3>1, <3>2
  <2>4. \A d \in M : W < d
    <3>1. x \in Nat /\ W \in Nat  BY <1>2, <1>5, <1>10
    <3>2. \A d \in M : d \in Nat /\ x < d  BY <1>6
    <3>. QED  BY <2>3, <3>1, <3>2
  <2>5. CASE WantsPull(c)
    <3>1. \A d \in M : d < Beg(c)
      BY <1>6, <1>11, <1>12, <1>15, <1>21, <2>1, <2>4, <2>5
    <3>2. ~Gapped(Activity, c) /\ Beg(c) =< SeedFloor
      BY <1>2, <1>6, <1>10, <1>11, <1>21, <2>4, <2>5, <3>1
    <3>3. \A d \in M : d \in Weekday /\ W < d /\ d < SeedFloor
      BY <1>3, <1>4, <1>6, <1>11, <2>4, <2>5, <3>1, <3>2 DEF ListedSessions
    <3>4. CASE c \in OnBoard
      <4>1. y \in Weekday /\ y \notin M /\ y =< Reach(c)
        BY <1>4, <1>5, <1>6, <1>8, <1>9, <2>1, <3>4 DEF ListedSessions
      <4>2. \A d \in M : d =< Reach(c)
        <5>1. y \in Nat /\ Reach(c) \in Nat  BY <1>5, <1>9, <1>10
        <5>2. \A d \in M : d \in Nat /\ d < y  BY <1>6
        <5>. QED  BY <4>1, <5>1, <5>2
      <4>. QED  BY <1>17, <2>2, <3>2, <3>3, <4>1, <4>2 DEF M
    <3>5. CASE c \notin OnBoard
      <4>1. PICK w \in Weekday : SeedFloor =< w /\ w =< stamp  BY <1>18
      <4>2. w \notin M /\ w =< Reach(c)  BY <1>3, <1>9, <1>19, <3>3, <3>5, <4>1
      <4>3. W < w
        <5>1. PICK d \in M : TRUE  BY <1>10
        <5>. QED  BY <1>2, <1>3, <1>6, <1>19, <3>3, <4>1, <5>1
      <4>4. \A d \in M : d =< Reach(c)  BY <1>3, <1>6, <1>9, <3>3, <3>5
      <4>. QED  BY <1>17, <3>2, <3>3, <4>2, <4>3, <4>4 DEF M
    <3>. QED  BY <3>4, <3>5
  <2>6. CASE ~WantsPull(c)
    <3>1. y = board /\ y = Reach(c) /\ y \in Weekday  BY <1>3, <1>4, <1>9, <1>13, <2>1, <2>6
    <3>2. y \notin M /\ \A d \in M : d \in Weekday /\ d =< Reach(c)
      <4>1. y \in Nat  BY <1>5, <1>10
      <4>2. \A d \in M : d \in Nat /\ d < y /\ d \in Weekday  BY <1>4, <1>6 DEF ListedSessions
      <4>. QED  BY <3>1, <4>1, <4>2
    <3>. QED  BY <1>9, <1>16, <1>17, <2>2, <2>4, <2>6, <3>1, <3>2 DEF M
  <2>. QED  BY <2>5, <2>6
<1>. QED  BY <1>20, <1>21

\* An append that the cap did not defer makes no hole.
LEMMA AppendMakesNoHole ==
    ASSUME IInv, OnCalendar, RunDates, RunKeeps, AppendGathered,
           NEW c \in Code \ deferred
    PROVE  Holes(c)' \subseteq Holes(c)
<1> DEFINE S == settled[Activity][c]
           B == got[Activity][c]
<1>1. Activity \in Series /\ Activity = "trading_activity"  BY DEF Activity, Series
<1>2. settled'["trading_activity"][c] = S \cup B
  BY <1>1 DEF AppendGathered
<1>3. pc # "idle" /\ Kept(c, B)  BY DEF AppendGathered, RunKeeps
<1>4. ASSUME NEW h \in Holes(c)'  PROVE h \in Holes(c)
  <2>1. PICK x \in S \cup B, y \in S \cup B : h = <<x, y>>
    BY <1>2, <1>4 DEF Holes
  <2>2. /\ x < y /\ \A d \in S \cup B : ~(x < d /\ d < y)
        /\ Missing(c, x, y) # {}
        /\ Cardinality(Missing(c, x, y)) >= GapSessions
    BY <1>2, <1>4, <2>1 DEF Holes, Missing
  <2>3. x \in S /\ y \in S
    <3>1. SUFFICES ASSUME ~(x \in S /\ y \in S)  PROVE FALSE  OBVIOUS
    <3>2. Cardinality(Missing(c, x, y)) < GapSessions
      BY <1>3, <2>1, <2>2, <3>1, NewNeighbours
    <3>3. Cardinality(Missing(c, x, y)) \in Nat
      <4>1. IsFiniteSet(1..MaxDay)
        <5>1. MaxDay \in Int /\ 1 \in Int  BY Calendar
        <5>. QED  BY <5>1, FS_Interval
      <4>2. Missing(c, x, y) \in SUBSET (1..MaxDay)  BY Calendar DEF Missing
      <4>. QED  BY <4>1, <4>2, FS_Subset, FS_CardinalityType
    <3>. QED  BY <2>2, <3>2, <3>3, FeedAssumption
  <2>. QED  BY <1>1, <2>1, <2>2, <2>3 DEF Holes, Missing
<1>. QED  BY <1>4

\* The bars of a reading are on the calendar of its code.
Dated(c, bars) == \A d \in bars : d \in ListedSessions(c) /\ d =< day

\* Nothing of a code's activity is in a fallback.
LEMMA FallbackKept ==
    ASSUME NEW c, NEW result \in Fallbacks(c)
    PROVE  result.activity = {} /\ Kept(c, result.activity) /\ Dated(c, result.activity)
<1>1. result.activity = {}  BY DEF Fallbacks
<1>. QED  BY <1>1, NoneKept DEF Dated

\* No step of a run changes what its store, run date and board say.
LEMMA DatesStand ==
    ASSUME RunDates, UNCHANGED <<day, settled, stamp, board>>, pc # "idle"
    PROVE  RunDates'
BY KeptStands DEF RunDates

\* A reading joins the memo.
LEMMA MemoiseKept ==
    ASSUME IInv, OnCalendar, RunDates, RunKeeps, pc # "idle", NEW c, NEW result,
           Memoise(c, result),
           c \in Code => Dated(c, result.activity),
           c \in Code \ deferred' => Kept(c, result.activity),
           late' \subseteq late, deferred \subseteq deferred',
           UNCHANGED <<day, settled, pc, stamp, board, got>>
    PROVE  OnCalendar' /\ RunDates' /\ RunKeeps'
<1>1. \A f \in Code : memo'[f] = IF f = c THEN result ELSE memo[f]
  BY DEF Memoise, IInv, BarsTyped
<1>2. OnCalendar'  BY <1>1 DEF OnCalendar, Dated
<1>3. RunDates'  BY DatesStand
<1>4. /\ \A f, bars : Kept(f, bars)' <=> Kept(f, bars)
      /\ \A f : WantsPull(f)' <=> WantsPull(f)
  BY KeptStands
<1>5. ASSUME NEW f \in Code \ deferred', NEW bars \in {memo'[f].activity, got[Activity][f]}
      PROVE  Kept(f, bars)
  <2>1. f \notin deferred  OBVIOUS
  <2>2. CASE bars = got[Activity][f]  BY <2>1, <2>2 DEF RunKeeps
  <2>3. CASE bars = memo'[f].activity /\ f = c  BY <1>1, <1>5, <2>3
  <2>4. CASE bars = memo'[f].activity /\ f # c  BY <1>1, <2>1, <2>4 DEF RunKeeps
  <2>. QED  BY <1>5, <2>2, <2>3, <2>4
<1>6. \A f \in late' : WantsPull(f)  BY DEF RunKeeps
<1>7. RunKeeps'  BY <1>4, <1>5, <1>6 DEF RunKeeps
<1>. QED  BY <1>2, <1>3, <1>7

\* A run starts with nothing kept, from a store that its board and date reach.
LEMMA StartKept ==
    ASSUME IInv, OnCalendar, StartGather
    PROVE  OnCalendar' /\ RunDates' /\ RunKeeps'
<1>. USE DEF StartGather
<1>1. day \in Nat /\ SeedDays < day /\ day \in Day /\ SeedDays \in Nat
  BY Calendar DEF IInv, BarsTyped, Day
<1>2. LastClosed \in Session /\ IsClosed(LastClosed) /\ LastClosed \in Nat
  BY LastClosedIsClosed, Calendar DEF IInv, BarsTyped
<1>3. LastClosed =< day  BY <1>1, <1>2 DEF IsClosed
<1>4. \A d \in Session : IsClosed(d) => d =< LastClosed
  <2> DEFINE over == {s \in Session : IsClosed(s)}
  <2>1. over \in SUBSET (0..MaxDay)  BY Calendar
  <2>2. LastClosed = Max(over) /\ MaxDay \in Nat  BY Calendar DEF LastClosed
  <2>3. over # {}  BY <1>2
  <2> HIDE DEF over
  <2>4. \E m \in over : \A x \in over : m >= x  BY <2>1, <2>2, <2>3, MaxExists
  <2>5. \A x \in over : LastClosed >= x  BY <2>2, <2>4 DEF Max
  <2>. QED  BY <2>5, <1>2, Calendar DEF over
<1>5. \A c \in Code : /\ got'[Activity][c] = {}
                      /\ memo'[c].activity = {}
  BY DEF Nothing, NoReadings, Activity, Series
<1>6. OnCalendar'  BY <1>5 DEF OnCalendar
<1>7. \A c \in OnBoard : Listed[c] =< LastClosed
  <2>1. SUFFICES ASSUME NEW c \in OnBoard  PROVE Listed[c] =< LastClosed  OBVIOUS
  <2>2. PICK s \in Session : Listed[c] =< s /\ s =< SeedDays  BY FeedAssumption
  <2>3. s \in Nat /\ Listed[c] \in Nat  BY Calendar, FeedAssumption DEF Day
  <2>4. IsClosed(s)  BY <1>1, <2>2, <2>3 DEF IsClosed
  <2>. QED  BY <1>2, <1>4, <2>2, <2>3, <2>4
<1>8. ASSUME NEW c \in Code, NEW d \in settled[Activity][c]
      PROVE  d =< IF c \in OnBoard THEN LastClosed ELSE day
  <2>1. d \in Session /\ d =< day  BY DEF OnCalendar, ListedSessions
  <2>2. CASE c \in OnBoard
    <3>1. IsClosed(d)  BY <2>2 DEF IInv, StoredClosed, AllClosed, Activity, Series
    <3>. QED  BY <1>4, <2>1, <2>2, <3>1
  <2>. QED  BY <2>1, <2>2
<1>9. RunDates'
  <2>1. \A c : Reach(c)' = IF c \in OnBoard THEN LastClosed ELSE day  BY DEF Reach
  <2>. QED  BY <1>1, <1>2, <1>3, <1>7, <1>8, <2>1 DEF RunDates
<1>10. \A c : Kept(c, {})'  BY NoneKept DEF Kept
<1>11. RunKeeps'
  <2>1. late' = {}  OBVIOUS
  <2>2. \A c \in Code : \A bars \in {memo'[c].activity, got'[Activity][c]} : bars = {}
    BY <1>5
  <2>. QED  BY <1>10, <2>1, <2>2 DEF RunKeeps
<1>. QED  BY <1>6, <1>9, <1>11

\* Time passes: the calendar grows.
LEMMA TimeKept ==
    ASSUME IInv, OnCalendar, RunDates, RunKeeps, TimePasses
    PROVE  OnCalendar' /\ RunDates' /\ RunKeeps'
<1>1. /\ UNCHANGED <<settled, pc, stamp, board, late, deferred, memo, got>>
      /\ day \in Nat /\ day' \in Nat /\ day =< day'
  BY Calendar DEF TimePasses, runVars, IInv, BarsTyped, Day
<1>2. \A d \in Session : d \in Nat  BY Calendar
<1>3. OnCalendar'  BY <1>1, <1>2 DEF OnCalendar, ListedSessions
<1>4. /\ \A c, bars : Kept(c, bars)' <=> Kept(c, bars)
      /\ \A c : WantsPull(c)' <=> WantsPull(c)
      /\ \A c : Reach(c)' = Reach(c)
  BY <1>1, KeptStands
<1>5. RunDates'
  <2>1. pc # "idle" => stamp \in Nat  BY Calendar DEF RunDates, Day
  <2>. QED  BY <1>1, <1>4, <2>1 DEF RunDates
<1>6. RunKeeps'  BY <1>1, <1>4 DEF RunKeeps
<1>. QED  BY <1>3, <1>5, <1>6

\* The activity leg keeps what the memo has; the price leg touches no activity.
LEMMA TakeKept ==
    ASSUME IInv, OnCalendar, RunDates, RunKeeps, TakeActivity \/ TakePrice
    PROVE  OnCalendar' /\ RunDates' /\ RunKeeps'
<1>1. UNCHANGED <<day, settled, stamp, board, late, deferred, memo>> /\ pc # "idle"
  BY DEF TakeActivity, TakePrice
<1>2. \A c \in Code : \/ got'[Activity][c] = got[Activity][c]
                      \/ got'[Activity][c] = got[Activity][c] \cup memo[c].activity
  <2>1. CASE TakeActivity
    BY <2>1 DEF TakeActivity, Gather, LegReading, Activity, IInv, BarsTyped, Series
  <2>2. CASE TakePrice
    BY <2>2 DEF TakePrice, Gather, Activity, IInv, BarsTyped, Series
  <2>. QED  BY <2>1, <2>2
<1>3. OnCalendar'  BY <1>1, <1>2 DEF OnCalendar
<1>4. /\ \A c, bars : Kept(c, bars)' <=> Kept(c, bars)
      /\ \A c : WantsPull(c)' <=> WantsPull(c)
  BY <1>1, KeptStands
<1>5. ASSUME NEW c \in Code \ deferred  PROVE Kept(c, got'[Activity][c])
  <2>1. Kept(c, got[Activity][c]) /\ Kept(c, memo[c].activity)  BY <1>1 DEF RunKeeps
  <2>2. Kept(c, got[Activity][c] \cup memo[c].activity)  BY <2>1, KeptTogether
  <2>. QED  BY <1>2, <2>1, <2>2
<1>6. RunKeeps'  BY <1>1, <1>4, <1>5 DEF RunKeeps
<1>7. RunDates'  BY <1>1, DatesStand
<1>. QED  BY <1>3, <1>6, <1>7

\* The append stores what was kept, and the run is over; a crash stores nothing.
LEMMA EndKept ==
    ASSUME IInv, OnCalendar, AppendGathered \/ Abort
    PROVE  OnCalendar' /\ RunDates' /\ RunKeeps'
<1>1. /\ pc' = "idle" /\ day' = day
      /\ \A c \in Code : got'[Activity][c] = {} /\ memo'[c].activity = {}
  BY DEF AppendGathered, Abort, Reset, Nothing, NoReadings, Activity, Series
<1>2. \A c \in Code : \/ settled'[Activity][c] = settled[Activity][c]
                      \/ settled'[Activity][c] = settled[Activity][c] \cup got[Activity][c]
  BY DEF AppendGathered, Abort, Activity, Series
<1>3. OnCalendar'  BY <1>1, <1>2 DEF OnCalendar
<1>. QED  BY <1>1, <1>3 DEF RunDates, RunKeeps

\* The store is empty at first.
LEMMA KeptInit == Init => OnCalendar /\ RunDates /\ RunKeeps
BY DEF Init, OnCalendar, RunDates, RunKeeps, Nothing, NoReadings, Activity, Series

\* Every step keeps the calendar and what may be kept of a code.
LEMMA KeptStep == GInv /\ [Next]_vars => OnCalendar' /\ RunDates' /\ RunKeeps'
<1> SUFFICES ASSUME GInv, [Next]_vars  PROVE OnCalendar' /\ RunDates' /\ RunKeeps'
  OBVIOUS
<1>. IInv /\ OnCalendar /\ RunDates /\ RunKeeps  BY DEF GInv
<1>1. CASE TimePasses  BY <1>1, TimeKept
<1>2. CASE StartGather  BY <1>2, StartKept
<1>3. CASE PullAnswers
  <2>. USE <1>3 DEF PullAnswers, Granted, Fetching, InLoop
  <2>1. WantsPull(Current) /\ pc # "idle"  OBVIOUS
  <2>2. Current \in Code => Kept(Current, Pulled(Current).activity)
                            /\ Dated(Current, Pulled(Current).activity)
    BY <2>1, PulledKept DEF Dated
  <2>. QED  BY <2>1, <2>2, MemoiseKept
<1>4. CASE PullRefused
  <2>. USE <1>4 DEF PullRefused, Granted, Fetching, InLoop
  <2>1. PICK result \in Fallbacks(Current) : Memoise(Current, result)  OBVIOUS
  <2>2. Kept(Current, result.activity) /\ Dated(Current, result.activity)
    BY FallbackKept
  <2>. QED  BY <2>1, <2>2, MemoiseKept
<1>5. CASE PullHangs
  <2>. USE <1>5 DEF PullHangs, Granted, Fetching, InLoop
  <2>1. UNCHANGED <<day, settled, pc, stamp, board, memo, got, deferred>> /\ pc # "idle"
    OBVIOUS
  <2>2. \A c \in late' : WantsPull(c)  BY DEF RunKeeps
  <2>3. /\ \A c, bars : Kept(c, bars)' <=> Kept(c, bars)
        /\ \A c : WantsPull(c)' <=> WantsPull(c)
    BY <2>1, KeptStands
  <2>4. RunKeeps'  BY <2>1, <2>2, <2>3 DEF RunKeeps
  <2>5. OnCalendar'  BY <2>1 DEF OnCalendar
  <2>6. RunDates'  BY <2>1, DatesStand
  <2>. QED  BY <2>4, <2>5, <2>6
<1>6. CASE FallsBack
  <2>. USE <1>6 DEF FallsBack, Fetching, InLoop
  <2>1. PICK result \in Fallbacks(Current) : Memoise(Current, result)  OBVIOUS
  <2>2. Kept(Current, result.activity) /\ Dated(Current, result.activity)
    BY FallbackKept
  <2>. QED  BY <2>1, <2>2, MemoiseKept
<1>7. CASE ReadsBoard
  <2>. USE <1>7 DEF ReadsBoard, Fetching, InLoop
  <2>1. pc # "idle" /\ deferred \subseteq deferred'  OBVIOUS
  <2>2. Current \in Code => Dated(Current, OffBoard(Current).activity)
    BY <2>1, OffBoardKept DEF Dated
  <2>3. Current \in Code \ deferred' => Kept(Current, OffBoard(Current).activity)
    BY <2>1, OffBoardKept
  <2>. QED  BY <2>1, <2>2, <2>3, MemoiseKept
<1>8. ASSUME NEW c \in Code, LateAnswer(c)  PROVE OnCalendar' /\ RunDates' /\ RunKeeps'
  <2>. USE <1>8 DEF LateAnswer
  <2>1. pc # "idle" /\ late' \subseteq late /\ WantsPull(c)  BY DEF RunKeeps
  <2>2. PICK result : /\ Memoise(c, result)
                      /\ Kept(c, result.activity) /\ Dated(c, result.activity)
    <3>1. Kept(c, Pulled(c).activity) /\ Dated(c, Pulled(c).activity)
      BY <2>1, PulledKept DEF Dated
    <3>. QED  BY <3>1, FallbackKept
  <2>. QED  BY <2>1, <2>2, MemoiseKept
<1>9. CASE TakeActivity \/ TakePrice  BY <1>9, TakeKept
<1>10. CASE StopEarly \/ UNCHANGED vars
  <2>1. UNCHANGED <<day, settled, stamp, board, memo, got, late, deferred>>
    BY <1>10 DEF StopEarly, vars, runVars
  <2>2. pc' # "idle" => pc # "idle"  BY <1>10 DEF StopEarly, InLoop, vars
  <2>3. /\ \A c, bars : Kept(c, bars)' <=> Kept(c, bars)
        /\ \A c : WantsPull(c)' <=> WantsPull(c)
        /\ \A c : Reach(c)' = Reach(c)
    BY <2>1, KeptStands
  <2>. QED  BY <2>1, <2>2, <2>3 DEF OnCalendar, RunDates, RunKeeps
<1>11. CASE AppendGathered \/ Abort  BY <1>11, EndKept
<1>. QED  BY <1>1, <1>2, <1>3, <1>4, <1>5, <1>6, <1>7, <1>8, <1>9, <1>10, <1>11 DEF Next

\* Only the append changes the store.
LEMMA NoHoleStep ==
    ASSUME GInv, [Next]_vars
    PROVE  \A c \in Code \ deferred : Holes(c)' \subseteq Holes(c)
<1>1. CASE AppendGathered  BY <1>1, AppendMakesNoHole DEF GInv
<1>2. CASE UNCHANGED settled  BY <1>2 DEF Holes
<1>3. AppendGathered \/ UNCHANGED settled
  BY DEF Next, vars, TimePasses, StartGather, PullAnswers, PullRefused, PullHangs, FallsBack,
         ReadsBoard, LateAnswer, TakeActivity, TakePrice, StopEarly, Abort
<1>. QED  BY <1>1, <1>2, <1>3

-----------------------------------------------------------------------------
(* Results *)

\* What is gathered, remembered and stored of a run's bars has closed.
THEOREM Invariance == Spec => []IInv
BY InvInit, InvStep, PTL DEF Spec

\* SettledIsClosed: a bar the store holds as settled belongs to a session that
\* has closed, whichever source, retry or late answer brought it.
THEOREM SettledClosed == Spec => []SettledIsClosed
<1>1. IInv => SettledIsClosed  BY DEF IInv, StoredClosed, AllClosed, SettledIsClosed
<1>. QED  BY <1>1, Invariance, PTL

\* Every variable keeps its type: no counter passes its limit, and no loop runs past
\* the last code, whichever order the price loop takes them in.
THEOREM FeedTypeCorrect == Spec => []TypeOK
<1>1. Init => IInv /\ Placed /\ Counted  BY InvInit, PlacedInit
<1>2. IInv /\ Placed /\ Counted /\ [Next]_vars => (IInv /\ Placed /\ Counted)'
  BY InvStep, PlacedStep
<1>3. IInv /\ Placed /\ Counted => TypeOK  BY TypeParts DEF IInv
<1>. QED  BY <1>1, <1>2, <1>3, PTL DEF Spec

\* What a run holds of a fund that the cap did not defer has no session left out.
THEOREM RunsKeepWholeSpans == Spec => []GInv
<1>1. Init => GInv  BY InvInit, KeptInit DEF GInv
<1>2. GInv /\ [Next]_vars => GInv'  BY InvStep, KeptStep DEF GInv
<1>. QED  BY <1>1, <1>2, PTL DEF Spec

\* Whatever kept a run from a fund -- an outage, a refusal, a hang, a holiday, skipped
\* nights, the deadline -- the next append of its bars tears no hole of a gap's size into
\* its history: each starts where the last one ended. Only a fund that the cap deferred
\* can lose sessions.
THEOREM NoHoleWithoutDeferral == Spec => HolesOnlyWhenDeferred
<1>1. GInv /\ [Next]_vars => [\A c \in Code \ deferred : Holes(c)' \subseteq Holes(c)]_vars
  BY NoHoleStep
<1>. QED  BY <1>1, RunsKeepWholeSpans, PTL DEF Spec, HolesOnlyWhenDeferred
=============================================================================
