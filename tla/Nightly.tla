------------------------------ MODULE Nightly -------------------------------
(***************************************************************************)
(* The nightly job (pipeline.py): guard, ingest, digest, artifact, over one*)
(* durable store that several processes open in turn: the 22:00 nightly,   *)
(* its 05:30 resume, an operator's back-fill (nightly --as-of), a bare     *)
(* `run`. Each opens the store only for a part of its work, and DuckDB lets*)
(* one process at a time hold it: between two holds of one process another *)
(* one can work. A process can die at any point; what it appended stays.   *)
(*                                                                         *)
(* The live source and the real seats are modelled (the fixtures path never*)
(* moves). A day is before or after its close; bars up to the last close   *)
(* are published. The brief a seat argues is what digest_key hashes: the   *)
(* item, the date of the newest bar the run's night may see (the evidence  *)
(* line names it) and a view, the gate and the valid states the battery    *)
(* reads of the history up to there. Any ingest may move the view of any   *)
(* date: a bar is restated, another source answers late or not at all.     *)
(***************************************************************************)
EXTENDS Integers, Sequences, FiniteSets

CONSTANTS
    Proc,           \* the processes that may run at the same time
    Book,           \* the items in priority order, as the codes they are about
    Action,         \* the leans a debate can reach (two cancelling cases included)
    Abstain,        \* the abstention of an item no seat argued
    View,           \* what the gate and the battery can make of a history
    Blind,          \* the gate is UNKNOWN or fewer than two states are valid
    DebateCap,      \* config.max_debate_items
    Jobs,           \* the kinds of process that are started
    MaxDay,         \* bound: days
    MaxRuns         \* bound: processes started

NoProc == "none"
Day == 1..MaxDay
Item == 1..Len(Book)
Code == {Book[i] : i \in Item}
Job == {"nightly", "resume", "backfill", "run"}

ASSUME NightlyAssumption ==
    /\ Book \in Seq(Code) /\ NoProc \notin Proc
    /\ Abstain \notin Action /\ Blind \notin View
    /\ DebateCap \in Nat /\ MaxDay \in Nat \ {0} /\ MaxRuns \in Nat
    /\ Jobs \subseteq Job

\* What the seats are shown: the item, and its newest bar with the view of it.
Nothing == [on |-> 0, view |-> Blind]
Sight == {Nothing} \cup [on : Day, view : View]
Brief == [item : Item, seen : Sight]
\* What the artifact shows of an item.
Deferred == [status |-> "deferred", seen |-> Nothing, action |-> Abstain]
Lean == {Deferred} \cup [status : {"decided"}, seen : Sight,
                         action : Action \cup {Abstain}]
Call == [id : Code \X Day, code : Code, as_of : Day, action : Action \cup {Abstain}, brief : Brief]
Debate == [brief : Brief, as_of : Day, action : Action]
Part == {"delisted", "graph", "mapped"}

VARIABLES
    day, closed,    \* the calendar; has today's session closed
    runs,           \* how many processes were started
    holder,         \* the process that has the store open, or NoProc
    positions,      \* the nights the store has positions rows of
    bars,           \* per code, the dates the store has a price row of
    view,           \* per code and date of a newest bar, the view of it
    derived,        \* per night, the parts of its ingest after the append
    cache,          \* the debate_cache series
    calls,          \* the calls series
    pc,             \* per process: where it is
    night,          \* per process: the as_of it resolved and froze
    next,           \* per process: the next item of the priority order
    argued,         \* per process: fresh debates of this run (SeatBudget)
    broken,         \* per process: quota_broken
    shown,          \* per process: the leans attached so far
    logged          \* per process: logged_tonight, as call ids

storeVars == <<positions, bars, view, derived, cache, calls>>
procVars == <<night, next, argued, broken, shown, logged>>
vars == <<day, closed, runs, holder, storeVars, pc, procVars>>

Init ==
    /\ day = 1 /\ closed = FALSE /\ runs = 0
    /\ holder = NoProc
    /\ positions = {}
    /\ bars = [c \in Code |-> {}]
    /\ view = [c \in Code |-> [d \in Day |-> Blind]]
    /\ derived = [n \in Day |-> {}]
    /\ cache = {} /\ calls = {}
    /\ pc = [p \in Proc |-> "idle"]
    /\ night = [p \in Proc |-> 1]
    /\ next = [p \in Proc |-> 1]
    /\ argued = [p \in Proc |-> 0]
    /\ broken = [p \in Proc |-> FALSE]
    /\ shown = [p \in Proc |-> <<>>]
    /\ logged = [p \in Proc |-> {}]

Published == IF closed THEN day ELSE day - 1

-----------------------------------------------------------------------------
(* The clock and the schedulers *)

TimePasses ==
    /\ \/ ~closed /\ closed' = TRUE /\ day' = day
       \/ closed /\ day < MaxDay /\ closed' = FALSE /\ day' = day + 1
    /\ UNCHANGED <<runs, holder, storeVars, pc, procVars>>

Start(p, n, at) ==
    /\ pc[p] = "idle" /\ runs < MaxRuns
    /\ runs' = runs + 1
    /\ pc' = [pc EXCEPT ![p] = at]
    /\ night' = [night EXCEPT ![p] = n]
    /\ UNCHANGED <<day, closed, holder, storeVars,
                   next, argued, broken, shown, logged>>

\* 22:00: nightly with no --as-of reasons as of the run date.
StartNightly(p) == "nightly" \in Jobs /\ closed /\ Start(p, day, "check")

\* 05:30: the resume is the same command, so it resolves the new day's date.
StartResume(p) == "resume" \in Jobs /\ ~closed /\ day > 1 /\ Start(p, day, "check")

\* An operator passes --as-of.
StartBackfill(p) == "backfill" \in Jobs /\ \E n \in 1..day : Start(p, n, "check")
StartRun(p) == "run" \in Jobs /\ \E n \in 1..day : Start(p, n, "open")

Hold(p) == holder = NoProc /\ holder' = p

\* A process that dies - an exception of a source, a crash, a store another
\* process holds - lets go of the store; its files keep what it wrote.
Die(p) ==
    /\ pc[p] # "idle"
    /\ pc' = [pc EXCEPT ![p] = "idle"]
    /\ night' = [night EXCEPT ![p] = 1]
    /\ next' = [next EXCEPT ![p] = 1]
    /\ argued' = [argued EXCEPT ![p] = 0]
    /\ broken' = [broken EXCEPT ![p] = FALSE]
    /\ shown' = [shown EXCEPT ![p] = <<>>]
    /\ logged' = [logged EXCEPT ![p] = {}]
    /\ holder' = IF holder = p THEN NoProc ELSE holder
    /\ UNCHANGED <<day, closed, runs, storeVars>>

Goto(p, at) == pc' = [pc EXCEPT ![p] = at]

-----------------------------------------------------------------------------
(* ingest *)

\* _night_already_ingested: opened, read and closed in one step.
CheckIngested(p) ==
    /\ pc[p] = "check" /\ holder = NoProc
    /\ Goto(p, IF night[p] \in positions THEN "open" ELSE "ingest")
    /\ UNCHANGED <<day, closed, runs, holder, storeVars, procVars>>

OpenIngest(p) ==
    /\ pc[p] = "ingest" /\ Hold(p)
    /\ Goto(p, "gather")
    /\ UNCHANGED <<day, closed, runs, storeVars, procVars>>

\* gather, then one append of what it pulled: the night's positions, for each
\* code whose source answered every published bar, and whatever moves a view.
AppendReadings(p) ==
    /\ pc[p] = "gather"
    /\ \E answered \in SUBSET Code :
         bars' = [c \in Code |-> IF c \in answered THEN bars[c] \cup 1..Published
                                                   ELSE bars[c]]
    /\ \E reads \in [Code -> [Day -> View \cup {Blind}]] :
         view' = [c \in Code |-> [d \in Day |->
                    IF d \in bars'[c] THEN reads[c][d] ELSE Blind]]
    /\ positions' = positions \cup {night[p]}
    /\ Goto(p, "disclose")
    /\ UNCHANGED <<day, closed, runs, holder, derived, cache, calls, procVars>>

\* store.append(delisting_disclosures(...)).
Disclose(p) ==
    /\ pc[p] = "disclose"
    /\ derived' = [derived EXCEPT ![night[p]] = @ \cup {"delisted"}]
    /\ Goto(p, "graph")
    /\ UNCHANGED <<day, closed, runs, holder, positions, bars, view, cache, calls,
                   procVars>>

\* build_graph_from_store.
BuildGraph(p) ==
    /\ pc[p] = "graph"
    /\ derived' = [derived EXCEPT ![night[p]] = @ \cup {"graph"}]
    /\ Goto(p, "map")
    /\ UNCHANGED <<day, closed, runs, holder, positions, bars, view, cache, calls,
                   procVars>>

\* _materialise_mapping, tier_cold (module Store) and close.
Materialise(p) ==
    /\ pc[p] = "map"
    /\ derived' = [derived EXCEPT ![night[p]] = @ \cup {"mapped"}]
    /\ holder' = NoProc
    /\ Goto(p, "open")
    /\ UNCHANGED <<day, closed, runs, positions, bars, view, cache, calls, procVars>>

-----------------------------------------------------------------------------
(* build_dashboard and _attach_leans *)

\* The graph and the mapping are rebuilt only when the store has none at all.
Rebuilt == {part \in {"graph", "mapped"} : \A n \in Day : part \notin derived[n]}

\* Open the store, refuse an empty one (SnapshotError, see Die), read the
\* items, the debates and tonight's calls.
OpenBuild(p) ==
    /\ pc[p] = "open" /\ Hold(p)
    /\ positions # {}
    /\ derived' = [derived EXCEPT ![night[p]] = @ \cup Rebuilt]
    /\ logged' = [logged EXCEPT ![p] =
                    {k.id : k \in {k \in calls : k.as_of = night[p]}}]
    /\ Goto(p, IF \E n \in positions : n =< night[p] THEN "digest" ELSE "close")
    /\ UNCHANGED <<day, closed, runs, positions, bars, view, cache, calls,
                   night, next, argued, broken, shown>>

NewestBar(c, n) ==
    LET known == {d \in bars[c] : d =< n}
    IN  IF known = {} THEN 0 ELSE CHOOSE d \in known : \A e \in known : e =< d

\* What night n is shown of a code: nothing when it is blind on it.
Seen(c, n) ==
    LET d == NewestBar(c, n)
    IN  IF d = 0 \/ view[c][d] = Blind THEN Nothing
        ELSE [on |-> d, view |-> view[c][d]]

BriefOf(i, n) == [item |-> i, seen |-> Seen(Book[i], n)]

\* Mutant: the preload keeps the oldest row of a key.
OldestDebates(b, n) ==
    {d \in cache : d.brief = b /\ d.as_of =< n
        /\ \A e \in cache : e.brief = b /\ e.as_of =< n => e.as_of >= d.as_of}

\* Mutant: the preload reads every row, without the night's ceiling.
AnyDebates(b, n) ==
    {d \in cache : d.brief = b /\ \A e \in cache : e.brief = b => e.as_of =< d.as_of}

\* The debates _DebateCache holds for a brief: the newest row knowable at n.
CachedDebates(b, n) ==
    {d \in cache : d.brief = b /\ d.as_of =< n
        /\ \A e \in cache : e.brief = b /\ e.as_of =< n => e.as_of =< d.as_of}

Attach(p, lean, at) ==
    /\ shown' = [shown EXCEPT ![p] = Append(@, lean)]
    /\ Goto(p, at)

Decided(b, a) == [status |-> "decided", seen |-> b.seen, action |-> a]

Digesting(p) == pc[p] = "digest" /\ next[p] =< Len(Book)

\* Once the usage window is spent, every later item defers unseen.
DigestBroken(p) ==
    /\ Digesting(p) /\ broken[p]
    /\ Attach(p, Deferred, "digest")
    /\ next' = [next EXCEPT ![p] = @ + 1]
    /\ UNCHANGED <<day, closed, runs, holder, storeVars,
                   night, argued, broken, logged>>

\* A blind item abstains and a known brief reuses its debate: no seat, no slot.
DigestFree(p) ==
    /\ Digesting(p) /\ ~broken[p]
    /\ LET b == BriefOf(next[p], night[p])
       IN  \/ b.seen = Nothing /\ Attach(p, Decided(b, Abstain), "commit")
           \/ /\ b.seen # Nothing
              /\ \E d \in CachedDebates(b, night[p]) :
                    Attach(p, Decided(b, d.action), "commit")
    /\ UNCHANGED <<day, closed, runs, holder, storeVars,
                   night, next, argued, broken, logged>>

Arguable(p) ==
    LET b == BriefOf(next[p], night[p])
    IN  Digesting(p) /\ ~broken[p] /\ b.seen # Nothing /\ CachedDebates(b, night[p]) = {}

\* Mutant: claim() hands out slots past the ceiling.
DigestFreshUncapped(p) ==
    /\ Arguable(p)
    /\ LET b == BriefOf(next[p], night[p])
       IN  \E a \in Action :
             /\ cache' = cache \cup {[brief |-> b, as_of |-> night[p], action |-> a]}
             /\ Attach(p, Decided(b, a), "commit")
    /\ argued' = [argued EXCEPT ![p] = @ + 1]
    /\ UNCHANGED <<day, closed, runs, holder, positions, bars, view, derived, calls,
                   night, next, broken, logged>>

\* The seats argue, and the debate is appended to the cache.
DigestFresh(p) ==
    /\ Arguable(p) /\ argued[p] < DebateCap
    /\ LET b == BriefOf(next[p], night[p])
       IN  \E a \in Action :
             /\ cache' = cache \cup {[brief |-> b, as_of |-> night[p], action |-> a]}
             /\ Attach(p, Decided(b, a), "commit")
    /\ argued' = [argued EXCEPT ![p] = @ + 1]
    /\ UNCHANGED <<day, closed, runs, holder, positions, bars, view, derived, calls,
                   night, next, broken, logged>>

\* The month's budget or the run's slots are spent (a refusal that claims no
\* slot), or a slot is claimed and the seat raises.
Fails(p, quota) ==
    \/ ~quota /\ UNCHANGED argued
    \/ argued[p] < DebateCap /\ argued' = [argued EXCEPT ![p] = @ + 1]

\* Mutant: a deferred item goes on to the commit like a decided one.
DigestFailsCommits(p) ==
    /\ Arguable(p) /\ Fails(p, FALSE)
    /\ Attach(p, Deferred, "commit")
    /\ UNCHANGED <<day, closed, runs, holder, storeVars, night, next, broken, logged>>

\* No debate comes of it and the item defers; a spent usage window also breaks
\* the circuit for the rest of the run.
DigestFails(p) ==
    /\ Arguable(p)
    /\ \E quota \in BOOLEAN :
         /\ Fails(p, quota)
         /\ broken' = [broken EXCEPT ![p] = quota]
    /\ Attach(p, Deferred, "digest")
    /\ next' = [next EXCEPT ![p] = @ + 1]
    /\ UNCHANGED <<day, closed, runs, holder, storeVars, night, logged>>

\* Mutant: the seal lets the night after the call's own pass.
WindowOpenLate(c, n) == \E d \in bars[c] : d > n + 1

\* window_open: a price row dated after the night exists.
WindowOpen(c, n) == \E d \in bars[c] : d > n

\* Mutant: the call id names the item and not the fund it is about.
CallIdOfItem(i, n) == <<i, n>>

\* call_id = "code:as_of".
CallId(i, n) == <<Book[i], n>>

\* log_call: its key is the call id and both stamps are the night, so append
\* keeps the row that is there.
LogCall(k) == IF \E j \in calls : j.id = k.id THEN calls ELSE calls \cup {k}

\* The call-of-record of a decided item, unless the night has one for its code
\* or its window has opened.
Commit(p) ==
    /\ pc[p] = "commit"
    /\ LET i  == next[p]
           id == CallId(i, night[p])
           k  == [id |-> id, code |-> Book[i], as_of |-> night[p],
                  action |-> shown[p][i].action,
                  brief |-> [item |-> i, seen |-> shown[p][i].seen]]
       IN  IF id \in logged[p] \/ WindowOpen(Book[i], night[p])
           THEN UNCHANGED <<calls, logged>>
           ELSE /\ calls' = LogCall(k)
                /\ logged' = [logged EXCEPT ![p] = @ \cup {id}]
    /\ next' = [next EXCEPT ![p] = @ + 1]
    /\ Goto(p, "digest")
    /\ UNCHANGED <<day, closed, runs, holder, positions, bars, view, derived, cache,
                   night, argued, broken, shown>>

\* Every item has its lean: close the store.
CloseBuild(p) ==
    /\ \/ pc[p] = "close"
       \/ pc[p] = "digest" /\ next[p] > Len(Book)
    /\ holder' = NoProc
    /\ Goto(p, "write")
    /\ UNCHANGED <<day, closed, runs, storeVars, procVars>>

\* run writes shown[p] to dashboard.json, and the process is done (history,
\* series, replica, ledger and run log are not this module's).
WriteOutput(p) ==
    /\ pc[p] = "write"
    /\ pc' = [pc EXCEPT ![p] = "idle"]
    /\ night' = [night EXCEPT ![p] = 1]
    /\ next' = [next EXCEPT ![p] = 1]
    /\ argued' = [argued EXCEPT ![p] = 0]
    /\ broken' = [broken EXCEPT ![p] = FALSE]
    /\ shown' = [shown EXCEPT ![p] = <<>>]
    /\ logged' = [logged EXCEPT ![p] = {}]
    /\ UNCHANGED <<day, closed, runs, holder, storeVars>>

-----------------------------------------------------------------------------
Step(p) ==
    \/ CheckIngested(p) \/ OpenIngest(p) \/ AppendReadings(p) \/ Disclose(p)
    \/ BuildGraph(p) \/ Materialise(p) \/ OpenBuild(p)
    \/ DigestBroken(p) \/ DigestFree(p) \/ DigestFresh(p) \/ DigestFails(p)
    \/ Commit(p) \/ CloseBuild(p) \/ WriteOutput(p)

Next ==
    \/ TimePasses
    \/ \E p \in Proc :
         \/ StartNightly(p) \/ StartResume(p) \/ StartBackfill(p) \/ StartRun(p)
         \/ Step(p) \/ Die(p)

Spec == Init /\ [][Next]_vars

-----------------------------------------------------------------------------
(* Properties *)

Held == {"gather", "disclose", "graph", "map", "digest", "commit", "close"}
Places == Held \cup {"idle", "check", "ingest", "open", "write"}

\* Every variable keeps its type; no run argues past its slots.
TypeOK ==
    /\ day \in Day /\ closed \in BOOLEAN /\ runs \in 0..MaxRuns
    /\ holder \in Proc \cup {NoProc}
    /\ positions \in SUBSET Day
    /\ bars \in [Code -> SUBSET Day]
    /\ view \in [Code -> [Day -> View \cup {Blind}]]
    /\ derived \in [Day -> SUBSET Part]
    /\ cache \in SUBSET Debate
    /\ calls \in SUBSET Call
    /\ pc \in [Proc -> Places]
    /\ night \in [Proc -> Day]
    /\ next \in [Proc -> 1..(Len(Book) + 1)]
    /\ argued \in [Proc -> 0..DebateCap]
    /\ broken \in [Proc -> BOOLEAN]
    /\ shown \in [Proc -> Seq(Lean)]
    /\ logged \in [Proc -> SUBSET (Code \X Day)]


Trail == INSTANCE CallTrail

\* The durable calls are the trail the scorer was promised, whichever
\* processes run, overlap, back-fill or die: only additions, one per fund and
\* night, and none once a later price is known.
ImplementsTrail == Trail!TrailSpec

\* A fund on two lists, a re-run, a resume and a back-fill of one night never
\* make two calls of it.
OneCallPerNight ==
    \A j, k \in calls : j.code = k.code /\ j.as_of = k.as_of => j = k

\* A call is the outcome of a debate on record, argued on what the seats were
\* shown and no later than the call's night: a judgment of a later night never
\* enters an earlier call, whatever order the nights are run in.
CallsRestOnTheirNight ==
    \A k \in calls : k.brief.seen # Nothing =>
        \E d \in cache : d.brief = k.brief /\ d.as_of =< k.as_of /\ d.action = k.action

\* What the artifact shows as decided is what the record says, when both are
\* about the same brief: a re-run or a resume of a night shows the committed
\* lean again, and never argues it anew.
ArtifactMatchesRecord ==
    \A p \in Proc : \A i \in DOMAIN shown[p] : \A k \in calls :
        /\ shown[p][i].status = "decided"
        /\ k.as_of = night[p] /\ k.brief = [item |-> i, seen |-> shown[p][i].seen]
        => k.action = shown[p][i].action

\* An abstention no seat argued enters the record only when there was nothing
\* to argue, too short a history included: a seat that failed or never ran leaves no call (pipeline.py:542).
NoCallForNonDecision ==
    [][\A k \in calls' \ calls : k.action = Abstain => Seen(k.code, k.as_of) = Nothing]_vars

\* RUNBOOK.md:280: "The resume is a plain nightly re-run for the same night".
ResumeServesLastNight ==
    [][\A p \in Proc : StartResume(p) => night'[p] = day - 1]_vars

\* pipeline.py:196: a death is disclosed "as of tonight", before the night is
\* reasoned about: no call of a night whose disclosures are not in the store.
CallsFollowDisclosure == \A k \in calls : "delisted" \in derived[k.as_of]
=============================================================================
