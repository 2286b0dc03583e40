------------------------------ MODULE HoldingsGraph ------------------------------
(***************************************************************************)
(* The durable look-through graph (graph/store.py) as the nightly ingest   *)
(* grows it: per fund, disclosed snapshots of what it holds, pulled past a *)
(* watermark, appended to the store, and merged into the graph as HOLDS    *)
(* edges that are live over half-open windows.                             *)
(*                                                                         *)
(* A day is one on which something can be disclosed: a quarter's end or a  *)
(* filing date. A snapshot is published on its day or later, and a fund's  *)
(* snapshots in order. An ingest can die between the store's append and    *)
(* the merge, whose edge statement commits as one.                         *)
(***************************************************************************)
EXTENDS Integers, FiniteSets, FiniteSetsExt

CONSTANTS
    Fund,           \* the holders: on-exchange funds and N-PORT filers
    Filers,         \* the N-PORT filers among them
    Portfolio,      \* disclosable holdings: securities to weights
    MaxDay          \* bound: days

Day == 1..MaxDay
Security == UNION {DOMAIN p : p \in Portfolio}
Snapshot == [as_of : Day, holdings : Portfolio]

ASSUME GraphAssumption ==
    /\ MaxDay \in Nat \ {0}
    /\ Filers \subseteq Fund
    /\ \A p \in Portfolio : p \in [DOMAIN p -> Nat] /\ DOMAIN p # {}

VARIABLES
    today,
    filed,      \* per fund, the snapshots published
    stored,     \* per fund, the snapshots in the reading store
    edges,      \* the graph
    pc          \* "idle", or "build": appended, the graph not yet built

vars == <<today, filed, stored, edges, pc>>

Init ==
    /\ today = 1
    /\ filed = [f \in Fund |-> {}]
    /\ stored = [f \in Fund |-> {}]
    /\ edges = {}
    /\ pc = "idle"

-----------------------------------------------------------------------------
(* The edges *)

OPEN_END == MaxDay + 1

\* Mutant: the window closes at the last snapshot, not at the next.
ClosesAtLast(snapshots, day) ==
    LET later == {s.as_of : s \in {s \in snapshots : s.as_of > day}}
    IN  IF later = {} THEN OPEN_END ELSE Max(later)

\* Mutant: no open end is filled in.
ClosesUnfilled(snapshots, day) ==
    LET later == {s.as_of : s \in {s \in snapshots : s.as_of > day}}
    IN  IF later = {} THEN 0 ELSE Min(later)

\* A holding's window closes at the fund's next snapshot.
ValidTo(snapshots, day) ==
    LET later == {s.as_of : s \in {s \in snapshots : s.as_of > day}}
    IN  IF later = {} THEN OPEN_END ELSE Min(later)

Edge(f, s, security) ==
    [fund |-> f, security |-> security, weight |-> s.holdings[security],
     as_of |-> s.as_of, valid_to |-> ValidTo(stored[f], s.as_of)]

\* _window_edges, over the whole history.
WindowEdges ==
    UNION {UNION {{Edge(f, s, security) : security \in DOMAIN s.holdings} :
                     s \in stored[f]} : f \in Fund}

\* valid_from is as_of, and a fund has one source.
SameDisclosure(e, o) ==
    e.fund = o.fund /\ e.security = o.security /\ e.as_of = o.as_of

\* Mutant: a holding is merged on its endpoints only.
MergeEndpoints(graph, new) ==
    graph \cup {e \in new : \A o \in graph : ~(e.fund = o.fund /\ e.security = o.security)}

\* add_edges: MERGE on the disclosure's identity; ON CREATE alone sets weight
\* and valid_to.
Merge(graph, new) ==
    graph \cup {e \in new : \A o \in graph : ~SameDisclosure(e, o)}

-----------------------------------------------------------------------------
(* The point-in-time read *)

\* Mutant: a disclosure after the query date is seen.
LiveAhead(graph, f, security, d) ==
    {e \in graph : e.fund = f /\ e.security = security /\ d < e.valid_to}

Live(graph, f, security, d) ==
    {e \in graph : e.fund = f /\ e.security = security /\ e.as_of =< d /\ d < e.valid_to}

\* _window_read: the latest live disclosure.
Served(graph, f, security, d) ==
    LET live == Live(graph, f, security, d)
    IN  {e.weight : e \in {e \in live : \A o \in live : o.as_of =< e.as_of}}

-----------------------------------------------------------------------------
(* Steps *)

\* A fund discloses (external).
File(f) ==
    /\ \E day \in 1..today, p \in Portfolio :
         /\ \A s \in filed[f] : s.as_of < day
         /\ filed' = [filed EXCEPT ![f] = @ \cup {[as_of |-> day, holdings |-> p]}]
    /\ UNCHANGED <<today, stored, edges, pc>>

TimePasses ==
    /\ today < MaxDay
    /\ today' = today + 1
    /\ UNCHANGED <<filed, stored, edges, pc>>

\* Snapshots past the stored watermark; of a filer, its latest only.
Newer(f) == {s \in filed[f] : \A o \in stored[f] : o.as_of < s.as_of}
Pulled(f) ==
    {s \in Newer(f) : f \in Filers => \A o \in Newer(f) : o.as_of =< s.as_of}

\* The legs that answer bring what is new; ingest appends it.
IngestAppend ==
    /\ pc = "idle"
    /\ \E answered \in SUBSET Fund :
         stored' = [f \in Fund |->
             stored[f] \cup IF f \in answered THEN Pulled(f) ELSE {}]
    /\ pc' = "build"
    /\ UNCHANGED <<today, filed, edges>>

\* ingest builds after every append.
IngestBuild ==
    /\ pc = "build"
    /\ edges' = Merge(edges, WindowEdges)
    /\ pc' = "idle"
    /\ UNCHANGED <<today, filed, stored>>

\* The process dies before the build.
Crash ==
    /\ pc = "build"
    /\ pc' = "idle"
    /\ UNCHANGED <<today, filed, stored, edges>>

\* build_dashboard builds an empty graph.
RunBuild ==
    /\ pc = "idle" /\ edges = {}
    /\ edges' = Merge(edges, WindowEdges)
    /\ UNCHANGED <<today, filed, stored, pc>>

Next ==
    \/ \E f \in Fund : File(f)
    \/ TimePasses
    \/ IngestAppend \/ IngestBuild \/ Crash \/ RunBuild

Spec == Init /\ [][Next]_vars

-----------------------------------------------------------------------------
(* Properties *)

TypeOK ==
    /\ today \in Day
    /\ filed \in [Fund -> SUBSET Snapshot]
    /\ stored \in [Fund -> SUBSET Snapshot]
    /\ edges \in SUBSET [fund : Fund, security : Security, weight : Nat,
                         as_of : Day, valid_to : 1..OPEN_END]
    /\ pc \in {"idle", "build"}

\* The stored snapshot of a fund in force on a date.
InForce(f, d) ==
    {s \in stored[f] : s.as_of =< d /\ \A o \in stored[f] : o.as_of =< d => o.as_of =< s.as_of}

\* What a fund holds by its snapshot in force.
Holds(f, security, d) ==
    {s.holdings[security] : s \in {s \in InForce(f, d) : security \in DOMAIN s.holdings}}

\* A build serves every holding in force at its disclosed weight, once, on every
\* date, whatever earlier nights crashed or skipped ("never double-counted").
BuildServesInForce ==
    [][IngestBuild \/ RunBuild =>
        \A f \in Fund, security \in Security, d \in Day :
          Holds(f, security, d) # {} => Served(edges', f, security, d) = Holds(f, security, d)]_vars

\* Built at once from the whole history, the graph serves nothing else.
FreshBuildIsExact ==
    [][edges = {} /\ (IngestBuild \/ RunBuild) =>
        \A f \in Fund, security \in Security, d \in Day :
          Served(edges', f, security, d) = Holds(f, security, d)]_vars

\* Once a later snapshot of the fund is in the graph, the past stands.
PastReadsStand ==
    [][\A f \in Fund, d \in Day : (\E e \in edges : e.fund = f /\ e.as_of > d) =>
        \A security \in Security :
          Served(edges', f, security, d) = Served(edges, f, security, d)]_vars

\* graph/store.py:197: "a name that drops out simply expires - survivorship-aware,
\* with no name carried forward as if still held", in the graph a night built.
NothingCarriedForward ==
    [][IngestBuild =>
        \A f \in Fund, security \in Security, d \in Day :
          Served(edges', f, security, d) \subseteq Holds(f, security, d)]_vars
=============================================================================
