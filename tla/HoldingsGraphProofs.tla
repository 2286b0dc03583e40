--------------------------- MODULE HoldingsGraphProofs ---------------------------
(***************************************************************************)
(* The durable graph serves every holding in force and leaves the past     *)
(* alone, for any funds, portfolios and days, whatever crashed or was      *)
(* pulled late.                                                            *)
(*                                                                         *)
(* A merge trusts the edges it finds, so they must be what the store       *)
(* discloses (Disclosed), with windows that close no sooner than the next  *)
(* snapshot (Windows). That the past stands needs to know that a snapshot  *)
(* the graph lacks is newer than all the graph has of the fund (Lag).      *)
(***************************************************************************)
EXTENDS HoldingsGraph, WellFoundedInduction, TLAPS

OnePerDay(snapshots) == \A s, o \in snapshots : s.as_of = o.as_of => s = o

\* The store has what was published, one snapshot a day.
StoredFiled == \A f \in Fund : OnePerDay(filed[f]) /\ stored[f] \subseteq filed[f]

\* The snapshot an edge discloses.
Discloses(s, e) ==
    /\ s.as_of = e.as_of
    /\ e.security \in DOMAIN s.holdings
    /\ e.weight = s.holdings[e.security]

Disclosed == \A e \in edges : \E s \in stored[e.fund] : Discloses(s, e)

\* A window closes at a later snapshot of the fund, or not at all.
ClosesLater(e) ==
    /\ e.as_of < e.valid_to
    /\ e.valid_to = OPEN_END \/ \E s \in stored[e.fund] : s.as_of = e.valid_to

Windows == \A e \in edges : ClosesLater(e)

HasEdge(f, s, security) ==
    \E e \in edges : e.fund = f /\ e.security = security /\ e.as_of = s.as_of

\* A snapshot is in the graph, or newer than all the graph has of its fund.
Lag == \A f \in Fund : \A s \in stored[f] :
    \/ \A security \in DOMAIN s.holdings : HasEdge(f, s, security)
    \/ \A e \in edges : e.fund = f => e.as_of < s.as_of

IInv == TypeOK /\ StoredFiled /\ Disclosed /\ Windows /\ Lag

-----------------------------------------------------------------------------

\* A set of naturals that is not empty has a smallest member.
LEMMA MinExists ==
    ASSUME NEW S \in SUBSET Nat, S # {}
    PROVE  \E m \in S : \A x \in S : m =< x
<1> DEFINE R == OpToRel(<, Nat)
<1>1. IsWellFoundedOn(R, Nat)  BY NatLessThanWellFounded
<1>2. PICK m \in S : \A x \in S : <<x, m>> \notin R
  <2> HIDE DEF R
  <2>. QED  BY <1>1, WFMin
<1>3. ASSUME NEW x \in S  PROVE m =< x
  <2>1. <<x, m>> \notin R  BY <1>2
  <2>2. ~(x < m)  BY <2>1 DEF OpToRel
  <2>. QED  BY <2>2
<1>. QED  BY <1>3

\* A window closes at a later snapshot, or stays open.
LEMMA ValidToCloses ==
    ASSUME NEW snapshots \in SUBSET Snapshot, NEW day \in Day
    PROVE  /\ ValidTo(snapshots, day) \in 1..OPEN_END
           /\ day < ValidTo(snapshots, day)
           /\ \/ ValidTo(snapshots, day) = OPEN_END
              \/ \E s \in snapshots : s.as_of = ValidTo(snapshots, day)
<1> DEFINE later == {s.as_of : s \in {s \in snapshots : s.as_of > day}}
<1>1. MaxDay \in Nat /\ OPEN_END = MaxDay + 1  BY GraphAssumption DEF OPEN_END
<1>2. \A s \in snapshots : s.as_of \in Nat /\ 1 =< s.as_of /\ s.as_of =< MaxDay
  BY <1>1 DEF Snapshot, Day
<1>3. day \in Nat /\ 1 =< day /\ day =< MaxDay  BY <1>1 DEF Day
<1>4. CASE later = {}
  BY <1>1, <1>3, <1>4 DEF ValidTo
<1>5. CASE later # {}
  <2>1. later \in SUBSET Nat  BY <1>2
  <2>2. \E m \in later : \A x \in later : m =< x
    <3> HIDE DEF later
    <3>. QED  BY <1>5, <2>1, MinExists
  <2>3. Min(later) \in later  BY <2>2 DEF Min
  <2>4. ValidTo(snapshots, day) = Min(later)  BY <1>5 DEF ValidTo
  <2>5. PICK s \in snapshots : s.as_of > day /\ Min(later) = s.as_of  BY <2>3
  <2> HIDE DEF later
  <2>. QED  BY <1>1, <1>2, <1>3, <2>4, <2>5
<1>. QED  BY <1>4, <1>5

\* No snapshot of the fund is inside a window.
LEMMA ValidToIsNext ==
    ASSUME NEW snapshots \in SUBSET Snapshot, NEW day \in Day,
           NEW s \in snapshots, s.as_of > day
    PROVE  ValidTo(snapshots, day) =< s.as_of
<1> DEFINE later == {o.as_of : o \in {o \in snapshots : o.as_of > day}}
<1>1. s.as_of \in later  OBVIOUS
<1>2. later \in SUBSET Nat  BY GraphAssumption DEF Snapshot, Day
<1>3. \E m \in later : \A x \in later : m =< x
  <2> HIDE DEF later
  <2>. QED  BY <1>1, <1>2, MinExists
<1>4. Min(later) =< s.as_of  BY <1>1, <1>3 DEF Min
<1>5. ValidTo(snapshots, day) = Min(later)  BY <1>1 DEF ValidTo
<1>. QED  BY <1>4, <1>5

\* An edge of a stored snapshot is in type, discloses it and closes later.
LEMMA EdgeSound ==
    ASSUME TypeOK, NEW f \in Fund, NEW s \in stored[f], NEW security \in DOMAIN s.holdings
    PROVE  /\ Edge(f, s, security) \in [fund : Fund, security : Security, weight : Nat,
                                        as_of : Day, valid_to : 1..OPEN_END]
           /\ Edge(f, s, security).fund = f
           /\ Discloses(s, Edge(f, s, security))
           /\ ClosesLater(Edge(f, s, security))
<1>1. stored[f] \in SUBSET Snapshot  BY DEF TypeOK
<1>2. s.as_of \in Day /\ s.holdings \in Portfolio  BY <1>1 DEF Snapshot
<1>3. security \in Security /\ s.holdings[security] \in Nat
  BY <1>2, GraphAssumption DEF Security
<1>4. /\ ValidTo(stored[f], s.as_of) \in 1..OPEN_END
      /\ s.as_of < ValidTo(stored[f], s.as_of)
      /\ \/ ValidTo(stored[f], s.as_of) = OPEN_END
         \/ \E o \in stored[f] : o.as_of = ValidTo(stored[f], s.as_of)
  BY <1>1, <1>2, ValidToCloses
<1>. QED  BY <1>2, <1>3, <1>4 DEF Edge, Discloses, ClosesLater

\* The history's edges are those of its snapshots.
LEMMA WindowEdgesAre ==
    ASSUME NEW e
    PROVE  e \in WindowEdges <=>
             \E f \in Fund : \E s \in stored[f] : \E security \in DOMAIN s.holdings :
               e = Edge(f, s, security)
BY DEF WindowEdges

-----------------------------------------------------------------------------

\* The invariant holds at the start.
LEMMA InvInit == Init => IInv
<1> SUFFICES ASSUME Init  PROVE IInv
  OBVIOUS
<1>1. TypeOK  BY GraphAssumption DEF Init, TypeOK, Day
<1>2. StoredFiled  BY DEF Init, StoredFiled, OnePerDay
<1>3. Disclosed /\ Windows /\ Lag  BY DEF Init, Disclosed, Windows, Lag
<1>. QED  BY <1>1, <1>2, <1>3 DEF IInv

\* A publication is newer than all the fund published.
LEMMA FileKeeps ==
    ASSUME IInv, NEW f \in Fund, File(f)
    PROVE  IInv'
<1> USE DEF IInv
<1>1. PICK day \in 1..today, p \in Portfolio :
        /\ \A s \in filed[f] : s.as_of < day
        /\ filed' = [filed EXCEPT ![f] = @ \cup {[as_of |-> day, holdings |-> p]}]
  BY DEF File
<1>2. UNCHANGED <<today, stored, edges, pc>>  BY DEF File
<1>3. day \in Day /\ [as_of |-> day, holdings |-> p] \in Snapshot
  BY GraphAssumption DEF TypeOK, Day, Snapshot
<1>4. TypeOK'  BY <1>1, <1>2, <1>3 DEF TypeOK
<1>5. StoredFiled'
  <2> SUFFICES ASSUME NEW g \in Fund
               PROVE  OnePerDay(filed'[g]) /\ stored[g] \subseteq filed'[g]
    BY <1>2 DEF StoredFiled
  <2>1. CASE g # f  BY <2>1, <1>1 DEF StoredFiled, TypeOK
  <2>2. CASE g = f
    <3>1. filed'[g] = filed[g] \cup {[as_of |-> day, holdings |-> p]}
      BY <2>2, <1>1 DEF TypeOK
    <3>2. \A s \in filed[g] : s.as_of # day
      <4>1. \A s \in filed[g] : s.as_of < day /\ s.as_of \in Int
        BY <1>1, <2>2 DEF TypeOK, Snapshot, Day
      <4>2. day \in Int  BY <1>3 DEF Day
      <4>. QED  BY <4>1, <4>2
    <3>3. OnePerDay(filed'[g])  BY <3>1, <3>2 DEF StoredFiled, OnePerDay
    <3>. QED  BY <3>1, <3>3 DEF StoredFiled
  <2>. QED  BY <2>1, <2>2
<1>6. Disclosed' /\ Windows' /\ Lag'
  BY <1>2 DEF Disclosed, Windows, ClosesLater, Lag, HasEdge
<1>. QED  BY <1>4, <1>5, <1>6

\* What a night appends is newer than all the store has of the fund.
LEMMA AppendKeeps == ASSUME IInv, IngestAppend  PROVE IInv'
<1> USE DEF IInv
<1>1. PICK answered \in SUBSET Fund :
        stored' = [f \in Fund |-> stored[f] \cup IF f \in answered THEN Pulled(f) ELSE {}]
  BY DEF IngestAppend
<1>2. UNCHANGED <<today, filed, edges>> /\ pc' = "build"  BY DEF IngestAppend
<1>3. ASSUME NEW f \in Fund
      PROVE  /\ stored[f] \subseteq stored'[f]
             /\ stored'[f] \subseteq stored[f] \cup Newer(f)
  BY <1>1, <1>3 DEF Pulled
<1>4. \A f \in Fund : Newer(f) \subseteq filed[f]  BY DEF Newer
<1>5. stored' \in [Fund -> SUBSET Snapshot]
  <2>1. \A f \in Fund : Pulled(f) \subseteq Snapshot
    BY <1>4 DEF Pulled, TypeOK
  <2>. QED  BY <1>1, <2>1 DEF TypeOK
<1>6. TypeOK'  BY <1>2, <1>5 DEF TypeOK
<1>7. StoredFiled'  BY <1>2, <1>3, <1>4 DEF StoredFiled
<1>8. \A e \in edges : e.fund \in Fund  BY DEF TypeOK
<1>9. Disclosed'  BY <1>2, <1>3, <1>8 DEF Disclosed
<1>10. Windows'  BY <1>2, <1>3, <1>8 DEF Windows, ClosesLater
<1>11. Lag'
  <2> SUFFICES ASSUME NEW f \in Fund, NEW s \in stored'[f]
               PROVE  \/ \A security \in DOMAIN s.holdings : HasEdge(f, s, security)
                      \/ \A e \in edges : e.fund = f => e.as_of < s.as_of
    BY <1>2 DEF Lag, HasEdge
  <2>1. CASE s \in stored[f]  BY <2>1 DEF Lag
  <2>2. CASE s \in Newer(f)
    <3>1. ASSUME NEW e \in edges, e.fund = f  PROVE e.as_of < s.as_of
      <4>1. PICK o \in stored[f] : o.as_of = e.as_of
        BY <3>1 DEF Disclosed, Discloses
      <4>. QED  BY <2>2, <4>1 DEF Newer
    <3>. QED  BY <3>1
  <2>. QED  BY <1>3, <2>1, <2>2
<1>. QED  BY <1>6, <1>7, <1>9, <1>10, <1>11

\* After a merge of the history, every stored holding has its edge.
LEMMA MergedIsWhole ==
    ASSUME IInv, edges' = Merge(edges, WindowEdges),
           NEW f \in Fund, NEW s \in stored[f], NEW security \in DOMAIN s.holdings
    PROVE  \E e \in edges' : e.fund = f /\ e.security = security /\ e.as_of = s.as_of
<1> DEFINE new == Edge(f, s, security)
<1>1. new \in WindowEdges  BY WindowEdgesAre
<1>2. new.fund = f /\ new.security = security /\ new.as_of = s.as_of  BY DEF Edge
<1> HIDE DEF new
<1>3. CASE \E o \in edges : SameDisclosure(new, o)
  BY <1>2, <1>3 DEF SameDisclosure, Merge
<1>4. CASE \A o \in edges : ~SameDisclosure(new, o)
  BY <1>1, <1>2, <1>4 DEF Merge
<1>. QED  BY <1>3, <1>4

\* The edges of a merge disclose stored snapshots and close later.
LEMMA MergedIsSound ==
    ASSUME IInv, edges' = Merge(edges, WindowEdges), NEW e \in edges'
    PROVE  /\ e \in [fund : Fund, security : Security, weight : Nat,
                     as_of : Day, valid_to : 1..OPEN_END]
           /\ \E s \in stored[e.fund] : Discloses(s, e)
           /\ ClosesLater(e)
<1> USE DEF IInv
<1>1. CASE e \in edges  BY <1>1 DEF TypeOK, Disclosed, Windows
<1>2. CASE e \in WindowEdges
  <2>1. PICK f \in Fund : \E s \in stored[f] : \E security \in DOMAIN s.holdings :
          e = Edge(f, s, security)
    BY <1>2, WindowEdgesAre
  <2>2. PICK s \in stored[f] : \E security \in DOMAIN s.holdings : e = Edge(f, s, security)
    BY <2>1
  <2>3. e.fund = f /\ Discloses(s, e)  BY <2>2, EdgeSound
  <2>. QED  BY <2>2, <2>3, EdgeSound
<1>. QED  BY <1>1, <1>2 DEF Merge

\* A build keeps the invariant.
LEMMA BuildKeeps ==
    ASSUME IInv, edges' = Merge(edges, WindowEdges),
           UNCHANGED <<today, filed, stored>>, pc' \in {"idle", "build"}
    PROVE  IInv'
<1> USE DEF IInv
<1>1. TypeOK'  BY MergedIsSound DEF TypeOK
<1>2. StoredFiled'  BY DEF StoredFiled
<1>3. Disclosed'  BY MergedIsSound DEF Disclosed
<1>4. Windows'
  <2>1. \A e \in edges' : ClosesLater(e)  BY MergedIsSound
  <2>. QED  BY <2>1 DEF Windows, ClosesLater
<1>5. Lag'
  <2>1. ASSUME NEW f \in Fund, NEW s \in stored[f], NEW security \in DOMAIN s.holdings
        PROVE  HasEdge(f, s, security)'
    <3>1. \E e \in edges' : e.fund = f /\ e.security = security /\ e.as_of = s.as_of
      BY <2>1, MergedIsWhole
    <3>. QED  BY <3>1 DEF HasEdge
  <2>. QED  BY <2>1 DEF Lag
<1>. QED  BY <1>1, <1>2, <1>3, <1>4, <1>5

\* Every step keeps the invariant.
LEMMA InvStep == IInv /\ [Next]_vars => IInv'
<1> SUFFICES ASSUME IInv, [Next]_vars  PROVE IInv'
  OBVIOUS
<1>1. ASSUME NEW f \in Fund, File(f)  PROVE IInv'  BY <1>1, FileKeeps
<1>2. CASE IngestAppend  BY <1>2, AppendKeeps
<1>3. CASE IngestBuild  BY <1>3, BuildKeeps DEF IngestBuild
<1>4. CASE RunBuild  BY <1>4, BuildKeeps DEF RunBuild
<1>5. CASE TimePasses \/ Crash \/ UNCHANGED vars
  <2>1. UNCHANGED <<filed, stored, edges>>  BY <1>5 DEF TimePasses, Crash, vars
  <2>2. today' \in Day /\ pc' \in {"idle", "build"}
    <3>1. today \in Day /\ pc \in {"idle", "build"}  BY DEF IInv, TypeOK
    <3>2. CASE TimePasses  BY <3>1, <3>2, GraphAssumption DEF TimePasses, Day
    <3>3. CASE Crash \/ UNCHANGED vars  BY <3>1, <3>3 DEF Crash, vars
    <3>. QED  BY <1>5, <3>2, <3>3
  <2>3. TypeOK'  BY <2>1, <2>2 DEF IInv, TypeOK
  <2>4. StoredFiled' /\ Disclosed' /\ Windows' /\ Lag'
    BY <2>1 DEF IInv, StoredFiled, Disclosed, Windows, ClosesLater, Lag, HasEdge
  <2>. QED  BY <2>3, <2>4 DEF IInv
<1>. QED  BY <1>1, <1>2, <1>3, <1>4, <1>5 DEF Next

\* The store and the graph are in type, and agree as far as the graph goes.
THEOREM GraphInvariant == Spec => []IInv
BY InvInit, InvStep, PTL DEF Spec

\* The type invariant of the graph, the store and the disclosures.
THEOREM GraphTypeCorrect == Spec => []TypeOK
<1>1. IInv => TypeOK  BY DEF IInv
<1>. QED  BY <1>1, GraphInvariant, PTL

-----------------------------------------------------------------------------

\* What a merge serves of a holding in force is its disclosed weight alone.
LEMMA MergeServes ==
    ASSUME IInv, edges' = Merge(edges, WindowEdges), UNCHANGED stored,
           NEW f \in Fund, NEW security \in Security, NEW d \in Day,
           Holds(f, security, d) # {}
    PROVE  Served(edges', f, security, d) = Holds(f, security, d)
<1> USE DEF IInv
<1>1. PICK s \in InForce(f, d) : security \in DOMAIN s.holdings  BY DEF Holds
<1>2. s \in stored[f] /\ s.as_of =< d
      /\ \A o \in stored[f] : o.as_of =< d => o.as_of =< s.as_of
  BY <1>1 DEF InForce
<1>3. MaxDay \in Nat /\ OPEN_END = MaxDay + 1  BY GraphAssumption DEF OPEN_END
<1>4. \A o \in stored[f] : o.as_of \in Int  BY DEF TypeOK, Snapshot, Day
<1>5. d \in Int /\ d =< MaxDay  BY <1>3 DEF Day
<1>6. \A o \in stored[f] : o.as_of = s.as_of => o = s
  BY <1>2 DEF StoredFiled, OnePerDay
<1>7. InForce(f, d) = {s}
  <2>1. ASSUME NEW o \in InForce(f, d)  PROVE o = s
    <3>1. o \in stored[f] /\ o.as_of =< s.as_of /\ s.as_of =< o.as_of
      BY <1>2, <2>1 DEF InForce
    <3>. QED  BY <1>4, <1>2, <1>6, <3>1
  <2>. QED  BY <1>1, <2>1
<1>8. Holds(f, security, d) = {s.holdings[security]}  BY <1>1, <1>7 DEF Holds
<1>9. ASSUME NEW e \in edges', e.fund = f, e.security = security, e.as_of = s.as_of
      PROVE  e.weight = s.holdings[security]
  <2>1. PICK o \in stored[f] : Discloses(o, e)  BY <1>9, MergedIsSound
  <2>. QED  BY <1>6, <1>9, <2>1 DEF Discloses
<1>10. ASSUME NEW e \in Live(edges', f, security, d)  PROVE e.as_of =< s.as_of
  <2>1. e \in edges' /\ e.fund = f /\ e.as_of =< d  BY <1>10 DEF Live
  <2>2. PICK o \in stored[f] : o.as_of = e.as_of  BY <2>1, MergedIsSound DEF Discloses
  <2>. QED  BY <1>2, <2>1, <2>2
<1>11. PICK e \in edges' : e.fund = f /\ e.security = security /\ e.as_of = s.as_of
  BY <1>1, <1>2, MergedIsWhole
<1>12. e \in Live(edges', f, security, d)
  <2>1. ClosesLater(e) /\ e.valid_to \in Int  BY <1>3, MergedIsSound
  <2>2. d < e.valid_to
    <3>1. CASE e.valid_to = OPEN_END  BY <1>3, <1>5, <3>1
    <3>2. ASSUME NEW o \in stored[f], o.as_of = e.valid_to  PROVE d < e.valid_to
      <4>1. s.as_of < o.as_of  BY <1>11, <2>1, <3>2 DEF ClosesLater
      <4>2. ~(o.as_of =< d)  BY <1>2, <1>4, <4>1
      <4>. QED  BY <1>4, <1>5, <3>2, <4>2
    <3>. QED  BY <1>11, <2>1, <3>1, <3>2 DEF ClosesLater
  <2>. QED  BY <1>2, <1>11, <2>2 DEF Live
<1> DEFINE live == Live(edges', f, security, d)
           latest == {x \in live : \A o \in live : o.as_of =< x.as_of}
<1>13. \A x \in live : x \in edges' /\ x.fund = f /\ x.security = security  BY DEF Live
<1>14. \A x \in live : x.as_of \in Int
  <2>1. \A x \in edges' : x.as_of \in Int  BY MergedIsSound DEF Day
  <2>. QED  BY <1>13, <2>1
<1>15. e \in live /\ \A x \in live : x.as_of =< s.as_of  BY <1>10, <1>12
<1>16. Served(edges', f, security, d) = {x.weight : x \in latest}  BY DEF Served
<1> HIDE DEF live
<1>17. e \in latest  BY <1>11, <1>15
<1>18. ASSUME NEW x \in latest  PROVE x.weight = s.holdings[security]
  <2>1. x.as_of =< s.as_of /\ s.as_of =< x.as_of  BY <1>11, <1>15
  <2>2. x.as_of = s.as_of  BY <1>2, <1>4, <1>14, <2>1
  <2>. QED  BY <1>9, <1>13, <2>2
<1>. QED  BY <1>8, <1>9, <1>11, <1>16, <1>17, <1>18

\* BuildServesInForce: a build serves every holding in force at its disclosed
\* weight, on every date, whatever the nights before it crashed or skipped.
THEOREM GraphServesInForce == Spec => BuildServesInForce
<1>1. IInv /\ [Next]_vars => [IngestBuild \/ RunBuild =>
        \A f \in Fund, security \in Security, d \in Day :
          Holds(f, security, d) # {} =>
            Served(edges', f, security, d) = Holds(f, security, d)]_vars
  <2>1. IngestBuild \/ RunBuild => edges' = Merge(edges, WindowEdges) /\ UNCHANGED stored
    BY DEF IngestBuild, RunBuild
  <2>. QED  BY <2>1, MergeServes
<1>. QED  BY <1>1, GraphInvariant, PTL DEF Spec, BuildServesInForce

\* A graph built at once serves of a name what is in force, and nothing else.
LEMMA FreshServes ==
    ASSUME IInv, edges = {}, edges' = Merge(edges, WindowEdges), UNCHANGED stored,
           NEW f \in Fund, NEW security \in Security, NEW d \in Day
    PROVE  Served(edges', f, security, d) = Holds(f, security, d)
<1> USE DEF IInv
<1>1. CASE Holds(f, security, d) # {}  BY <1>1, MergeServes
<1>2. CASE Holds(f, security, d) = {}
  <2>1. ASSUME NEW e \in Live(edges', f, security, d)  PROVE FALSE
    <3>1. e \in WindowEdges /\ e.fund = f /\ e.security = security
          /\ e.as_of =< d /\ d < e.valid_to
      BY <2>1 DEF Live, Merge
    <3>2. PICK g \in Fund : \E s \in stored[g] : \E name \in DOMAIN s.holdings : e = Edge(g, s, name)
      BY <3>1, WindowEdgesAre
    <3>3. PICK s \in stored[g] : \E name \in DOMAIN s.holdings : e = Edge(g, s, name)
      BY <3>2
    <3>4. PICK name \in DOMAIN s.holdings : e = Edge(g, s, name)  BY <3>3
    <3>5. /\ g = f /\ security \in DOMAIN s.holdings
          /\ s.as_of =< d /\ d < ValidTo(stored[f], s.as_of)
      BY <3>1, <3>4 DEF Edge
    <3>6. stored[f] \in SUBSET Snapshot  BY DEF TypeOK
    <3>7. \A o \in stored[f] : o.as_of \in Day /\ o.as_of \in Int
      BY <3>6 DEF Snapshot, Day
    <3>8. d \in Int /\ ValidTo(stored[f], s.as_of) \in Int
      BY <3>5, <3>6, <3>7, ValidToCloses DEF Day
    <3>9. ASSUME NEW o \in stored[f], o.as_of =< d  PROVE o.as_of =< s.as_of
      <4>1. o.as_of > s.as_of => ValidTo(stored[f], s.as_of) =< o.as_of
        BY <3>5, <3>6, <3>7, ValidToIsNext
      <4>. QED  BY <3>5, <3>7, <3>8, <3>9, <4>1
    <3>10. s \in InForce(f, d)  BY <3>5, <3>9 DEF InForce
    <3>. QED  BY <1>2, <3>5, <3>10 DEF Holds
  <2>2. Live(edges', f, security, d) = {}  BY <2>1
  <2>. QED  BY <1>2, <2>2 DEF Served
<1>. QED  BY <1>1, <1>2

\* FreshBuildIsExact: a graph built at once from the whole history serves what
\* is in force and nothing else.
THEOREM GraphFreshIsExact == Spec => FreshBuildIsExact
<1>1. IInv /\ [Next]_vars => [edges = {} /\ (IngestBuild \/ RunBuild) =>
        \A f \in Fund, security \in Security, d \in Day :
          Served(edges', f, security, d) = Holds(f, security, d)]_vars
  <2>1. IngestBuild \/ RunBuild => edges' = Merge(edges, WindowEdges) /\ UNCHANGED stored
    BY DEF IngestBuild, RunBuild
  <2>. QED  BY <2>1, FreshServes
<1>. QED  BY <1>1, GraphInvariant, PTL DEF Spec, FreshBuildIsExact

\* A merge adds nothing that is live before the newest edge of the fund.
LEMMA MergeLeavesPast ==
    ASSUME IInv, edges' = Merge(edges, WindowEdges),
           NEW f \in Fund, NEW security \in Security, NEW d \in Day,
           NEW newest \in edges, newest.fund = f, newest.as_of > d
    PROVE  Live(edges', f, security, d) = Live(edges, f, security, d)
<1> USE DEF IInv
<1>1. edges \subseteq edges'  BY DEF Merge
<1>2. ASSUME NEW e \in Live(edges', f, security, d)  PROVE e \in edges
  <2>1. e \in edges' /\ e.fund = f /\ e.as_of =< d  BY <1>2 DEF Live
  <2> SUFFICES ASSUME e \notin edges  PROVE FALSE
    OBVIOUS
  <2>2. e \in WindowEdges /\ \A o \in edges : ~SameDisclosure(e, o)  BY <2>1 DEF Merge
  <2>3. PICK g \in Fund : \E s \in stored[g] : \E name \in DOMAIN s.holdings : e = Edge(g, s, name)
    BY <2>2, WindowEdgesAre
  <2>4. PICK s \in stored[g] : \E name \in DOMAIN s.holdings : e = Edge(g, s, name)
    BY <2>3
  <2>5. PICK name \in DOMAIN s.holdings : e = Edge(g, s, name)  BY <2>4
  <2>6. g = f /\ e.as_of = s.as_of /\ e.security = name  BY <2>1, <2>5 DEF Edge
  <2>7. ~HasEdge(f, s, name)  BY <2>1, <2>2, <2>6 DEF HasEdge, SameDisclosure
  <2>8. newest.as_of < s.as_of  BY <2>6, <2>7, <2>5 DEF Lag
  <2>9. d \in Int /\ newest.as_of \in Int /\ e.as_of \in Int
    BY <2>1, MergedIsSound DEF TypeOK, Day
  <2>. QED  BY <2>1, <2>6, <2>8, <2>9
<1>. QED  BY <1>1, <1>2 DEF Live

\* PastReadsStand: once a later snapshot of a fund is in the graph, what the
\* graph serves of the fund's past never changes.
THEOREM GraphPastStands == Spec => PastReadsStand
<1> DEFINE Stands == \A f \in Fund, d \in Day : (\E e \in edges : e.fund = f /\ e.as_of > d) =>
                       \A security \in Security :
                         Served(edges', f, security, d) = Served(edges, f, security, d)
<1>1. IInv /\ [Next]_vars => [Stands]_vars
  <2> SUFFICES ASSUME IInv, Next  PROVE Stands
    OBVIOUS
  <2>1. CASE edges' = edges  BY <2>1
  <2>2. CASE edges' = Merge(edges, WindowEdges)
    BY <2>2, MergeLeavesPast DEF Served
  <2>. QED
    BY <2>1, <2>2 DEF Next, File, TimePasses, IngestAppend, IngestBuild, Crash, RunBuild
<1>. QED  BY <1>1, GraphInvariant, PTL DEF Spec, PastReadsStand
=============================================================================
