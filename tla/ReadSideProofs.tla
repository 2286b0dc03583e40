---------------------------- MODULE ReadSideProofs ----------------------------
(***************************************************************************)
(* What the read side can rely on, wherever the processes that write for it *)
(* die: the readers of the history and of the trails (Publish), for any     *)
(* funds, builds and nights; and the callers of the pool and the readers of *)
(* the replica (Replica), for any connections, callers and jobs.            *)
(*                                                                         *)
(* Of the history, the order of a run's writes carries the argument: the    *)
(* night before its catalog entry (Entries), and both before the points     *)
(* (Filing). A connection is in the queue or with one call (Lent, Apart),   *)
(* and an interrupt finds a running statement only on behalf of its own     *)
(* call (Spared). None is lost (Kept), and an interrupted statement stays   *)
(* marked (Marked), so that somebody can always move. One job at a time     *)
(* holds the store (Held), so that it closes it as it committed it          *)
(* (Closing); from there on what another job moves disturbs it, and what    *)
(* none moved is one commit throughout (Copied).                            *)
(***************************************************************************)
EXTENDS Publish, Replica, FiniteSetTheorems, WellFoundedInduction, TLAPS

\* A catalog entry is the night's file.
Entries == \A e \in catalog : nights[e.as_of] = e

\* Where a run that catalogs, or files points, has its night.
Filing ==
    /\ pc = "catalog" => nights[dash.as_of] = dash
    /\ pc = "series" => nights[dash.as_of] # Absent

FiniteTrails == \A c \in Code : IsFiniteSet(trails[c])

IInv == TypeOK /\ Entries /\ Filing /\ PointsOfRecordedNights /\ FiniteTrails

-----------------------------------------------------------------------------

\* A night's file is a dashboard of that night.
LEMMA NightFiled ==
    ASSUME TypeOK, NEW n \in Night, nights[n] # Absent
    PROVE  nights[n] \in Dashboard /\ nights[n].as_of = n
BY DEF TypeOK

\* The rebuilt catalog has every night on disk, and nothing else.
LEMMA RebuiltEntries ==
    ASSUME TypeOK, NEW e \in Rebuilt
    PROVE  e \in Dashboard /\ nights[e.as_of] = e
<1>1. PICK n \in Night : nights[n] # Absent /\ e = nights[n]  BY DEF Rebuilt
<1>. QED  BY <1>1, NightFiled

\* What is listed is on disk under its date.
LEMMA ListedIsFiled ==
    ASSUME TypeOK, Entries, NEW e \in ReadIndex
    PROVE  e \in Dashboard /\ e.as_of \in Night /\ nights[e.as_of] = e
<1>1. CASE sound  BY <1>1 DEF ReadIndex, Entries, TypeOK, Dashboard
<1>2. CASE ~sound
  <2>1. e \in Rebuilt  BY <1>2 DEF ReadIndex
  <2>. QED  BY <2>1, RebuiltEntries DEF Dashboard
<1>. QED  BY <1>1, <1>2

\* Listed nights are on disk in a catalog rebuilt in its place.
LEMMA ListedIsRebuilt ==
    ASSUME TypeOK, Entries
    PROVE  ReadIndex \subseteq Rebuilt
<1>. SUFFICES ASSUME NEW e \in ReadIndex  PROVE e \in Rebuilt  OBVIOUS
<1>1. e \in Dashboard /\ e.as_of \in Night /\ nights[e.as_of] = e  BY ListedIsFiled
<1>2. nights[e.as_of] # Absent  BY <1>1, PublishAssumption DEF Dashboard
<1>. QED  BY <1>1, <1>2 DEF Rebuilt

\* A set of nights that is not empty has a last one.
LEMMA LastNight ==
    ASSUME NEW S \in SUBSET Night, S # {}
    PROVE  Max(S) \in S /\ \A n \in S : n =< Max(S)
<1> DEFINE T == {MaxNight - n : n \in S}
<1>1. MaxNight \in Nat /\ S \subseteq 1..MaxNight  BY PublishAssumption DEF Night
<1>2. T \in SUBSET Nat /\ T # {}  BY <1>1
<1> DEFINE R == OpToRel(<, Nat)
<1> HIDE DEF R, T
<1>3. PICK t \in T : \A x \in T : <<x, t>> \notin R
  <2>1. IsWellFoundedOn(R, Nat)  BY NatLessThanWellFounded DEF R
  <2>. QED  BY <1>2, <2>1, WFMin
<1>4. PICK m \in S : t = MaxNight - m  BY DEF T
<1>5. ASSUME NEW n \in S  PROVE m >= n
  <2>1. <<MaxNight - n, t>> \notin R  BY <1>3 DEF T
  <2>2. MaxNight - n \in Nat /\ t \in Nat /\ n \in Nat /\ m \in Nat  BY <1>1, <1>4
  <2>3. ~(MaxNight - n < t)  BY <2>1, <2>2 DEF R, OpToRel
  <2>. QED  BY <1>1, <1>4, <2>2, <2>3
<1>6. \E x \in S : \A y \in S : x >= y  BY <1>5
<1>7. Max(S) \in S /\ \A y \in S : Max(S) >= y  BY <1>6 DEF Max
<1>. QED  BY <1>1, <1>7

\* The newest night is the last entry, and is served.
LEMMA NewestServed ==
    ASSUME TypeOK, Entries
    PROVE  /\ ReadIndex # {} => LatestETag = {Latest} /\ Latest # Absent
           /\ ReadIndex = {} => LatestETag = {} /\ Latest = Absent
<1>1. ASSUME ReadIndex = {}  PROVE LatestETag = {} /\ Latest = Absent
  BY <1>1 DEF LatestETag, Latest
<1>2. ASSUME ReadIndex # {}  PROVE LatestETag = {Latest} /\ Latest # Absent
  <2> DEFINE S == {e.as_of : e \in ReadIndex}
  <2>1. \A e \in ReadIndex : e \in Dashboard /\ e.as_of \in Night /\ nights[e.as_of] = e
    BY ListedIsFiled
  <2>2. S \in SUBSET Night /\ S # {}  BY <1>2, <2>1
  <2>3. Max(S) \in S /\ \A n \in S : n =< Max(S)
    <3> HIDE DEF S
    <3>. QED  BY <2>2, LastNight
  <2>4. PICK e \in ReadIndex : e.as_of = Max(S)  BY <2>3
  <2>5. Latest = nights[Max(S)]  BY <1>2 DEF Latest, Load
  <2>6. Latest = e  BY <2>1, <2>4, <2>5
  <2>7. \A o \in ReadIndex : o.as_of =< e.as_of
    <3>1. \A o \in ReadIndex : o.as_of \in S  OBVIOUS
    <3> HIDE DEF S
    <3>. QED  BY <2>3, <2>4, <3>1
  <2>8. ASSUME NEW o \in LatestETag  PROVE o = e
    <3>1. o \in ReadIndex /\ e.as_of =< o.as_of /\ o.as_of =< e.as_of
      BY <2>7, <2>8 DEF LatestETag
    <3>2. o.as_of \in Nat /\ e.as_of \in Nat  BY <2>1, <3>1, PublishAssumption DEF Night
    <3>3. o.as_of = e.as_of  BY <3>1, <3>2
    <3>. QED  BY <2>1, <3>1, <3>3
  <2>9. e \in LatestETag  BY <2>7 DEF LatestETag
  <2>10. e # Absent  BY <2>1, PublishAssumption DEF Dashboard
  <2>. QED  BY <2>6, <2>8, <2>9, <2>10
<1>. QED  BY <1>1, <1>2

-----------------------------------------------------------------------------

\* The nights on disk only grow: a step leaves them, or adds the run's own.
LEMMA NightsGrow ==
    ASSUME IInv, [Next]_vars
    PROVE  \A n \in Night : nights[n] # Absent => nights'[n] = nights[n]
<1>1. CASE RecordNight
  <2>1. CASE nights[dash.as_of] # Absent  BY <1>1, <2>1 DEF RecordNight
  <2>2. CASE nights[dash.as_of] = Absent
    <3>1. nights' = [nights EXCEPT ![dash.as_of] = dash]  BY <1>1, <2>2 DEF RecordNight
    <3>. QED  BY <2>2, <3>1 DEF IInv, TypeOK
  <2>. QED  BY <2>1, <2>2
<1>2. CASE ~RecordNight
  <2>. nights' = nights
    BY <1>2 DEF Next, vars, files, StartRun, TruncateOutput, WriteOutput,
                CatalogNight, FileFund, Finish, Die, LoseCatalog
  <2>. QED  OBVIOUS
<1>. QED  BY <1>1, <1>2

\* Filing a point leaves a trail finite with one point a night, and changes it
\* only by making it longer.
LEMMA FiledGrows ==
    ASSUME NEW trail \in SUBSET Dashboard, NEW point \in Dashboard,
           IsFiniteSet(trail), OnePerNight(trail)
    PROVE  /\ Filed(trail, point) \in SUBSET Dashboard
           /\ IsFiniteSet(Filed(trail, point)) /\ OnePerNight(Filed(trail, point))
           /\ Filed(trail, point) \subseteq trail \cup {point}
           /\ \/ Filed(trail, point) = trail
              \/ Cardinality(Filed(trail, point)) # Cardinality(trail)
<1>1. CASE \E p \in trail : p.as_of = point.as_of  BY <1>1 DEF Filed
<1>2. CASE ~\E p \in trail : p.as_of = point.as_of
  <2>1. Filed(trail, point) = trail \cup {point}  BY <1>2 DEF Filed
  <2>2. point \notin trail  BY <1>2
  <2>3. /\ IsFiniteSet(trail \cup {point})
        /\ Cardinality(trail \cup {point}) = Cardinality(trail) + 1
    BY <2>2, FS_AddElement
  <2>4. Cardinality(trail) \in Nat  BY FS_CardinalityType
  <2>5. OnePerNight(trail \cup {point})  BY <1>2 DEF OnePerNight
  <2>. QED  BY <2>1, <2>3, <2>4, <2>5
<1>. QED  BY <1>1, <1>2

\* Init establishes the invariant.
LEMMA InitHolds == Init => IInv
<1>. SUFFICES ASSUME Init  PROVE IInv  OBVIOUS
<1>. USE DEF Init
<1>1. TypeOK  BY DEF TypeOK, OnePerNight
<1>2. Entries /\ Filing  BY DEF Entries, Filing
<1>3. PointsOfRecordedNights  BY DEF PointsOfRecordedNights
<1>4. FiniteTrails  BY FS_EmptySet DEF FiniteTrails
<1>. QED  BY <1>1, <1>2, <1>3, <1>4 DEF IInv

\* A step that leaves the nights, the catalog and the trails alone.
LEMMA QuietStep ==
    ASSUME IInv, UNCHANGED <<nights, sound, catalog, trails>>,
           pc' \in {"idle", "output", "outputting", "history"},
           dash' \in Dashboard \cup {Absent}, pc' # "idle" => dash' # Absent,
           codes' \in SUBSET Code, output' \in Dashboard \cup {Absent}
    PROVE  IInv'
<1>1. TypeOK'  BY DEF IInv, TypeOK, OnePerNight
<1>2. Entries' /\ Filing'  BY DEF IInv, Entries, Filing
<1>3. PointsOfRecordedNights' /\ FiniteTrails'
  BY DEF IInv, PointsOfRecordedNights, FiniteTrails, Load
<1>. QED  BY <1>1, <1>2, <1>3 DEF IInv

\* Every step preserves the invariant.
LEMMA StepHolds ==
    ASSUME IInv, [Next]_vars
    PROVE  IInv'
<1>. USE DEF Goto
<1>0. \A n \in Night : nights[n] # Absent => nights'[n] = nights[n]  BY NightsGrow
<1>d. pc # "idle" => dash \in Dashboard /\ dash.as_of \in Night
  BY DEF IInv, TypeOK, Dashboard
<1>n. \A d \in Dashboard : d # Absent /\ d.as_of \in Night
  BY PublishAssumption DEF Dashboard
<1>1. CASE StartRun
  BY <1>1, <1>n, QuietStep DEF StartRun, files, IInv, TypeOK
<1>2. CASE TruncateOutput
  BY <1>2, QuietStep DEF TruncateOutput, IInv, TypeOK
<1>3. CASE WriteOutput
  BY <1>3, QuietStep DEF WriteOutput, IInv, TypeOK
<1>4. CASE RecordNight
  <2>1. CASE nights[dash.as_of] # Absent
    <3>1. UNCHANGED <<nights, dash, codes, output, sound, catalog, trails>> /\ pc' = "series"
      BY <1>4, <2>1 DEF RecordNight
    <3>2. TypeOK'  BY <3>1, <1>4 DEF IInv, TypeOK, OnePerNight, RecordNight
    <3>3. Entries' /\ Filing'  BY <2>1, <3>1 DEF IInv, Entries, Filing
    <3>4. PointsOfRecordedNights' /\ FiniteTrails'
      BY <3>1 DEF IInv, PointsOfRecordedNights, FiniteTrails, Load
    <3>. QED  BY <3>2, <3>3, <3>4 DEF IInv
  <2>2. CASE nights[dash.as_of] = Absent
    <3>1. /\ nights' = [nights EXCEPT ![dash.as_of] = dash] /\ pc = "history" /\ pc' = "catalog"
          /\ UNCHANGED <<dash, codes, output, sound, catalog, trails>>
      BY <1>4, <2>2 DEF RecordNight
    <3>2. dash \in Dashboard /\ dash.as_of \in Night  BY <1>d, <3>1
    <3>3. nights'[dash.as_of] = dash  BY <3>1, <3>2 DEF IInv, TypeOK
    <3>4. nights' \in [Night -> Dashboard \cup {Absent}]
      BY <3>1, <3>2 DEF IInv, TypeOK
    <3>5. \A n \in Night : nights'[n] # Absent => nights'[n].as_of = n
      BY <3>1, <3>2 DEF IInv, TypeOK
    <3>6. TypeOK'  BY <3>1, <3>4, <3>5 DEF IInv, TypeOK, OnePerNight
    <3>7. Entries'
      <4>. SUFFICES ASSUME NEW e \in catalog  PROVE nights'[e.as_of] = e
        BY <3>1 DEF Entries
      <4>1. e \in Dashboard /\ nights[e.as_of] = e  BY DEF IInv, TypeOK, Entries
      <4>. QED  BY <1>0, <1>n, <4>1
    <3>8. Filing'  BY <3>1, <3>3 DEF Filing
    <3>9. PointsOfRecordedNights'
      <4>. SUFFICES ASSUME NEW c \in Code, NEW p \in trails[c]
                    PROVE nights'[p.as_of] # Absent
        BY <3>1 DEF PointsOfRecordedNights, Load
      <4>1. p \in Dashboard /\ nights[p.as_of] # Absent
        BY DEF IInv, TypeOK, PointsOfRecordedNights, Load
      <4>. QED  BY <1>0, <1>n, <4>1
    <3>10. FiniteTrails'  BY <3>1 DEF IInv, FiniteTrails
    <3>. QED  BY <3>6, <3>7, <3>8, <3>9, <3>10 DEF IInv
  <2>. QED  BY <2>1, <2>2
<1>5. CASE CatalogNight
  <2>1. /\ pc = "catalog" /\ pc' = "series" /\ sound' = TRUE /\ catalog' = Cataloged(dash)
        /\ UNCHANGED <<dash, codes, output, nights, trails>>
    BY <1>5 DEF CatalogNight
  <2>2. dash \in Dashboard /\ nights[dash.as_of] = dash  BY <1>d, <2>1 DEF IInv, Filing
  <2>3. \A e \in Cataloged(dash) : e \in Dashboard /\ nights[e.as_of] = e
    <3>1. \A e \in ReadIndex : e \in Dashboard /\ nights[e.as_of] = e
      BY ListedIsFiled DEF IInv
    <3>. QED  BY <2>2, <3>1 DEF Cataloged
  <2>4. TypeOK'  BY <2>1, <2>3 DEF IInv, TypeOK, OnePerNight
  <2>5. Entries'  BY <2>1, <2>3 DEF Entries
  <2>6. Filing'  BY <1>n, <2>1, <2>2 DEF Filing
  <2>7. PointsOfRecordedNights' /\ FiniteTrails'
    BY <2>1 DEF IInv, PointsOfRecordedNights, FiniteTrails, Load
  <2>. QED  BY <2>4, <2>5, <2>6, <2>7 DEF IInv
<1>6. ASSUME NEW c \in Code, FileFund(c)  PROVE IInv'
  <2>1. /\ pc = "series" /\ trails' = [trails EXCEPT ![c] = Filed(@, dash)]
        /\ codes' = codes \ {c} /\ UNCHANGED <<pc, dash, output, nights, sound, catalog>>
    BY <1>6 DEF FileFund
  <2>2. dash \in Dashboard /\ nights[dash.as_of] # Absent  BY <1>d, <2>1 DEF IInv, Filing
  <2>3. /\ trails[c] \in SUBSET Dashboard /\ IsFiniteSet(trails[c]) /\ OnePerNight(trails[c])
        /\ trails'[c] = Filed(trails[c], dash)
        /\ \A d \in Code \ {c} : trails'[d] = trails[d]
    BY <2>1 DEF IInv, TypeOK, FiniteTrails
  <2>4. /\ trails'[c] \in SUBSET Dashboard /\ IsFiniteSet(trails'[c])
        /\ OnePerNight(trails'[c]) /\ trails'[c] \subseteq trails[c] \cup {dash}
    BY <2>2, <2>3, FiledGrows
  <2>5. \A d \in Code : OnePerNight(trails'[d])
    <3>. SUFFICES ASSUME NEW d \in Code  PROVE OnePerNight(trails'[d])  OBVIOUS
    <3>1. CASE d = c  BY <2>4, <3>1
    <3>2. CASE d # c
      <4>1. trails'[d] = trails[d] /\ OnePerNight(trails[d])  BY <2>3, <3>2 DEF IInv, TypeOK
      <4>. QED  BY <4>1 DEF OnePerNight
    <3>. QED  BY <3>1, <3>2
  <2>6. trails' \in [Code -> SUBSET Dashboard]  BY <2>1, <2>3, <2>4 DEF IInv, TypeOK
  <2>7. TypeOK'
    <3>1. \A d \in Code : OnePerNight(trails[d])'  BY <2>5 DEF OnePerNight
    <3>. QED  BY <2>1, <2>6, <3>1 DEF IInv, TypeOK
  <2>8. Entries' /\ Filing'  BY <2>1 DEF IInv, Entries, Filing
  <2>9. PointsOfRecordedNights'
    <3>. SUFFICES ASSUME NEW d \in Code, NEW p \in trails'[d]
                  PROVE nights[p.as_of] # Absent
      BY <2>1 DEF PointsOfRecordedNights, Load
    <3>1. p \in trails[d] \/ p = dash  BY <2>3, <2>4
    <3>. QED  BY <2>2, <3>1 DEF IInv, PointsOfRecordedNights, Load
  <2>10. FiniteTrails'  BY <2>3, <2>4 DEF IInv, FiniteTrails
  <2>. QED  BY <2>7, <2>8, <2>9, <2>10 DEF IInv
<1>7. CASE Finish
  BY <1>7, QuietStep DEF Finish, files, IInv, TypeOK
<1>8. CASE Die
  BY <1>8, QuietStep DEF Die, files, IInv, TypeOK
<1>9. CASE LoseCatalog
  <2>1. /\ sound' = FALSE /\ catalog' = {}
        /\ UNCHANGED <<pc, dash, codes, output, nights, trails>>
    BY <1>9 DEF LoseCatalog
  <2>2. TypeOK'  BY <2>1 DEF IInv, TypeOK, OnePerNight
  <2>3. Entries' /\ Filing'  BY <2>1 DEF IInv, Entries, Filing
  <2>4. PointsOfRecordedNights' /\ FiniteTrails'
    BY <2>1 DEF IInv, PointsOfRecordedNights, FiniteTrails, Load
  <2>. QED  BY <2>2, <2>3, <2>4 DEF IInv
<1>10. CASE UNCHANGED vars
  <2>1. TypeOK'  BY <1>10 DEF IInv, TypeOK, OnePerNight, vars, files
  <2>2. Entries' /\ Filing'  BY <1>10 DEF IInv, Entries, Filing, vars, files
  <2>3. PointsOfRecordedNights' /\ FiniteTrails'
    BY <1>10 DEF IInv, PointsOfRecordedNights, FiniteTrails, Load, vars, files
  <2>. QED  BY <2>1, <2>2, <2>3 DEF IInv
<1>. QED
  BY <1>1, <1>2, <1>3, <1>4, <1>5, <1>6, <1>7, <1>8, <1>9, <1>10 DEF Next

-----------------------------------------------------------------------------
(* The results *)

\* The invariant, of the writes of history.record, series.record and run.
THEOREM PublishInvariant == Spec => []IInv
<1>1. IInv /\ [Next]_vars => IInv'  BY StepHolds
<1>. QED  BY <1>1, InitHolds, PTL DEF Spec

\* The history and the trails are in type, one entry and one point a night.
THEOREM PublishTypeCorrect == Spec => []TypeOK
<1>1. IInv => TypeOK  BY DEF IInv
<1>. QED  BY <1>1, PublishInvariant, PTL

\* Every listed night can be opened and is what the list says (serve.py).
THEOREM PublishListedNightsLoad == Spec => []ListedNightsLoad
<1>1. IInv => ListedNightsLoad
  <2>. SUFFICES ASSUME IInv  PROVE ListedNightsLoad  OBVIOUS
  <2>1. \A e \in ReadIndex : Load(e.as_of) = e  BY ListedIsFiled DEF IInv, Load
  <2>2. ReadIndex # {} => Latest # Absent  BY NewestServed DEF IInv
  <2>. QED  BY <2>1, <2>2 DEF ListedNightsLoad
<1>. QED  BY <1>1, PublishInvariant, PTL

\* Every point of a trail is of a recorded night (run files the series last).
THEOREM PublishPointsRecorded == Spec => []PointsOfRecordedNights
<1>1. IInv => PointsOfRecordedNights  BY DEF IInv
<1>. QED  BY <1>1, PublishInvariant, PTL

\* The first recording of a night stands (history.record).
THEOREM PublishNightStands == Spec => NightStands
<1>1. IInv /\ [Next]_vars
        => [\A n \in Night : Load(n) # Absent => Load(n)' = Load(n)]_vars
  BY NightsGrow DEF Load
<1>. QED  BY <1>1, PublishInvariant, PTL DEF Spec, NightStands

\* A listed night stays listed (_catalog_night and its rebuild).
THEOREM PublishListingGrows == Spec => ListingGrows
<1>1. IInv /\ [Next]_vars => ReadIndex \subseteq ReadIndex'
  <2>. SUFFICES ASSUME IInv, [Next]_vars  PROVE ReadIndex \subseteq ReadIndex'  OBVIOUS
  <2>0. Rebuilt \subseteq Rebuilt'
    <3>. SUFFICES ASSUME NEW n \in Night, nights[n] # Absent
                  PROVE nights[n] \in Rebuilt'
      BY DEF Rebuilt
    <3>1. nights'[n] = nights[n]  BY NightsGrow
    <3>. QED  BY <3>1 DEF Rebuilt
  <2>1. CASE CatalogNight
    <3>1. ReadIndex' = Cataloged(dash)  BY <2>1 DEF CatalogNight, ReadIndex
    <3>. QED  BY <3>1 DEF Cataloged
  <2>2. CASE LoseCatalog
    <3>1. ReadIndex' = Rebuilt'  BY <2>2 DEF LoseCatalog, ReadIndex
    <3>2. ReadIndex \subseteq Rebuilt  BY ListedIsRebuilt DEF IInv
    <3>. QED  BY <2>0, <3>1, <3>2
  <2>3. CASE ~CatalogNight /\ ~LoseCatalog
    <3>1. UNCHANGED <<sound, catalog>>
      BY <2>3 DEF Next, vars, files, StartRun, TruncateOutput, WriteOutput, RecordNight,
                  FileFund, Finish, Die
    <3>. QED  BY <2>0, <3>1 DEF ReadIndex
  <2>. QED  BY <2>1, <2>2, <2>3
<1>2. IInv /\ [Next]_vars => [ReadIndex \subseteq ReadIndex']_vars  BY <1>1
<1>. QED  BY <1>2, PublishInvariant, PTL DEF Spec, ListingGrows

\* An unchanged validator means unchanged contents (serve.py's strong ETags).
THEOREM PublishRevalidation == Spec => RevalidationIsSound
<1>1. IInv /\ [Next]_vars
        => \A c \in Code : SeriesETag(c)' = SeriesETag(c) => trails'[c] = trails[c]
  <2>. SUFFICES ASSUME IInv, [Next]_vars, NEW c \in Code, SeriesETag(c)' = SeriesETag(c)
                PROVE  trails'[c] = trails[c]
    OBVIOUS
  <2>1. Cardinality(trails'[c]) = Cardinality(trails[c])  BY DEF SeriesETag
  <2>2. ASSUME NEW d \in Code, FileFund(d)  PROVE trails'[c] = trails[c]
    <3>1. CASE c # d  BY <2>2, <3>1 DEF FileFund, IInv, TypeOK
    <3>2. CASE c = d
      <4>1. trails'[c] = Filed(trails[c], dash) /\ dash \in Dashboard
        BY <2>2, <3>2 DEF FileFund, IInv, TypeOK
      <4>2. /\ trails[c] \in SUBSET Dashboard /\ IsFiniteSet(trails[c])
            /\ OnePerNight(trails[c])
        BY DEF IInv, TypeOK, FiniteTrails
      <4>. QED  BY <2>1, <4>1, <4>2, FiledGrows
    <3>. QED  BY <3>1, <3>2
  <2>3. CASE ~\E d \in Code : FileFund(d)
    BY <2>3 DEF Next, vars, files, StartRun, TruncateOutput, WriteOutput, RecordNight,
                CatalogNight, Finish, Die, LoseCatalog
  <2>. QED  BY <2>2, <2>3
<1>2. IInv /\ IInv' => (LatestETag' = LatestETag => Latest' = Latest)
  <2>. SUFFICES ASSUME IInv, IInv', LatestETag' = LatestETag  PROVE Latest' = Latest
    OBVIOUS
  <2>1. /\ ReadIndex # {} => LatestETag = {Latest}
        /\ ReadIndex = {} => LatestETag = {} /\ Latest = Absent
    BY NewestServed DEF IInv
  <2>2. /\ (ReadIndex # {} => LatestETag = {Latest})'
        /\ (ReadIndex = {} => LatestETag = {} /\ Latest = Absent)'
    <3>1. (TypeOK /\ Entries)'  BY DEF IInv
    <3>. QED  BY <3>1, NewestServed, PTL
  <2>. QED  BY <2>1, <2>2
<1>3. IInv /\ IInv' /\ [Next]_vars
        => [/\ \A c \in Code : SeriesETag(c)' = SeriesETag(c) => trails'[c] = trails[c]
            /\ LatestETag' = LatestETag => Latest' = Latest]_vars
  BY <1>1, <1>2
<1>. QED  BY <1>3, PublishInvariant, PTL DEF Spec, RevalidationIsSound

-----------------------------------------------------------------------------
(* The pool of connections, and the replica it reads *)

Calling == {"joining", "expired", "rejoining"}

PoolTypes ==
    /\ pool \in SUBSET Con /\ flagged \in SUBSET Con
    /\ call \in [Caller -> {"idle", "waiting"} \cup Calling]
    /\ con \in [Caller -> Con \cup {NoCon}]
    /\ worker \in [Caller -> {"none", "starting", "running", "done"}]

\* A call past its wait holds a connection that is not in the queue, and has a thread.
Lent == \A k \in Caller :
    IF call[k] \in Calling THEN con[k] \in Con \ pool /\ worker[k] # "none"
                           ELSE con[k] = NoCon /\ worker[k] = "none"

\* No two calls hold one connection.
Apart == \A k, o \in Caller : con[k] # NoCon /\ con[k] = con[o] => k = o

\* The mark of an interrupt on a running statement is that of its own call.
Spared == \A k \in Caller :
    worker[k] = "running" /\ con[k] \in flagged => call[k] = "rejoining"

\* Without a pool there is no call.
Closed == seen = Empty => \A k \in Caller : call[k] = "idle"

PInv == PoolTypes /\ Lent /\ Apart /\ Spared /\ Closed

\* No connection is out at first.
LEMMA PoolInit == ReplicaInit => PInv
BY ReplicaAssumption
   DEF ReplicaInit, PInv, PoolTypes, Lent, Apart, Spared, Closed, Calling

\* Every step of a caller keeps the connections apart.
LEMMA CallStep ==
    ASSUME PInv, NEW k \in Caller,
           \/ Query(k) \/ Get(k) \/ Execute(k) \/ EndStatement(k)
           \/ Expire(k) \/ Interrupt(k) \/ Put(k)
    PROVE  PInv'
<1>. PoolTypes /\ Lent /\ Apart /\ Spared /\ Closed  BY DEF PInv
<1>. USE DEF Calling, PoolTypes
<1>1. CASE Query(k)
  <2>1. PoolTypes' /\ Lent' /\ Closed'  BY <1>1 DEF Query, Lent, Closed
  <2>2. Apart' /\ Spared'  BY <1>1 DEF Query, Apart, Spared
  <2>. QED  BY <2>1, <2>2 DEF PInv
<1>2. CASE Get(k)
  <2>1. PICK c \in pool : pool' = pool \ {c} /\ con' = [con EXCEPT ![k] = c]
    BY <1>2 DEF Get
  <2>2. PoolTypes' /\ Closed'  BY <1>2, <2>1 DEF Get, Closed
  <2>3. Lent'  BY <1>2, <2>1 DEF Get, Lent
  <2>4. Apart'  BY <1>2, <2>1, ReplicaAssumption DEF Get, Lent, Apart
  <2>5. Spared'  BY <1>2, <2>1 DEF Get, Spared
  <2>. QED  BY <2>2, <2>3, <2>4, <2>5 DEF PInv
<1>3. CASE Execute(k)
  <2>1. PoolTypes' /\ Lent' /\ Closed'  BY <1>3 DEF Execute, Lent, Closed
  <2>2. Apart' /\ Spared'  BY <1>3 DEF Execute, Apart, Spared
  <2>. QED  BY <2>1, <2>2 DEF PInv
<1>4. CASE EndStatement(k)
  <2>1. PoolTypes' /\ Lent' /\ Closed'  BY <1>4 DEF EndStatement, Lent, Closed
  <2>2. Apart' /\ Spared'  BY <1>4 DEF EndStatement, Apart, Spared
  <2>. QED  BY <2>1, <2>2 DEF PInv
<1>5. CASE Expire(k)
  <2>1. PoolTypes' /\ Lent' /\ Closed'  BY <1>5 DEF Expire, Lent, Closed
  <2>2. Apart' /\ Spared'  BY <1>5 DEF Expire, Apart, Spared
  <2>. QED  BY <2>1, <2>2 DEF PInv
<1>6. CASE Interrupt(k)
  <2>1. PoolTypes' /\ Lent' /\ Closed'
    BY <1>6 DEF Interrupt, Lent, Closed
  <2>2. Apart'  BY <1>6 DEF Interrupt, Apart
  <2>3. Spared'  BY <1>6, ReplicaAssumption DEF Interrupt, Lent, Apart, Spared
  <2>. QED  BY <2>1, <2>2, <2>3 DEF PInv
<1>7. CASE Put(k)
  <2>1. PoolTypes' /\ Closed'  BY <1>7 DEF Put, Lent, Closed
  <2>2. Lent'  BY <1>7, ReplicaAssumption DEF Put, Lent, Apart
  <2>3. Apart' /\ Spared'  BY <1>7 DEF Put, Apart, Spared
  <2>. QED  BY <2>1, <2>2, <2>3 DEF PInv
<1>. QED  BY <1>1, <1>2, <1>3, <1>4, <1>5, <1>6, <1>7

\* So does every step of the pool and of the jobs.
LEMMA PoolStep == PInv /\ [ReplicaNext]_replicaVars => PInv'
<1>. SUFFICES ASSUME PInv, [ReplicaNext]_replicaVars  PROVE PInv'  OBVIOUS
<1>1. CASE UNCHANGED querying
  BY <1>1 DEF querying, PInv, PoolTypes, Lent, Apart, Spared, Closed
<1>2. CASE OpenPool
  <2>1. PoolTypes' /\ Closed'  BY <1>2 DEF OpenPool, PInv, PoolTypes, Closed
  <2>2. Lent'  BY <1>2 DEF OpenPool, PInv, Closed, Lent, Calling
  <2>3. Apart' /\ Spared'  BY <1>2 DEF OpenPool, PInv, Apart, Spared
  <2>. QED  BY <2>1, <2>2, <2>3 DEF PInv
<1>3. CASE ClosePool
  BY <1>3 DEF ClosePool, PInv, PoolTypes, Lent, Apart, Spared, Closed, Calling
<1>4. CASE \E k \in Caller :
             \/ Query(k) \/ Get(k) \/ Execute(k) \/ EndStatement(k)
             \/ Expire(k) \/ Interrupt(k) \/ Put(k)
  BY <1>4, CallStep
<1>5. CASE \E j \in Job :
             \/ OpenStore(j) \/ Commit(j) \/ Checkpoint(j) \/ CloseStore(j)
             \/ CopyFile(j) \/ CopyRest(j) \/ Rename(j) \/ JobDies(j)
  <2>1. UNCHANGED querying
    BY <1>5
       DEF OpenStore, Commit, Checkpoint, CloseStore, CopyFile,
           CopyRest, Rename, JobDies
  <2>. QED  BY <2>1, <1>1
<1>. QED  BY <1>1, <1>2, <1>3, <1>4, <1>5 DEF ReplicaNext, replicaVars

\* A connection is never lent twice or returned while a statement runs on it, and no
\* statement is cut short but by its own call's deadline.
THEOREM InterruptsAreOwn == ReplicaSpec => []InterruptsHitTheirOwn
<1>1. PInv => InterruptsHitTheirOwn
  <2>. SUFFICES ASSUME PInv  PROVE InterruptsHitTheirOwn  OBVIOUS
  <2>1. ASSUME NEW k \in Caller, worker[k] \in {"starting", "running"}
        PROVE  con[k] \in Con \ pool /\ \A o \in Caller \ {k} : con[o] # con[k]
    BY <2>1, ReplicaAssumption DEF PInv, Lent, Apart
  <2>. QED  BY <2>1 DEF PInv, Spared, InterruptsHitTheirOwn
<1>. QED  BY <1>1, PoolInit, PoolStep, PTL DEF ReplicaSpec

-----------------------------------------------------------------------------
(* Nobody is stuck *)

\* What a caller's next step asks for: Get, Execute, EndStatement, Expire, Interrupt, Put.
CanMove(k) ==
    \/ call[k] = "waiting" /\ pool # {}
    \/ worker[k] = "starting"
    \/ worker[k] = "running" /\ (~heavy[k] \/ con[k] \in flagged)
    \/ call[k] = "joining" /\ worker[k] = "running"
    \/ call[k] = "expired"
    \/ call[k] \in {"joining", "rejoining"} /\ worker[k] = "done"

\* Somebody can move as long as anybody waits: no connection is lost to a deadline, and
\* no statement that was interrupted runs on.
NobodyIsStuck == (\E k \in Caller : call[k] # "idle") => \E k \in Caller : CanMove(k)

\* The pool has every connection that no call holds.
Kept == seen # Empty => \A c \in Con : c \in pool \/ \E k \in Caller : con[k] = c

\* A deadline passes on a statement that has started; interrupted, it is marked until it
\* ends.
Marked == \A k \in Caller :
    /\ call[k] \in {"expired", "rejoining"} => worker[k] # "starting"
    /\ call[k] = "rejoining" /\ worker[k] = "running" => con[k] \in flagged

KInv == PInv /\ Kept /\ Marked

\* There is no pool at first.
LEMMA KeptInit == ReplicaInit => Kept /\ Marked
BY DEF ReplicaInit, Kept, Marked

\* A call takes its connection from the pool and leaves it there.
LEMMA KeptCall ==
    ASSUME PInv, Kept, Marked, NEW k \in Caller,
           \/ Query(k) \/ Get(k) \/ Execute(k) \/ EndStatement(k)
           \/ Expire(k) \/ Interrupt(k) \/ Put(k)
    PROVE  Kept' /\ Marked'
<1>. PoolTypes /\ Lent /\ Apart /\ Closed  BY DEF PInv
<1>. USE DEF PoolTypes, Calling
<1>1. CASE Query(k)
  <2>1. Kept'  BY <1>1 DEF Query, Kept
  <2>2. Marked'  BY <1>1 DEF Query, Marked
  <2>. QED  BY <2>1, <2>2
<1>2. CASE Get(k)
  <2>1. PICK c \in pool : pool' = pool \ {c} /\ con' = [con EXCEPT ![k] = c]
    BY <1>2 DEF Get
  <2>2. con[k] = NoCon  BY <1>2 DEF Get, Lent
  <2>3. Kept'
    <3>. SUFFICES ASSUME seen # Empty, NEW d \in Con
         PROVE  d \in pool' \/ \E o \in Caller : con'[o] = d
      BY <1>2 DEF Get, Kept
    <3>1. d \in pool \/ \E o \in Caller : con[o] = d  BY DEF Kept
    <3>. QED  BY <2>1, <2>2, <3>1, ReplicaAssumption
  <2>4. Marked'  BY <1>2, <2>1 DEF Get, Marked
  <2>. QED  BY <2>3, <2>4
<1>3. CASE Execute(k)
  <2>1. Kept'  BY <1>3 DEF Execute, Kept
  <2>2. Marked'  BY <1>3, ReplicaAssumption DEF Execute, Marked, Lent, Apart
  <2>. QED  BY <2>1, <2>2
<1>4. CASE EndStatement(k)
  <2>1. Kept'  BY <1>4 DEF EndStatement, Kept
  <2>2. Marked'  BY <1>4, ReplicaAssumption DEF EndStatement, Marked, Lent, Apart
  <2>. QED  BY <2>1, <2>2
<1>5. CASE Expire(k)
  <2>1. Kept'  BY <1>5 DEF Expire, Kept
  <2>2. Marked'  BY <1>5 DEF Expire, Marked
  <2>. QED  BY <2>1, <2>2
<1>6. CASE Interrupt(k)
  <2>1. Kept'  BY <1>6 DEF Interrupt, Kept
  <2>2. Marked'  BY <1>6 DEF Interrupt, Marked
  <2>. QED  BY <2>1, <2>2
<1>7. CASE Put(k)
  <2>1. Kept'
    <3>. SUFFICES ASSUME seen # Empty, NEW d \in Con
         PROVE  d \in pool' \/ \E o \in Caller : con'[o] = d
      BY <1>7 DEF Put, Kept
    <3>1. d \in pool \/ \E o \in Caller : con[o] = d  BY DEF Kept
    <3>2. CASE d \in pool \/ d = con[k]  BY <1>7, <3>2 DEF Put
    <3>3. CASE d \notin pool /\ d # con[k]
      <4>1. PICK o \in Caller : con[o] = d /\ o # k  BY <3>1, <3>3
      <4>2. con'[o] = d  BY <1>7, <4>1 DEF Put
      <4>. QED  BY <4>2
    <3>. QED  BY <3>2, <3>3
  <2>2. Marked'  BY <1>7 DEF Put, Marked
  <2>. QED  BY <2>1, <2>2
<1>. QED  BY <1>1, <1>2, <1>3, <1>4, <1>5, <1>6, <1>7

\* Nor does any other step lose one or its mark.
LEMMA KeptStep == KInv /\ [ReplicaNext]_replicaVars => KInv'
<1>. SUFFICES ASSUME KInv, [ReplicaNext]_replicaVars  PROVE Kept' /\ Marked'
  BY PoolStep DEF KInv
<1>1. CASE UNCHANGED querying
  BY <1>1 DEF querying, KInv, Kept, Marked
<1>2. CASE OpenPool
  BY <1>2 DEF OpenPool, KInv, PInv, Kept, Marked
<1>3. CASE ClosePool
  BY <1>3 DEF ClosePool, KInv, Kept, Marked
<1>4. CASE \E k \in Caller :
             \/ Query(k) \/ Get(k) \/ Execute(k) \/ EndStatement(k)
             \/ Expire(k) \/ Interrupt(k) \/ Put(k)
  BY <1>4, KeptCall DEF KInv
<1>5. CASE \E j \in Job :
             \/ OpenStore(j) \/ Commit(j) \/ Checkpoint(j) \/ CloseStore(j)
             \/ CopyFile(j) \/ CopyRest(j) \/ Rename(j) \/ JobDies(j)
  <2>1. UNCHANGED querying
    BY <1>5
       DEF OpenStore, Commit, Checkpoint, CloseStore, CopyFile,
           CopyRest, Rename, JobDies
  <2>. QED  BY <2>1, <1>1
<1>. QED  BY <1>1, <1>2, <1>3, <1>4, <1>5 DEF ReplicaNext, replicaVars

\* A call past its wait can move, for its thread or its deadline does.
LEMMA CallingMoves ==
    ASSUME KInv, NEW k \in Caller, call[k] \in Calling
    PROVE  CanMove(k)
<1>1. worker[k] \in {"starting", "running", "done"}
  BY DEF KInv, PInv, PoolTypes, Lent
<1>. QED  BY <1>1 DEF KInv, Marked, CanMove, Calling

\* As long as a call waits or is under way some call has a step to take, whatever mix of
\* heavy statements, deadlines and interrupts the pool has seen (query's finally,
\* _run_bounded's interrupt): the safety half of EveryCallReturns.
THEOREM NoCallIsStuck == ReplicaSpec => []NobodyIsStuck
<1>1. KInv => NobodyIsStuck
  <2>. SUFFICES ASSUME KInv, NEW k \in Caller, call[k] # "idle"
       PROVE  \E o \in Caller : CanMove(o)
    BY DEF NobodyIsStuck
  <2>1. CASE call[k] \in Calling  BY <2>1, CallingMoves
  <2>2. CASE call[k] = "waiting" /\ pool # {}  BY <2>2 DEF CanMove
  <2>3. CASE call[k] = "waiting" /\ pool = {}
    <3>1. seen # Empty  BY <2>3 DEF KInv, PInv, Closed
    <3>2. PICK c \in Con : TRUE  BY ReplicaAssumption
    <3>3. PICK o \in Caller : con[o] = c  BY <2>3, <3>1 DEF KInv, Kept
    <3>4. call[o] \in Calling  BY <3>3, ReplicaAssumption DEF KInv, PInv, Lent
    <3>. QED  BY <3>4, CallingMoves
  <2>4. call[k] \in {"waiting"} \cup Calling  BY DEF KInv, PInv, PoolTypes
  <2>. QED  BY <2>1, <2>2, <2>3, <2>4
<1>2. ReplicaInit => KInv  BY PoolInit, KeptInit DEF KInv
<1>. QED  BY <1>1, <1>2, KeptStep, PTL DEF ReplicaSpec

-----------------------------------------------------------------------------
(* The replica, under jobs that start whenever the store is free *)

Copying == {"closed", "copying", "copied"}

FileTypes ==
    /\ committed \in Nat /\ disturbed \subseteq Job
    /\ store \in [Block -> Nat] /\ staging \in [Block -> Nat]
    /\ job \in [Job -> {"idle", "open", "committed", "closing"} \cup Copying]

\* Who is past OpenStore and not past CloseStore holds the store.
Held == \A j \in Job : job[j] \in {"open", "committed", "closing"} => holder = j

\* The first block is written back, and there is a commit to write.
Closing == \A j \in Job :
    /\ job[j] \in {"committed", "closing"} => committed >= 1
    /\ job[j] = "closing" => store[1] = committed

\* How far the copy of an undisturbed job has come: store and staging are of one commit.
Copied == \A j \in Job \ disturbed :
    /\ job[j] \in {"closed", "copying"} => store[1] \in 1..committed /\ store[2] = store[1]
    /\ job[j] = "copying" => staging[1] = store[1]
    /\ job[j] = "copied" => staging[1] \in 1..committed /\ staging[2] = staging[1]

FInv == FileTypes /\ Held /\ Closing /\ Copied

\* No job has started at first.
LEMMA FileInit == ReplicaInit => FInv
BY ReplicaAssumption
   DEF ReplicaInit, FInv, FileTypes, Held, Closing, Copied, Copying, Empty, Block

\* A job that another's step leaves undisturbed has its files as they were.
LEMMA OthersStand ==
    ASSUME FInv, NEW j \in Job, Disturbs(j), NEW o \in Job \ {j}, o \notin disturbed',
           job'[o] = job[o], job[o] \in Copying
    PROVE  store' = store /\ staging' = staging /\ o \notin disturbed
BY DEF Disturbs, Copying

\* The step of a job leaves the others where they are.
LEMMA OthersStay ==
    ASSUME FInv, NEW j \in Job, NEW o \in Job \ {j},
           \/ OpenStore(j) \/ Commit(j) \/ Checkpoint(j) \/ CloseStore(j)
           \/ CopyFile(j) \/ CopyRest(j) \/ Rename(j) \/ JobDies(j)
    PROVE  job'[o] = job[o]
BY DEF OpenStore, Commit, Checkpoint, CloseStore, CopyFile, CopyRest, Rename, JobDies,
       Step, FInv, FileTypes

\* Every step of a job keeps the files' types, and the counter of commits.
LEMMA JobTypes ==
    ASSUME FInv, NEW j \in Job, Disturbs(j),
           \/ OpenStore(j) \/ Commit(j) \/ Checkpoint(j) \/ CloseStore(j)
           \/ CopyFile(j) \/ CopyRest(j) \/ Rename(j) \/ JobDies(j)
    PROVE  FileTypes' /\ committed =< committed'
<1>. USE DEF FInv, FileTypes, Block, Copying, Step
<1>0. disturbed' \subseteq Job  BY DEF Disturbs
<1>1. CASE OpenStore(j)  BY <1>0, <1>1 DEF OpenStore
<1>2. CASE Commit(j)  BY <1>0, <1>2 DEF Commit
<1>3. CASE Checkpoint(j)  BY <1>0, <1>3 DEF Checkpoint
<1>4. CASE CloseStore(j)  BY <1>0, <1>4 DEF CloseStore
<1>5. CASE CopyFile(j)  BY <1>0, <1>5 DEF CopyFile, Empty
<1>6. CASE CopyRest(j)  BY <1>0, <1>6 DEF CopyRest
<1>7. CASE Rename(j)  BY <1>0, <1>7 DEF Rename, Empty
<1>8. CASE JobDies(j)  BY <1>0, <1>8 DEF JobDies
<1>. QED  BY <1>1, <1>2, <1>3, <1>4, <1>5, <1>6, <1>7, <1>8

\* Every step of a job, its death included, keeps the store with its holder.
LEMMA JobHolds ==
    ASSUME FInv, NEW j \in Job, Disturbs(j),
           \/ OpenStore(j) \/ Commit(j) \/ Checkpoint(j) \/ CloseStore(j)
           \/ CopyFile(j) \/ CopyRest(j) \/ Rename(j) \/ JobDies(j)
    PROVE  Held' /\ Closing'
<1>. FileTypes /\ Held /\ Closing  BY DEF FInv
<1>. USE ReplicaAssumption DEF FileTypes, Block, Copying, Step
<1>1. CASE OpenStore(j)  BY <1>1 DEF OpenStore, Held, Closing
<1>2. CASE Commit(j)  BY <1>2 DEF Commit, Held, Closing
<1>3. CASE Checkpoint(j)  BY <1>3 DEF Checkpoint, Held, Closing
<1>4. CASE CloseStore(j)  BY <1>4 DEF CloseStore, Held, Closing
<1>5. CASE CopyFile(j)  BY <1>5 DEF CopyFile, Held, Closing
<1>6. CASE CopyRest(j)  BY <1>6 DEF CopyRest, Held, Closing
<1>7. CASE Rename(j)  BY <1>7 DEF Rename, Held, Closing
<1>8. CASE JobDies(j)  BY <1>8 DEF JobDies, Held, Closing
<1>. QED  BY <1>1, <1>2, <1>3, <1>4, <1>5, <1>6, <1>7, <1>8

\* What the job itself has closed and copied is of one commit, if no other job moved it.
LEMMA JobCopies ==
    ASSUME FInv, NEW j \in Job, Disturbs(j), j \notin disturbed', FileTypes',
           \/ OpenStore(j) \/ Commit(j) \/ Checkpoint(j) \/ CloseStore(j)
           \/ CopyFile(j) \/ CopyRest(j) \/ Rename(j) \/ JobDies(j)
    PROVE  /\ job'[j] \in {"closed", "copying"}
                => store'[1] \in 1..committed' /\ store'[2] = store'[1]
           /\ job'[j] = "copying" => staging'[1] = store'[1]
           /\ job'[j] = "copied" => staging'[1] \in 1..committed' /\ staging'[2] = staging'[1]
<1>. FileTypes /\ Held /\ Closing /\ Copied  BY DEF FInv
<1>0. job[j] \in Copying => j \notin disturbed  BY DEF Disturbs, Copying
<1>. USE DEF FileTypes, Block, Copying, Step
<1>1. CASE OpenStore(j)  BY <1>1 DEF OpenStore
<1>2. CASE Commit(j)  BY <1>2 DEF Commit
<1>3. CASE Checkpoint(j)  BY <1>3 DEF Checkpoint
<1>4. CASE CloseStore(j)  BY <1>4 DEF CloseStore, Closing
<1>5. CASE CopyFile(j)  BY <1>0, <1>5 DEF CopyFile, Copied, Empty
<1>6. CASE CopyRest(j)  BY <1>0, <1>6 DEF CopyRest, Copied
<1>7. CASE Rename(j)  BY <1>7 DEF Rename
<1>8. CASE JobDies(j)  BY <1>8 DEF JobDies
<1>. QED  BY <1>1, <1>2, <1>3, <1>4, <1>5, <1>6, <1>7, <1>8

\* Every step of a job keeps what undisturbed jobs have copied.
LEMMA JobStep ==
    ASSUME FInv, NEW j \in Job, Disturbs(j),
           \/ OpenStore(j) \/ Commit(j) \/ Checkpoint(j) \/ CloseStore(j)
           \/ CopyFile(j) \/ CopyRest(j) \/ Rename(j) \/ JobDies(j)
    PROVE  FInv'
<1>1. FileTypes' /\ committed =< committed'  BY JobTypes
<1>2. Held' /\ Closing'  BY JobHolds
<1>3. ASSUME NEW o \in Job \ disturbed'
      PROVE  /\ job'[o] \in {"closed", "copying"}
                  => store'[1] \in 1..committed' /\ store'[2] = store'[1]
             /\ job'[o] = "copying" => staging'[1] = store'[1]
             /\ job'[o] = "copied"
                  => staging'[1] \in 1..committed' /\ staging'[2] = staging'[1]
  <2>1. CASE o = j  BY <1>1, <2>1, JobCopies
  <2>2. CASE o # j /\ job[o] \in Copying
    <3>1. job'[o] = job[o]  BY <2>2, OthersStay
    <3>2. store' = store /\ staging' = staging /\ o \notin disturbed
      BY <2>2, <3>1, <1>3, OthersStand
    <3>3. committed \in Nat /\ committed' \in Nat /\ committed =< committed'
      BY <1>1 DEF FInv, FileTypes
    <3>4. \A c \in 1..committed : c \in 1..committed'  BY <3>3
    <3>. QED  BY <3>1, <3>2, <3>4 DEF FInv, Copied
  <2>3. CASE o # j /\ job[o] \notin Copying
    BY <2>3, OthersStay DEF Copying
  <2>. QED  BY <2>1, <2>2, <2>3
<1>. QED  BY <1>1, <1>2, <1>3 DEF FInv, Copied

\* A reader touches no file.
LEMMA ReadersLeaveFiles ==
    ASSUME FInv, UNCHANGED publishing
    PROVE  FInv'
BY DEF publishing, FInv, FileTypes, Held, Closing, Copied

\* What a step renames into place is of one commit, or its job was disturbed.
LEMMA FileStep ==
    ASSUME FInv, [ReplicaNext]_replicaVars
    PROVE  /\ FInv'
           /\ replica' # replica =>
                \E j \in Job : job'[j] # job[j] /\ (j \in disturbed \/ IsACommit(replica'))
<1>1. CASE \E j \in Job :
             /\ \/ OpenStore(j) \/ Commit(j) \/ Checkpoint(j) \/ CloseStore(j)
                \/ CopyFile(j) \/ CopyRest(j) \/ Rename(j) \/ JobDies(j)
             /\ Disturbs(j)
  <2>1. PICK j \in Job :
             /\ \/ OpenStore(j) \/ Commit(j) \/ Checkpoint(j) \/ CloseStore(j)
                \/ CopyFile(j) \/ CopyRest(j) \/ Rename(j) \/ JobDies(j)
             /\ Disturbs(j)
    BY <1>1
  <2>2. FInv'  BY <2>1, JobStep
  <2>3. CASE Rename(j)
    <3>1. job[j] = "copied" /\ job'[j] = "idle" /\ replica' = staging /\ committed' = committed
      BY <2>3 DEF Rename, Step, FInv, FileTypes
    <3>2. ASSUME j \notin disturbed  PROVE IsACommit(replica')
      <4>1. staging[1] \in 1..committed /\ staging[2] = staging[1]
        BY <3>1, <3>2 DEF FInv, Copied
      <4>2. staging = [b \in Block |-> staging[1]]
        BY <4>1 DEF FInv, FileTypes, Block
      <4>. QED  BY <3>1, <4>1, <4>2 DEF IsACommit
    <3>. QED  BY <2>2, <3>1, <3>2
  <2>4. CASE ~Rename(j)
    <3>1. replica' = replica
      BY <2>1, <2>4
         DEF OpenStore, Commit, Checkpoint, CloseStore, CopyFile,
             CopyRest, JobDies
    <3>. QED  BY <2>2, <3>1
  <2>. QED  BY <2>3, <2>4
<1>2. CASE UNCHANGED publishing
  BY <1>2, ReadersLeaveFiles DEF publishing
<1>. QED
  BY <1>1, <1>2
     DEF ReplicaNext, replicaVars, OpenPool, ClosePool, Query, Get,
         Execute, EndStatement, Expire, Interrupt, Put

\* Whatever jobs overlap and die: what is put in the replica's place is the store as a
\* commit left it, unless another job moved the store or the staging file meanwhile.
THEOREM ReplicaWhole == ReplicaSpec => UndisturbedCopyIsACommit
<1>1. FInv /\ [ReplicaNext]_replicaVars => FInv'  BY FileStep
<1>2. FInv /\ [ReplicaNext]_replicaVars
        => [replica' # replica =>
              \E j \in Job : job'[j] # job[j] /\ (j \in disturbed \/ IsACommit(replica'))]_replicaVars
  <2>1. ASSUME FInv, [ReplicaNext]_replicaVars, replica' # replica
        PROVE  \E j \in Job : job'[j] # job[j] /\ (j \in disturbed \/ IsACommit(replica'))
    BY <2>1, FileStep
  <2>. QED  BY <2>1
<1>. QED  BY <1>1, <1>2, FileInit, PTL DEF ReplicaSpec, UndisturbedCopyIsACommit
=============================================================================
