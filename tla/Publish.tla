--------------------------------- MODULE Publish ---------------------------------
(***************************************************************************)
(* What a run leaves behind for its readers (pipeline.run): dashboard.json,*)
(* the dated night in the history (history.py), a point in the trail of    *)
(* each of its funds (series.py); and what the read API (serve.py) makes of*)
(* them. Runs follow one another, nightly, resumed and back-filled nights  *)
(* in any order, and any of them can die between two writes. The catalog   *)
(* may be lost at any time ("if it is ever lost or unreadable").           *)
(*                                                                         *)
(* A night file, the catalog and a trail are staged beside the target and  *)
(* renamed, and no reader opens a staging file: such a write is its rename.*)
(* dashboard.json is written in place. Two runs that publish at once are   *)
(* left out: each would hold the night before the other's.                 *)
(***************************************************************************)
EXTENDS Integers, FiniteSets, FiniteSetsExt

CONSTANTS
    Code,           \* the funds
    Build,          \* what a build can make of a night: its fingerprint
    Absent,         \* a file that is not there, or does not parse
    MaxNight        \* bound: nights

Night == 1..MaxNight

ASSUME PublishAssumption ==
    /\ MaxNight \in Nat \ {0}
    /\ Absent \notin [as_of : Night, build : Build]

\* A dashboard, its catalog entry and its point in a trail, told apart by the
\* night and by the build that made them.
Dashboard == [as_of : Night, build : Build]

VARIABLES
    pc,             \* where the run is
    dash, codes,    \* its dashboard, and the funds still to be filed
    output,         \* dashboard.json
    nights,         \* <as_of>.json
    sound,          \* index.json is there and parses
    catalog,        \* its entries then
    trails          \* <code>.json: its points

files == <<output, nights, sound, catalog, trails>>
vars == <<pc, dash, codes, files>>

Init ==
    /\ pc = "idle"
    /\ dash = Absent /\ codes = {}
    /\ output = Absent
    /\ nights = [n \in Night |-> Absent]
    /\ sound = FALSE /\ catalog = {}
    /\ trails = [c \in Code |-> {}]

-----------------------------------------------------------------------------
(* The history *)

\* _rebuild_index: the catalog of the night files on disk.
Rebuilt == {nights[n] : n \in {n \in Night : nights[n] # Absent}}

\* read_index: the catalog, or a rebuild where it cannot be read.
ReadIndex == IF sound THEN catalog ELSE Rebuilt

\* load.
Load(n) == nights[n]

\* Mutant: a catalog that cannot be read starts anew.
CatalogFromScratch(entry) ==
    catalog \cup {entry}

\* _catalog_night: the first entry of a night wins.
Cataloged(entry) ==
    ReadIndex \cup (IF \E e \in ReadIndex : e.as_of = entry.as_of THEN {} ELSE {entry})

-----------------------------------------------------------------------------
(* A run *)

Goto(at) == pc' = at

\* build_dashboard has made a dashboard of some night.
StartRun ==
    /\ pc = "idle"
    /\ dash' \in Dashboard
    /\ codes' \in SUBSET Code
    /\ Goto("output")
    /\ UNCHANGED files

\* output_path.write_text opens and truncates, then writes.
TruncateOutput ==
    /\ pc = "output"
    /\ output' = Absent
    /\ Goto("outputting")
    /\ UNCHANGED <<dash, codes, nights, sound, catalog, trails>>

\* Mutant: the series before the history.
WriteOutputSeriesFirst ==
    /\ pc = "outputting"
    /\ output' = dash
    /\ Goto("series")
    /\ UNCHANGED <<dash, codes, nights, sound, catalog, trails>>

WriteOutput ==
    /\ pc = "outputting"
    /\ output' = dash
    /\ Goto("history")
    /\ UNCHANGED <<dash, codes, nights, sound, catalog, trails>>

\* Mutant: a recorded night is recorded again.
RecordAgain ==
    /\ pc = "history"
    /\ nights' = [nights EXCEPT ![dash.as_of] = dash]
    /\ Goto("catalog")
    /\ UNCHANGED <<dash, codes, output, sound, catalog, trails>>

\* history.record: the first recording of a night stands.
RecordNight ==
    /\ pc = "history"
    /\ IF nights[dash.as_of] # Absent
       THEN Goto("series") /\ UNCHANGED nights
       ELSE nights' = [nights EXCEPT ![dash.as_of] = dash] /\ Goto("catalog")
    /\ UNCHANGED <<dash, codes, output, sound, catalog, trails>>

CatalogNight ==
    /\ pc = "catalog"
    /\ sound' = TRUE /\ catalog' = Cataloged(dash)
    /\ Goto("series")
    /\ UNCHANGED <<dash, codes, output, nights, trails>>

\* Mutant: a re-run adds another point of its night.
FiledTwice(trail, point) == trail \cup {point}

\* The trail after series.record: the first point of a night stands.
Filed(trail, point) ==
    trail \cup (IF \E p \in trail : p.as_of = point.as_of THEN {} ELSE {point})

\* series.record, one fund after another.
FileFund(c) ==
    /\ pc = "series" /\ c \in codes
    /\ trails' = [trails EXCEPT ![c] = Filed(@, dash)]
    /\ codes' = codes \ {c}
    /\ UNCHANGED <<pc, dash, output, nights, sound, catalog>>

\* Every fund is filed: the run has published.
Finish ==
    /\ pc = "series" /\ codes = {}
    /\ Goto("idle") /\ dash' = Absent /\ codes' = {}
    /\ UNCHANGED files

\* A run that dies leaves its files as they are.
Die ==
    /\ pc # "idle"
    /\ Goto("idle") /\ dash' = Absent /\ codes' = {}
    /\ UNCHANGED files

\* The catalog is lost or damaged (external).
LoseCatalog ==
    /\ sound
    /\ sound' = FALSE /\ catalog' = {}
    /\ UNCHANGED <<pc, dash, codes, output, nights, trails>>

Next ==
    \/ StartRun \/ TruncateOutput \/ WriteOutput
    \/ RecordNight \/ CatalogNight
    \/ \E c \in Code : FileFund(c)
    \/ Finish \/ Die \/ LoseCatalog

Spec == Init /\ [][Next]_vars

-----------------------------------------------------------------------------
(* The read API *)

\* /dashboards/latest: the last entry's night.
Latest == LET newest == Max({e.as_of : e \in ReadIndex})
          IN  IF ReadIndex = {} THEN Absent ELSE Load(newest)

LastOf(trail) == IF trail = {} THEN 0 ELSE Max({p.as_of : p \in trail})

\* Mutant: the validator of a trail is the night of its last point.
SeriesETagOfLast(c) == <<c, LastOf(trails[c])>>

\* The validator of /series/{code}: its points, counted, and the last night.
SeriesETag(c) == <<c, Cardinality(trails[c]), LastOf(trails[c])>>

\* The validator of /dashboards/latest: the last entry's night and fingerprint.
LatestETag == {e \in ReadIndex : \A o \in ReadIndex : o.as_of =< e.as_of}

-----------------------------------------------------------------------------
(* Properties *)

OnePerNight(entries) == \A p, q \in entries : p.as_of = q.as_of => p = q

\* The files are in type: a night under its own date, one point of it in a trail.
TypeOK ==
    /\ pc \in {"idle", "output", "outputting", "history", "catalog", "series"}
    /\ dash \in Dashboard \cup {Absent} /\ (pc # "idle" => dash # Absent)
    /\ codes \in SUBSET Code
    /\ output \in Dashboard \cup {Absent}
    /\ nights \in [Night -> Dashboard \cup {Absent}]
    /\ sound \in BOOLEAN /\ catalog \in SUBSET Dashboard
    /\ trails \in [Code -> SUBSET Dashboard]
    /\ \A n \in Night : nights[n] # Absent => nights[n].as_of = n
    /\ \A c \in Code : OnePerNight(trails[c])

\* Every night the API lists can be opened, and is what the list says it is: no
\* crash, lost catalog, re-run or back-fill leaves a dead link, so the newest
\* night is always served.
ListedNightsLoad ==
    /\ \A e \in ReadIndex : Load(e.as_of) = e
    /\ ReadIndex # {} => Latest # Absent

\* No point of a trail is of a night the history does not have: a chart's date
\* can be opened.
PointsOfRecordedNights ==
    \A c \in Code : \A p \in trails[c] : Load(p.as_of) # Absent

\* A recorded night is what it was, whatever runs again: "immutable, cacheable
\* forever" (RUNBOOK.md:87).
NightStands ==
    [][\A n \in Night : Load(n) # Absent => Load(n)' = Load(n)]_vars

\* A night once listed stays listed through crashes and a lost catalog, "rather
\* than dropping earlier nights" (history.py:74).
ListingGrows == [][ReadIndex \subseteq ReadIndex']_vars

\* An unchanged validator means unchanged contents: a chart or a morning a client
\* revalidates is never stale, back-filled nights included.
RevalidationIsSound ==
    [][/\ \A c \in Code : SeriesETag(c)' = SeriesETag(c) => trails'[c] = trails[c]
       /\ LatestETag' = LatestETag => Latest' = Latest]_vars

\* RUNBOOK.md:76: "the catalog is a cache the API rebuilds from the night files if
\* it is ever lost or unreadable, so it cannot drift".
CatalogCannotDrift == pc = "idle" => ReadIndex = Rebuilt
=============================================================================
