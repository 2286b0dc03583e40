----------------------------- MODULE StoreProofs ----------------------------
(***************************************************************************)
(* The tiered store implements the append-only log, for every set of keys  *)
(* and payloads, every lookback and hot window, and runs of dates in any   *)
(* order.                                                                  *)
(*                                                                         *)
(* The refinement is not inductive alone: append decides what is news from *)
(* the hot table, so the proof needs that every revision it could repeat   *)
(* is there. IInv says from which date on it is: a row reaches the cold    *)
(* files only when it is older than the cutoff it was tiered with, and the *)
(* horizon is the newest of those (ColdIsOld, HorizonPassed). A pulled row *)
(* is later than every pulled row before it, though not than a row written *)
(* under the mark of a date (PulledPast).                                  *)
(* How many files hold a row is inductive given IInv (FilesCountCrashes):  *)
(* a tiering adds one and takes the hot copy, a death leaves both.         *)
(***************************************************************************)
EXTENDS Store, FiniteSetTheorems, TLAPS

\* Only rows older than some cutoff tiered with are in the cold files.
ColdIsOld == \A r \in ColdRows : r.as_of < horizon

\* The tiering under way is part of the horizon.
HorizonPassed == tiering => Cutoff =< horizon

\* Between the COPY and the DELETE every aged row is in a cold file already.
CopiedFirst == tiering => Aged \subseteq ColdRows

\* What only a pull brings was stamped at an instant that has passed.
PulledPast == \A r \in Contents : r.key \notin Derived => r.fetched_at =< now

IInv ==
    /\ TypeOK
    /\ ColdIsOld
    /\ HorizonPassed
    /\ CopiedFirst
    /\ PulledPast

-----------------------------------------------------------------------------
\* COPY ... APPEND adds the new file's rows to what the cold files hold.
LEMMA ColdGrows ==
    ASSUME TypeOK, NEW F, cold' = Append(cold, F), F \in (SUBSET Row) \ {{}}
    PROVE  ColdRows' = ColdRows \cup F
<1>1. cold \in Seq((SUBSET Row) \ {{}})  BY DEF TypeOK
<1>2. /\ DOMAIN cold' = 1..(Len(cold) + 1)
      /\ \A i \in 1..Len(cold) : cold'[i] = cold[i]
      /\ cold'[Len(cold) + 1] = F
  BY <1>1
<1>3. DOMAIN cold = 1..Len(cold) /\ Len(cold) \in Nat  BY <1>1
<1>4. ASSUME NEW r  PROVE  r \in ColdRows' <=> r \in ColdRows \cup F
  <2>1. r \in ColdRows' <=> \E i \in 1..(Len(cold) + 1) : r \in cold'[i]
    BY <1>2 DEF ColdRows
  <2>2. r \in ColdRows <=> \E i \in 1..Len(cold) : r \in cold[i]
    BY <1>3 DEF ColdRows
  <2>3. \A i : i \in 1..(Len(cold) + 1) <=> i \in 1..Len(cold) \/ i = Len(cold) + 1
    BY <1>3
  <2>. QED  BY <2>1, <2>2, <2>3, <1>2
<1>. QED  BY <1>4

\* Cutoffs and horizons are dates.
LEMMA Dated == TypeOK => Cutoff \in Int /\ horizon \in Int /\ night \in Int
BY StoreAssumption DEF TypeOK, Cutoff

\* An instant's mark is an instant.
LEMMA Marked == TypeOK => Mark(night) \in Nat
BY StoreAssumption DEF TypeOK, Mark

\* What an append can add: rows of one pull, or rows of the run's date under its mark,
\* each accepted by the hot table and no two of one stamp.
LEMMA AppendAdds ==
    ASSUME TypeOK, AppendPulled \/ AppendWritten
    PROVE  \E New \in SUBSET Row :
              /\ hot' = hot \cup New /\ ColdRows' = ColdRows /\ Contents' = Contents \cup New
              /\ \A r \in New : Accepts(hot, r)
              /\ \A r, s \in New : SameStamp(r, s) => r = s
              /\ \A r \in New : r.key \notin Derived => now < r.fetched_at /\ r.fetched_at = now'
              /\ now' \in 0..MaxClock /\ now =< now'
              /\ ~tiering /\ UNCHANGED <<cold, tiering, night, horizon, crashes>>
<1> USE StoreAssumption
<1>1. PICK batch \in SUBSET Row :
         /\ AppendBatch(batch)
         /\ \A r \in batch : r.key \notin Derived => now < r.fetched_at /\ r.fetched_at = now'
         /\ now' \in 0..MaxClock /\ now =< now'
  <2>1. CASE AppendPulled
    <3>1. PICK t \in (now + 1)..MaxClock : \E batch \in Batches(Pulled(t)) :
             AppendBatch(batch) /\ now' = t
      BY <2>1 DEF AppendPulled
    <3>2. PICK batch \in Batches(Pulled(t)) : AppendBatch(batch) /\ now' = t
      BY <3>1
    <3>3. t \in Nat /\ now < t /\ t \in 0..MaxClock  BY DEF TypeOK
    <3>4. \A r \in Pulled(t) : r.fetched_at = t  BY DEF Pulled
    <3>5. Pulled(t) \subseteq Row
      <4>1. Dates \subseteq Int /\ night \in Int  BY DEF Dates, TypeOK
      <4>. QED  BY <3>3, <4>1 DEF Pulled, Row
    <3>6. batch \in SUBSET Pulled(t)  BY DEF Batches
    <3>7. batch \in SUBSET Row  BY <3>5, <3>6
    <3>8. \A r \in batch : now < r.fetched_at /\ r.fetched_at = now'
      BY <3>2, <3>3, <3>4, <3>6
    <3>9. now' \in 0..MaxClock /\ now =< now'  BY <3>2, <3>3 DEF TypeOK
    <3>. QED  BY <3>2, <3>7, <3>8, <3>9
  <2>2. CASE AppendWritten
    <3>1. PICK batch \in Batches(Written) : AppendBatch(batch) /\ now' = now
      BY <2>2 DEF AppendWritten
    <3>2. batch \in SUBSET Written  BY DEF Batches
    <3>3. Written \subseteq Row  BY Marked, Dated DEF Written, Row
    <3>4. \A r \in Written : r.key \in Derived  BY DEF Written
    <3>5. batch \in SUBSET Row  BY <3>2, <3>3
    <3>6. now' \in 0..MaxClock /\ now =< now'  BY <3>1 DEF TypeOK
    <3>. QED  BY <3>1, <3>2, <3>4, <3>5, <3>6
  <2>. QED  BY <2>1, <2>2
<1>2. PICK New \in SUBSET {r \in batch : Accepts(hot, r)} :
         hot' = hot \cup New /\ \A r, s \in New : SameStamp(r, s) => r = s
  <2>1. hot' \in Appends(hot, batch)  BY <1>1 DEF AppendBatch
  <2>. QED  BY <2>1 DEF Appends
<1>3. ~tiering /\ UNCHANGED <<cold, tiering, night, horizon, crashes>>
  BY <1>1 DEF AppendBatch
<1>4. ColdRows' = ColdRows  BY <1>3 DEF ColdRows
<1>5. Contents' = Contents \cup New  BY <1>2, <1>4 DEF Contents
<1>6. New \in SUBSET Row /\ \A r \in New : r \in batch /\ Accepts(hot, r)  OBVIOUS
<1>. QED  BY <1>1, <1>2, <1>3, <1>4, <1>5, <1>6

-----------------------------------------------------------------------------
\* The type invariant holds initially and is kept by every step.
LEMMA TypeInit == Init => TypeOK
<1> SUFFICES ASSUME Init  PROVE TypeOK
  OBVIOUS
<1>1. cold \in Seq((SUBSET Row) \ {{}})  BY DEF Init
<1>2. hot \in SUBSET Row /\ tiering \in BOOLEAN  BY DEF Init
<1>3. /\ night \in 1..MaxNight /\ now \in 0..MaxClock /\ crashes \in 0..MaxCrashes
      /\ horizon \in Int
  BY StoreAssumption DEF Init
<1>. QED  BY <1>1, <1>2, <1>3 DEF TypeOK

\* Every step keeps every variable's type.
LEMMA TypeStep == TypeOK /\ [Next]_vars => TypeOK'
<1> SUFFICES ASSUME TypeOK, [Next]_vars  PROVE TypeOK'
  OBVIOUS
<1> USE StoreAssumption
<1>1. CASE AppendPulled \/ AppendWritten
  <2>1. PICK New \in SUBSET Row :
           /\ hot' = hot \cup New /\ now' \in 0..MaxClock
           /\ UNCHANGED <<cold, tiering, night, horizon, crashes>>
    BY <1>1, AppendAdds
  <2>. QED  BY <2>1 DEF TypeOK
<1>2. CASE TierCopy
  <2>1. Aged \in (SUBSET Row) \ {{}}  BY <1>2 DEF TierCopy, Aged, TypeOK
  <2>2. cold' \in Seq((SUBSET Row) \ {{}})  BY <1>2, <2>1 DEF TierCopy, TypeOK
  <2>3. tiering' \in BOOLEAN /\ horizon' \in Int
    BY <1>2, Dated DEF TierCopy, Tiered
  <2>. QED  BY <1>2, <2>2, <2>3 DEF TierCopy, Tiered, TypeOK
<1>3. CASE TierPrune  BY <1>3 DEF TierPrune, TypeOK
<1>4. CASE Crash
  <2>1. tiering' \in BOOLEAN  BY <1>4 DEF Crash
  <2>2. crashes' \in 0..MaxCrashes  BY <1>4 DEF Crash, TypeOK
  <2>. QED  BY <1>4, <2>1, <2>2 DEF Crash, TypeOK
<1>5. CASE StartRun  BY <1>5 DEF StartRun, TypeOK
<1>6. CASE UNCHANGED vars  BY <1>6 DEF vars, TypeOK
<1>. QED  BY <1>1, <1>2, <1>3, <1>4, <1>5, <1>6 DEF Next

\* TypeOK for every value of the constants.
THEOREM StoreTypeCorrect == Spec => []TypeOK
<1>. QED  BY TypeInit, TypeStep, PTL DEF Spec

-----------------------------------------------------------------------------
\* The invariant holds initially: both tiers are empty.
LEMMA IInvInit == Init => IInv
<1> SUFFICES ASSUME Init  PROVE IInv
  OBVIOUS
<1>1. ColdRows = {} /\ Contents = {} /\ tiering = FALSE  BY DEF Init, ColdRows, Contents
<1>2. TypeOK  BY TypeInit
<1>. QED  BY <1>1, <1>2 DEF IInv, ColdIsOld, HorizonPassed, CopiedFirst, PulledPast

\* Every step but an append leaves the union alone, and the horizon where it was or later.
LEMMA UnionStays ==
    ASSUME IInv, TierCopy \/ TierPrune \/ Crash \/ StartRun \/ UNCHANGED vars
    PROVE  Contents' = Contents /\ now' = now /\ horizon =< horizon'
<1>0. horizon \in Int /\ Cutoff \in Int  BY Dated DEF IInv
<1>1. CASE TierCopy
  <2>1. Aged \in (SUBSET Row) \ {{}} /\ Aged \subseteq hot
    BY <1>1 DEF TierCopy, Aged, IInv, TypeOK
  <2>2. ColdRows' = ColdRows \cup Aged
    BY <1>1, <2>1, ColdGrows DEF TierCopy, IInv
  <2>3. horizon =< horizon'  BY <1>0, <1>1 DEF TierCopy, Tiered
  <2>. QED  BY <1>1, <2>1, <2>2, <2>3 DEF TierCopy, Tiered, Contents
<1>2. CASE TierPrune
  <2>1. Aged \subseteq ColdRows  BY <1>2 DEF TierPrune, IInv, CopiedFirst
  <2>2. ColdRows' = ColdRows  BY <1>2 DEF TierPrune, ColdRows
  <2>. QED  BY <1>0, <1>2, <2>1, <2>2 DEF TierPrune, Contents
<1>3. CASE Crash  BY <1>0, <1>3 DEF Crash, Contents, ColdRows
<1>4. CASE StartRun  BY <1>0, <1>4 DEF StartRun, Contents, ColdRows
<1>5. CASE UNCHANGED vars  BY <1>0, <1>5 DEF vars, Contents, ColdRows
<1>. QED  BY <1>1, <1>2, <1>3, <1>4, <1>5

\* Every step keeps the invariant.
LEMMA IInvStep == IInv /\ [Next]_vars => IInv'
<1> SUFFICES ASSUME IInv, [Next]_vars  PROVE IInv'
  OBVIOUS
<1> USE StoreAssumption
<1>0. TypeOK'  BY TypeStep DEF IInv
<1>1. CASE AppendPulled \/ AppendWritten
  <2>1. PICK New \in SUBSET Row :
           /\ hot' = hot \cup New /\ ColdRows' = ColdRows /\ Contents' = Contents \cup New
           /\ \A r \in New : r.key \notin Derived => r.fetched_at = now'
           /\ now' \in 0..MaxClock /\ now =< now'
           /\ ~tiering /\ UNCHANGED <<tiering, horizon>>
    BY <1>1, AppendAdds DEF IInv
  <2>2. ColdIsOld'  BY <2>1 DEF ColdIsOld, IInv
  <2>3. HorizonPassed' /\ CopiedFirst'  BY <2>1 DEF HorizonPassed, CopiedFirst
  <2>4. PulledPast'
    <3>1. \A r \in Contents : r \in Row  BY DEF IInv, TypeOK, Contents, ColdRows
    <3>2. \A r \in Row : r.fetched_at \in Nat  BY DEF Row
    <3>3. now \in Nat /\ now' \in Nat  BY <2>1 DEF IInv, TypeOK
    <3>. QED  BY <2>1, <3>1, <3>2, <3>3 DEF PulledPast, IInv
  <2>. QED  BY <1>0, <2>2, <2>3, <2>4 DEF IInv
<1>2. CASE TierCopy \/ TierPrune \/ Crash \/ StartRun \/ UNCHANGED vars
  <2>1. Contents' = Contents /\ now' = now  BY <1>2, UnionStays
  <2>2. PulledPast'  BY <2>1 DEF IInv, PulledPast
  <2>3. ColdRows \subseteq Row  BY DEF IInv, TypeOK, ColdRows
  <2>4. horizon \in Int /\ Cutoff \in Int  BY Dated DEF IInv
  <2>5. ColdIsOld' /\ HorizonPassed' /\ CopiedFirst'
    <3>1. CASE TierCopy
      <4>1. Aged \in (SUBSET Row) \ {{}}  BY <3>1 DEF TierCopy, Aged, IInv, TypeOK
      <4>2. ColdRows' = ColdRows \cup Aged
        BY <3>1, <4>1, ColdGrows DEF TierCopy, IInv
      <4>3. Cutoff' = Cutoff /\ Aged' = Aged
        BY <3>1 DEF TierCopy, Tiered, Cutoff, Aged
      <4>4. horizon' \in Int /\ horizon =< horizon' /\ Cutoff =< horizon'
        BY <2>4, <3>1 DEF TierCopy, Tiered
      <4>5. \A r \in Aged : r.as_of < Cutoff  BY DEF Aged
      <4>6. \A r \in Row : r.as_of \in Int  BY DEF Row
      <4>7. ColdIsOld'
        BY <2>3, <2>4, <4>1, <4>2, <4>4, <4>5, <4>6 DEF IInv, ColdIsOld
      <4>. QED  BY <4>2, <4>3, <4>4, <4>7 DEF HorizonPassed, CopiedFirst
    <3>2. CASE TierPrune \/ Crash \/ StartRun
      <4>1. ColdRows' = ColdRows /\ horizon' = horizon /\ ~tiering'
        BY <3>2 DEF TierPrune, Crash, StartRun, ColdRows
      <4>. QED  BY <4>1 DEF IInv, ColdIsOld, HorizonPassed, CopiedFirst
    <3>3. CASE UNCHANGED vars
      BY <3>3 DEF vars, IInv, ColdRows, ColdIsOld, HorizonPassed, CopiedFirst, Cutoff, Aged
    <3>. QED  BY <1>2, <3>1, <3>2, <3>3
  <2>. QED  BY <1>0, <2>2, <2>5 DEF IInv
<1>. QED  BY <1>1, <1>2 DEF Next

\* IInv for every value of the constants.
THEOREM StoreInvariant == Spec => []IInv
<1>. QED  BY IInvInit, IInvStep, PTL DEF Spec

\* What the invariant says of a row dated from the newest cutoff on: it is hot.
LEMMA IInvKeepsWindow == IInv => HotHoldsTheWindow
<1> SUFFICES ASSUME IInv, NEW r \in Contents, r.as_of >= horizon, r \notin hot
             PROVE  FALSE
  BY DEF HotHoldsTheWindow
<1>1. r \in ColdRows /\ r \in Row  BY DEF Contents, ColdRows, IInv, TypeOK
<1>2. r.as_of \in Int /\ horizon \in Int  BY <1>1, Dated DEF Row, IInv
<1>3. r.as_of < horizon  BY <1>1 DEF IInv, ColdIsOld
<1>. QED  BY <1>2, <1>3

\* Whatever the lookback, and though later runs were of earlier dates: every row dated from
\* the newest cutoff on is in the table append compares with.
THEOREM WindowStaysHot == Spec => []HotHoldsTheWindow
<1>. QED  BY StoreInvariant, IInvKeepsWindow, PTL

-----------------------------------------------------------------------------
(* The refinement and what reads see *)

\* An accepted row dated from the horizon on is compared with every revision of its fact.
LEMMA AcceptedIsNews ==
    ASSUME IInv, NEW r, Accepts(hot, r), r.as_of >= horizon
    PROVE  Log!News(r)
<1> SUFFICES ASSUME NEW s \in Revisions(Contents, r)
             PROVE  /\ s.fetched_at # r.fetched_at
                    /\ IsLatest(Contents, s) => s.payload # r.payload
  BY DEF Log!News, Log!Revisions, Log!SameFact, Log!IsLatest, Revisions, SameFact, IsLatest
<1>1. s \in Contents /\ s.as_of >= horizon  BY DEF Revisions, SameFact
<1>2. s \in Revisions(hot, r)
  BY <1>1, IInvKeepsWindow DEF HotHoldsTheWindow, Revisions
<1>3. IsLatest(Contents, s) => IsLatest(hot, s)  BY DEF IsLatest, Revisions, Contents
<1>. QED  BY <1>2, <1>3 DEF Accepts

\* Every step of the tiered store records, retires, or leaves the log alone.
LEMMA StepRecords ==
    ASSUME IInv, IInv', [Next]_vars
    PROVE  [Log!Record \/ Log!Retire]_<<Contents, horizon>>
<1>1. CASE AppendPulled \/ AppendWritten
  <2>1. PICK New \in SUBSET Row :
           /\ Contents' = Contents \cup New /\ horizon' = horizon
           /\ \A r \in New : Accepts(hot, r)
           /\ \A r, s \in New : SameStamp(r, s) => r = s
    BY <1>1, AppendAdds DEF IInv
  <2>2. Contents' \subseteq Row  BY DEF IInv, TypeOK, Contents, ColdRows
  <2>3. \A r \in Contents' \ Contents : r.as_of >= horizon => Log!News(r)
    BY <2>1, AcceptedIsNews
  <2>4. \A r, s \in Contents' \ Contents : SameStamp(r, s) => r = s  BY <2>1
  <2>. QED
    BY <2>1, <2>2, <2>3, <2>4
    DEF Log!Record, Log!SameStamp, Log!SameFact, SameStamp, SameFact
<1>2. CASE TierCopy \/ TierPrune \/ Crash \/ StartRun \/ UNCHANGED vars
  <2>1. Contents' = Contents /\ horizon =< horizon'  BY <1>2, UnionStays
  <2>2. horizon' \in Int  BY DEF IInv, TypeOK
  <2>. QED  BY <2>1, <2>2 DEF Log!Retire
<1>. QED  BY <1>1, <1>2 DEF Next

\* The tiered store, crashes, re-pulls of cold rows and runs of earlier dates included,
\* implements the append-only log.
THEOREM StoreImplementsLog == Spec => ImplementsLog
<1>1. Init => Log!LogInit
  BY StoreAssumption DEF Init, Log!LogInit, Contents, ColdRows
<1>2. IInv /\ IInv' /\ [Next]_vars => [Log!Record \/ Log!Retire]_<<Contents, horizon>>
  BY StepRecords
<1>. QED
  BY <1>1, <1>2, StoreInvariant, PTL DEF Spec, ImplementsLog, Log!LogSpec, Log!logVars

\* A read as of d is a function of the rows dated d or earlier.
LEMMA ReadSeesOnlyPast ==
    ASSUME NEW A, NEW B, NEW d, A \subseteq B,
           \A r \in B \ A : ~(r.as_of =< d)
    PROVE  ReadAsOf(B, d) = ReadAsOf(A, d)
<1>1. \A r \in B : r.as_of =< d => r \in A  OBVIOUS
<1>2. ASSUME NEW r  PROVE r \in ReadAsOf(B, d) <=> r \in ReadAsOf(A, d)
  BY <1>1 DEF ReadAsOf
<1>. QED  BY <1>2

\* No later disclosure, no tiering and no crash moves what a date reads.
THEOREM ReadsArePointInTime == Spec => LaterDisclosureNeverMoves
<1> DEFINE A == \A d \in (1 - Lookback)..MaxNight :
                   ReadAsOf(Contents, d)' # ReadAsOf(Contents, d)
                     => \E r \in Contents' \ Contents : r.as_of =< d
<1>1. IInv /\ IInv' /\ [Next]_vars => [A]_vars
  <2> SUFFICES ASSUME IInv, IInv', [Next]_vars,
                      NEW d \in (1 - Lookback)..MaxNight,
                      \A r \in Contents' \ Contents : ~(r.as_of =< d)
               PROVE  ReadAsOf(Contents', d) = ReadAsOf(Contents, d)
    BY DEF ReadAsOf, NotBefore
  <2>1. Contents \subseteq Contents'
    BY StepRecords DEF Log!Record, Log!Retire
  <2>. QED  BY <2>1, ReadSeesOnlyPast
<1>. QED  BY <1>1, StoreInvariant, PTL DEF Spec, LaterDisclosureNeverMoves

\* A row that a pull brings of a key only pulled is what its own date reads for its key,
\* whatever its date and wherever the older revisions are.
THEOREM PulledRestatementsSurface == Spec => PulledRestatementSurfaces
<1> DEFINE A == \A r \in Contents' \ Contents :
                   r.key \notin Derived => r \in ReadAsOf(Contents, r.as_of)'
<1>1. IInv /\ IInv' /\ [Next]_vars => [A]_vars
  <2> SUFFICES ASSUME IInv, IInv', [Next]_vars,
                      NEW r \in Contents' \ Contents, r.key \notin Derived
               PROVE  r \in ReadAsOf(Contents', r.as_of)
    BY DEF ReadAsOf, NotBefore
  <2>1. Contents' \subseteq Row  BY DEF IInv, TypeOK, Contents, ColdRows
  <2>2. AppendPulled \/ AppendWritten  BY UnionStays DEF Next
  <2>3. PICK New \in SUBSET Row :
           /\ Contents' = Contents \cup New
           /\ \A x, y \in New : SameStamp(x, y) => x = y
           /\ \A x \in New : x.key \notin Derived => now < x.fetched_at /\ x.fetched_at = now'
    BY <2>2, AppendAdds DEF IInv
  <2>4. r \in New /\ r \in Row  BY <2>1, <2>3
  <2>5. ASSUME NEW s \in Contents', s.key = r.key, s.as_of =< r.as_of
        PROVE  NotBefore(s, r)
    <3>1. s.as_of \in Int /\ r.as_of \in Int /\ s.fetched_at \in Nat /\ r.fetched_at \in Nat
      BY <2>1, <2>4 DEF Row
    <3>2. CASE s.as_of < r.as_of  BY <3>2 DEF NotBefore
    <3>3. CASE s.as_of = r.as_of /\ s \in Contents
      <4>1. s.fetched_at =< now /\ now \in Nat
        BY <2>5, <3>3 DEF IInv, PulledPast, TypeOK
      <4>2. now < r.fetched_at  BY <2>3, <2>4
      <4>. QED  BY <3>1, <3>3, <4>1, <4>2 DEF NotBefore
    <3>4. CASE s.as_of = r.as_of /\ s \in New
      <4>1. s.fetched_at = r.fetched_at  BY <2>3, <2>4, <2>5, <3>4
      <4>. QED  BY <3>1, <3>4, <4>1 DEF NotBefore
    <3>. QED  BY <2>3, <2>5, <3>1, <3>2, <3>3, <3>4
  <2>6. r.as_of =< r.as_of  BY <2>4 DEF Row
  <2>. QED  BY <2>5, <2>6 DEF ReadAsOf
<1>. QED  BY <1>1, StoreInvariant, PTL DEF Spec, PulledRestatementSurfaces

-----------------------------------------------------------------------------
(* How many files hold a row *)

Files(r) == {i \in DOMAIN cold : r \in cold[i]}

\* r is in the hot table and the tiering under way does not take it.
Stays(r) == r \in hot /\ ~(tiering /\ r \in Aged)

\* A row that stays in the hot table is in a file for each death at most, any other in one
\* more.
FilesCountCrashes ==
    \A r \in Row : r.key \notin Derived =>
        Cardinality(Files(r)) =< crashes + (IF Stays(r) THEN 0 ELSE 1)

\* The files that hold a row are finitely many.
LEMMA FilesFinite ==
    ASSUME TypeOK, NEW r
    PROVE  IsFiniteSet(Files(r)) /\ Cardinality(Files(r)) \in Nat
<1>1. DOMAIN cold = 1..Len(cold) /\ Len(cold) \in Nat  BY DEF TypeOK
<1>2. IsFiniteSet(1..Len(cold))  BY <1>1, FS_Interval
<1>3. Files(r) \subseteq 1..Len(cold)  BY <1>1 DEF Files
<1>4. IsFiniteSet(Files(r))  BY <1>2, <1>3, FS_Subset
<1>. QED  BY <1>4, FS_CardinalityType

\* A COPY adds one file to those of a row it exports, and none to the others'.
LEMMA CopyAddsAFile ==
    ASSUME TypeOK, TierCopy, NEW r
    PROVE  Cardinality(Files(r)') = Cardinality(Files(r)) + (IF r \in Aged THEN 1 ELSE 0)
<1>1. cold \in Seq((SUBSET Row) \ {{}})  BY DEF TypeOK
<1>2. /\ DOMAIN cold = 1..Len(cold) /\ Len(cold) \in Nat
      /\ DOMAIN cold' = 1..(Len(cold) + 1)
      /\ \A i \in 1..Len(cold) : cold'[i] = cold[i]
      /\ cold'[Len(cold) + 1] = Aged
  BY <1>1 DEF TierCopy
<1>3. \A i : i \in 1..(Len(cold) + 1) <=> i \in 1..Len(cold) \/ i = Len(cold) + 1
  BY <1>2
<1>4. Len(cold) + 1 \notin Files(r)  BY <1>2 DEF Files
<1>5. CASE r \in Aged
  <2>1. Files(r)' = Files(r) \cup {Len(cold) + 1}  BY <1>2, <1>3, <1>5 DEF Files
  <2>2. Cardinality(Files(r) \cup {Len(cold) + 1}) = Cardinality(Files(r)) + 1
    BY <1>4, FilesFinite, FS_AddElement
  <2>. QED  BY <1>5, <2>1, <2>2
<1>6. CASE r \notin Aged
  <2>1. Files(r)' = Files(r)  BY <1>2, <1>3, <1>6 DEF Files
  <2>2. Cardinality(Files(r)) \in Nat  BY FilesFinite
  <2>. QED  BY <1>6, <2>1, <2>2
<1>. QED  BY <1>5, <1>6

\* Nothing is stored at first.
LEMMA FilesInit == Init => FilesCountCrashes
<1> SUFFICES ASSUME Init, NEW r \in Row
             PROVE  Cardinality(Files(r)) =< crashes + (IF Stays(r) THEN 0 ELSE 1)
  BY DEF FilesCountCrashes
<1>1. Files(r) = {} /\ crashes = 0  BY DEF Init, Files
<1>2. Cardinality(Files(r)) = 0  BY <1>1, FS_EmptySet
<1>. QED  BY <1>1, <1>2

\* A row enters the hot table when no file holds it, leaves it for one file, and is left
\* behind with one only by a death.
LEMMA FilesStep == IInv /\ FilesCountCrashes /\ [Next]_vars => FilesCountCrashes'
<1> SUFFICES ASSUME IInv, FilesCountCrashes, [Next]_vars,
                    NEW r \in Row, r.key \notin Derived
             PROVE  Cardinality(Files(r)') =< crashes' + (IF Stays(r)' THEN 0 ELSE 1)
  BY DEF FilesCountCrashes, Row
<1>0. /\ Cardinality(Files(r)) =< crashes + (IF Stays(r) THEN 0 ELSE 1)
      /\ Cardinality(Files(r)) \in Nat /\ crashes \in Nat
  BY FilesFinite DEF FilesCountCrashes, IInv, TypeOK
<1>1. CASE AppendPulled \/ AppendWritten
  <2>1. PICK New \in SUBSET Row :
           /\ hot' = hot \cup New
           /\ \A x \in New : x.key \notin Derived => now < x.fetched_at
           /\ ~tiering /\ UNCHANGED <<cold, tiering, crashes>>
    BY <1>1, AppendAdds DEF IInv
  <2>2. Files(r)' = Files(r)  BY <2>1 DEF Files
  <2>3. CASE r \in Contents
    <3>1. r \notin New
      <4>1. r.fetched_at =< now  BY <2>3 DEF IInv, PulledPast
      <4>2. r.fetched_at \in Nat /\ now \in Nat  BY DEF Row, IInv, TypeOK
      <4>. QED  BY <2>1, <4>1, <4>2
    <3>2. Stays(r)' <=> Stays(r)  BY <2>1, <3>1 DEF Stays
    <3>. QED  BY <1>0, <2>1, <2>2, <3>2
  <2>4. CASE r \notin Contents
    <3>1. Files(r) = {}  BY <2>4 DEF Contents, ColdRows, Files
    <3>2. Cardinality(Files(r)') = 0  BY <2>2, <3>1, FS_EmptySet
    <3>. QED  BY <1>0, <2>1, <3>2
  <2>. QED  BY <2>3, <2>4
<1>2. CASE TierCopy
  <2>1. ~tiering /\ UNCHANGED <<hot, night, crashes>> /\ tiering' = TRUE
    BY <1>2 DEF TierCopy, Tiered
  <2>2. Aged' = Aged /\ Aged \subseteq hot  BY <2>1 DEF Aged, Cutoff
  <2>3. Stays(r)' <=> r \in hot /\ r \notin Aged  BY <2>1, <2>2 DEF Stays
  <2>4. Stays(r) <=> r \in hot  BY <2>1 DEF Stays
  <2>5. Cardinality(Files(r)') = Cardinality(Files(r)) + (IF r \in Aged THEN 1 ELSE 0)
    BY <1>2, CopyAddsAFile DEF IInv
  <2>. QED  BY <1>0, <2>1, <2>2, <2>3, <2>4, <2>5
<1>3. CASE TierPrune
  <2>1. Files(r)' = Files(r) /\ crashes' = crashes  BY <1>3 DEF TierPrune, Files
  <2>2. Stays(r)' <=> Stays(r)  BY <1>3 DEF TierPrune, Stays
  <2>. QED  BY <1>0, <2>1, <2>2
<1>4. CASE Crash
  <2>1. Files(r)' = Files(r) /\ crashes' = crashes + 1  BY <1>4 DEF Crash, Files
  <2>. QED  BY <1>0, <2>1
<1>5. CASE StartRun
  <2>1. Files(r)' = Files(r) /\ crashes' = crashes  BY <1>5 DEF StartRun, Files
  <2>2. Stays(r)' <=> Stays(r)  BY <1>5 DEF StartRun, Stays
  <2>. QED  BY <1>0, <2>1, <2>2
<1>6. CASE UNCHANGED vars
  <2>1. Files(r)' = Files(r) /\ crashes' = crashes  BY <1>6 DEF vars, Files
  <2>2. Stays(r)' <=> Stays(r)  BY <1>6 DEF vars, Stays, Aged, Cutoff
  <2>. QED  BY <1>0, <2>1, <2>2
<1>. QED  BY <1>1, <1>2, <1>3, <1>4, <1>5, <1>6 DEF Next

\* A reading only a pull brings is read once, and once more at most for every process that
\* died inside tier_cold.
THEOREM CopiesAreBounded == Spec => []CrashesBoundCopies
<1>1. IInv /\ FilesCountCrashes => CrashesBoundCopies
  <2> SUFFICES ASSUME IInv, FilesCountCrashes, ~tiering,
                      NEW r \in Contents, r.key \notin Derived
               PROVE  Copies(r) =< 1 + crashes
    BY DEF CrashesBoundCopies
  <2>1. r \in Row  BY DEF IInv, TypeOK, Contents, ColdRows
  <2>2. /\ Cardinality(Files(r)) =< crashes + (IF Stays(r) THEN 0 ELSE 1)
        /\ Cardinality(Files(r)) \in Nat /\ crashes \in Nat
    BY <2>1, FilesFinite DEF FilesCountCrashes, IInv, TypeOK
  <2>3. Stays(r) <=> r \in hot  BY DEF Stays
  <2>4. Copies(r) = (IF r \in hot THEN 1 ELSE 0) + Cardinality(Files(r))
    BY DEF Copies, Files
  <2>. QED  BY <2>2, <2>3, <2>4
<1>. QED  BY <1>1, FilesInit, FilesStep, StoreInvariant, PTL DEF Spec

-----------------------------------------------------------------------------
(* Derived series *)

\* A series whose rows are stamped by their date alone is never restated while the table
\* append compares with holds them: a second batch of a date finds the primary key taken,
\* and a row of another date is read for another (base.py's fetched_at_for; the mapping
\* and the discovered themes are such series).
THEOREM DerivedRowsStand ==
    ASSUME NEW rows, NEW batch, NEW stamp, NEW after \in Appends(rows, batch),
           \A s \in rows \cup batch : s.as_of \in Int /\ s.fetched_at \in Int,
           \A s \in rows \cup batch : s.fetched_at = stamp[s.as_of],
           NEW r \in rows, r \in ReadAsOf(rows, r.as_of)
    PROVE  r \in ReadAsOf(after, r.as_of)
<1>1. \A s \in after : s \in rows \/ (s \in batch /\ Accepts(rows, s))  BY DEF Appends
<1>2. r \in after  BY DEF Appends
<1>3. ASSUME NEW s \in after, s.key = r.key, s.as_of =< r.as_of
      PROVE  NotBefore(s, r)
  <2>1. CASE s \in rows  BY <1>3, <2>1 DEF ReadAsOf
  <2>2. CASE s \notin rows
    <3>1. s \in batch /\ Accepts(rows, s)  BY <1>1, <2>2
    <3>2. s.as_of # r.as_of
      <4>1. SUFFICES ASSUME s.as_of = r.as_of  PROVE FALSE  OBVIOUS
      <4>2. r \in Revisions(rows, s)  BY <1>3, <4>1 DEF Revisions, SameFact
      <4>3. r.fetched_at = s.fetched_at  BY <3>1, <4>1
      <4>. QED  BY <3>1, <4>2, <4>3 DEF Accepts
    <3>. QED  BY <1>3, <3>1, <3>2 DEF NotBefore
  <2>. QED  BY <2>1, <2>2
<1>. QED  BY <1>2, <1>3 DEF ReadAsOf
=============================================================================
