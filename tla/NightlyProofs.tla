---------------------------- MODULE NightlyProofs ---------------------------
(***************************************************************************)
(* The durable calls are the audit trail the scorer was promised, for any  *)
(* number of processes, items, days and runs, whatever dies and when.      *)
(*                                                                         *)
(* The type invariant is not inductive alone: a commit reads the lean of   *)
(* its item from the artifact, so the artifact must hold one (Shape). That *)
(* a call rests on a debate needs that the lean about to be committed does *)
(* already (Attested), and one call per night that the id says which call  *)
(* it is (IdsName).                                                        *)
(*                                                                         *)
(* That the artifact and the record agree is a second invariant, inductive *)
(* given the first: both hold the one judgment there is of a brief on a    *)
(* night (OneDebate), and a debate added later is of a night the brief     *)
(* never had, so it unseats none. That an abstention on record is of an    *)
(* item with nothing to argue needs that no view moves between the         *)
(* digest of an item and its commit, which the hold of the store ensures.  *)
(***************************************************************************)
EXTENDS Nightly, WellFoundedInduction, TLAPS

\* The artifact holds the leans of the items before the next one, and at a
\* commit the decided lean of the next one too.
Shape == \A p \in Proc :
    /\ Len(shown[p]) = IF pc[p] = "commit" THEN next[p] ELSE next[p] - 1
    /\ pc[p] = "commit" => next[p] \in Item

\* A lean about to be committed is the outcome of a debate on record, argued no
\* later than the night, unless its item is blind.
AttestedLean(i, n, l, debates) ==
    l.seen # Nothing => \E d \in debates : /\ d.brief = [item |-> i, seen |-> l.seen]
                                   /\ d.as_of =< n
                                   /\ d.action = l.action

Attested == \A p \in Proc :
    pc[p] = "commit" => AttestedLean(next[p], night[p], shown[p][next[p]], cache)

\* A call's id says which code and night it is of.
IdsName == \A k \in calls : k.id = <<k.code, k.as_of>>

IInv ==
    /\ TypeOK
    /\ Shape
    /\ Attested
    /\ IdsName
    /\ OneCallPerNight
    /\ CallsRestOnTheirNight

-----------------------------------------------------------------------------

\* A bounded set of numbers that is not empty has a largest member.
LEMMA MaxExists ==
    ASSUME NEW N \in Nat, NEW S \in SUBSET (0..N), S # {}
    PROVE  \E m \in S : \A x \in S : x =< m
<1> DEFINE T == {N - x : x \in S}
           R == OpToRel(<, Nat)
<1>1. T \subseteq Nat
  <2>1. ASSUME NEW x \in S  PROVE N - x \in Nat
    OBVIOUS
  <2>. QED  BY <2>1
<1>2. T # {}  OBVIOUS
<1>3. IsWellFoundedOn(R, Nat)  BY NatLessThanWellFounded
<1> HIDE DEF T, R
<1>4. PICK y \in T : \A z \in T : <<z, y>> \notin R
  BY <1>1, <1>2, <1>3, WFMin
<1> USE DEF T
<1>5. PICK m \in S : y = N - m  OBVIOUS
<1>6. ASSUME NEW x \in S  PROVE x =< m
  <2>1. <<N - x, y>> \notin R  BY <1>4
  <2>2. ~(N - x < y)  BY <2>1, <1>1, <1>4 DEF R, OpToRel
  <2>. QED  BY <2>2, <1>5
<1>. QED  BY <1>6

\* The newest bar a night may see is 0 or a date the store has.
LEMMA NewestBarIsKnown ==
    ASSUME TypeOK, NEW c \in Code, NEW n \in Day
    PROVE  /\ NewestBar(c, n) \in 0..MaxDay
           /\ NewestBar(c, n) # 0 => NewestBar(c, n) \in bars[c] /\ NewestBar(c, n) =< n
<1> USE NightlyAssumption
<1> DEFINE known == {d \in bars[c] : d =< n}
<1>1. known \in SUBSET (0..MaxDay)  BY DEF TypeOK, Day
<1>2. CASE known = {}  BY <1>2 DEF NewestBar
<1>3. CASE known # {}
  <2>1. \E m \in known : \A x \in known : x =< m
    <3> HIDE DEF known
    <3>. QED  BY <1>1, <1>3, MaxExists
  <2>2. NewestBar(c, n) \in known  BY <2>1, <1>3 DEF NewestBar
  <2>. QED  BY <2>2, <1>1
<1>. QED  BY <1>2, <1>3

\* What a night is shown of a code is nothing, or a date of its with a view.
LEMMA SeenType ==
    ASSUME TypeOK, NEW c \in Code, NEW n \in Day
    PROVE  Seen(c, n) \in Sight
<1>1. CASE NewestBar(c, n) = 0 \/ view[c][NewestBar(c, n)] = Blind
  BY <1>1 DEF Seen, Sight
<1>2. CASE ~(NewestBar(c, n) = 0 \/ view[c][NewestBar(c, n)] = Blind)
  <2> DEFINE d == NewestBar(c, n)
  <2>1. d \in bars[c]  BY <1>2, NewestBarIsKnown
  <2>2. d \in Day /\ view[c][d] \in View
    <3> HIDE DEF d
    <3>1. d \in Day /\ view \in [Code -> [Day -> View \cup {Blind}]]
      BY <2>1 DEF TypeOK
    <3>2. view[c][d] \in View \cup {Blind}  BY <3>1
    <3>3. view[c][d] # Blind  BY <1>2 DEF d
    <3>. QED  BY <3>1, <3>2, <3>3
  <2>3. Seen(c, n) = [on |-> d, view |-> view[c][d]]  BY <1>2 DEF Seen
  <2>. QED  BY <2>2, <2>3 DEF Sight
<1>. QED  BY <1>1, <1>2

\* The brief of an item of the book is a brief.
LEMMA BriefOfType ==
    ASSUME TypeOK, NEW i \in Item, NEW n \in Day
    PROVE  BriefOf(i, n) \in Brief /\ BriefOf(i, n).item = i
<1>1. Book[i] \in Code  BY DEF Code
<1>. QED  BY <1>1, SeenType DEF BriefOf, Brief

\* Attaching a lean keeps the artifact and the program counter in type.
LEMMA AttachType ==
    ASSUME TypeOK, NEW p \in Proc, NEW lean \in Lean, NEW at \in {"digest", "commit"},
           Attach(p, lean, at)
    PROVE  shown' \in [Proc -> Seq(Lean)] /\ pc' \in [Proc -> Places]
<1>1. Append(shown[p], lean) \in Seq(Lean)  BY DEF TypeOK
<1>. QED  BY <1>1 DEF Attach, Goto, TypeOK, Places, Held

\* The initial state is in type.
LEMMA TypeInit == Init => TypeOK
<1> SUFFICES ASSUME Init  PROVE TypeOK
  OBVIOUS
<1> USE NightlyAssumption DEF Init
<1>1. shown \in [Proc -> Seq(Lean)]
  <2>1. <<>> \in Seq(Lean)  OBVIOUS
  <2>. QED  BY <2>1
<1>2. next \in [Proc -> 1..(Len(Book) + 1)]  OBVIOUS
<1>3. pc \in [Proc -> Places]  BY DEF Places
<1>4. night \in [Proc -> Day]  BY DEF Day
<1>5. cache \in SUBSET Debate /\ calls \in SUBSET Call  OBVIOUS
<1>6. day \in Day /\ runs \in 0..MaxRuns  BY DEF Day
<1>9. closed \in BOOLEAN  OBVIOUS
<1>10. view \in [Code -> [Day -> View \cup {Blind}]]  OBVIOUS
<1>7. bars \in [Code -> SUBSET Day] /\ derived \in [Day -> SUBSET Part] /\ positions \in SUBSET Day
  OBVIOUS
<1>8. argued \in [Proc -> 0..DebateCap] /\ broken \in [Proc -> BOOLEAN]
      /\ logged \in [Proc -> SUBSET (Code \X Day)] /\ holder \in Proc \cup {NoProc}
  OBVIOUS
<1>. QED  BY <1>1, <1>2, <1>3, <1>4, <1>5, <1>6, <1>7, <1>8, <1>9, <1>10 DEF TypeOK

\* A commit leaves the calls alone or adds one new call: the lean of the next
\* item, in type, under an id no call has, and with no later price known.
NewCall(p, k) ==
    /\ k \in Call
    /\ k.code = Book[next[p]] /\ k.as_of = night[p] /\ k.id = <<k.code, k.as_of>>
    /\ k.action = shown[p][next[p]].action
    /\ k.brief = [item |-> next[p], seen |-> shown[p][next[p]].seen]
    /\ \A j \in calls : j.id # k.id
    /\ ~WindowOpen(k.code, k.as_of)
    /\ calls' = calls \cup {k}

\* A commit logs the call of the fund at hand, or finds its identity taken, or neither.
LEMMA CommitAdds ==
    ASSUME TypeOK, Shape, NEW p \in Proc, Commit(p)
    PROVE  \/ UNCHANGED calls /\ UNCHANGED logged
           \/ /\ \E k : NewCall(p, k)
              /\ \E id \in Code \X Day : logged' = [logged EXCEPT ![p] = @ \cup {id}]
           \/ /\ UNCHANGED calls
              /\ \E id \in Code \X Day : logged' = [logged EXCEPT ![p] = @ \cup {id}]
<1> DEFINE i == next[p]
           l == shown[p][i]
           k == [id |-> CallId(i, night[p]), code |-> Book[i], as_of |-> night[p],
                 action |-> l.action, brief |-> [item |-> i, seen |-> l.seen]]
<1>1. i \in Item /\ Len(shown[p]) = i  BY DEF Shape, Commit
<1>2. l \in Lean  BY <1>1 DEF TypeOK, Item
<1>3. l.seen \in Sight /\ l.action \in Action \cup {Abstain}
  BY <1>2 DEF Lean, Deferred, Sight
<1>4. Book[i] \in Code /\ night[p] \in Day  BY <1>1 DEF Code, TypeOK
<1>5. CallId(i, night[p]) \in Code \X Day  BY <1>4 DEF CallId
<1>6. k \in Call  BY <1>1, <1>3, <1>4, <1>5 DEF Call, Brief
<1>7. CASE CallId(i, night[p]) \in logged[p] \/ WindowOpen(Book[i], night[p])
  BY <1>7 DEF Commit
<1>8. CASE ~(CallId(i, night[p]) \in logged[p] \/ WindowOpen(Book[i], night[p]))
  <2>1. /\ calls' = LogCall(k)
        /\ logged' = [logged EXCEPT ![p] = @ \cup {CallId(i, night[p])}]
    BY <1>8 DEF Commit
  <2>2. CASE \E j \in calls : j.id = k.id
    BY <2>1, <2>2, <1>5 DEF LogCall
  <2>3. CASE ~\E j \in calls : j.id = k.id
    <3>1. calls' = calls \cup {k}  BY <2>1, <2>3 DEF LogCall
    <3>2. NewCall(p, k)  BY <3>1, <2>3, <1>6, <1>8 DEF NewCall, CallId
    <3>. QED  BY <3>2, <2>1, <1>5
  <2>. QED  BY <2>2, <2>3
<1>. QED  BY <1>7, <1>8

\* A commit keeps every variable in type.
LEMMA CommitType ==
    ASSUME TypeOK, Shape, NEW p \in Proc, Commit(p)
    PROVE  TypeOK'
<1>1. calls' \in SUBSET Call
  <2>1. CASE UNCHANGED calls  BY <2>1 DEF TypeOK
  <2>2. CASE \E k : NewCall(p, k)  BY <2>2 DEF NewCall, TypeOK
  <2>. QED  BY <2>1, <2>2, CommitAdds
<1>2. logged' \in [Proc -> SUBSET (Code \X Day)]
  <2>1. CASE UNCHANGED logged  BY <2>1 DEF TypeOK
  <2>2. CASE \E id \in Code \X Day : logged' = [logged EXCEPT ![p] = @ \cup {id}]
    BY <2>2 DEF TypeOK
  <2>. QED  BY <2>1, <2>2, CommitAdds
<1>3. next' \in [Proc -> 1..(Len(Book) + 1)]
  BY NightlyAssumption, SMTT(30) DEF Commit, Shape, Item, TypeOK
<1>4. pc' \in [Proc -> Places]  BY DEF Commit, Goto, TypeOK, Places, Held
<1>. QED  BY <1>1, <1>2, <1>3, <1>4 DEF Commit, TypeOK

\* Whatever starts a process, it starts on a day that has come, outside the store.
LEMMA StartsAt ==
    ASSUME TypeOK, NEW p \in Proc,
           StartNightly(p) \/ StartResume(p) \/ StartBackfill(p) \/ StartRun(p)
    PROVE  \E n \in Day, at \in {"check", "open"} : Start(p, n, at)
<1> USE NightlyAssumption
<1>1. day \in Day /\ 1..day \subseteq Day  BY DEF TypeOK, Day
<1>2. CASE StartNightly(p) \/ StartResume(p)  BY <1>1, <1>2 DEF StartNightly, StartResume
<1>3. CASE StartBackfill(p)  BY <1>1, <1>3 DEF StartBackfill
<1>4. CASE StartRun(p)  BY <1>1, <1>4 DEF StartRun
<1>. QED  BY <1>2, <1>3, <1>4

\* Every step keeps the type, given the shape of the artifact.
LEMMA TypeStep == TypeOK /\ Shape /\ [Next]_vars => TypeOK'
<1> SUFFICES ASSUME TypeOK, Shape, [Next]_vars  PROVE TypeOK'
  OBVIOUS
<1> USE NightlyAssumption DEF storeVars, procVars, Places, Held, Day
<1>1. CASE TimePasses
  <2>1. day' \in Day  BY <1>1 DEF TimePasses, TypeOK
  <2>2. closed' \in BOOLEAN  BY <1>1 DEF TimePasses, TypeOK
  <2>. QED  BY <1>1, <2>1, <2>2 DEF TimePasses, TypeOK
<1>2. ASSUME NEW p \in Proc, NEW n \in Day, NEW at \in {"check", "open"}, Start(p, n, at)
      PROVE TypeOK'
  <2>1. runs' \in 0..MaxRuns  BY <1>2 DEF Start, TypeOK
  <2>2. pc' \in [Proc -> Places]  BY <1>2 DEF Start, TypeOK
  <2>3. night' \in [Proc -> Day]  BY <1>2 DEF Start, TypeOK
  <2>. QED  BY <1>2, <2>1, <2>2, <2>3 DEF Start, TypeOK
<1>3. ASSUME NEW p \in Proc, Die(p)  PROVE TypeOK'
  <2>1. /\ pc' \in [Proc -> Places] /\ night' \in [Proc -> Day]
        /\ argued' \in [Proc -> 0..DebateCap] /\ broken' \in [Proc -> BOOLEAN]
        /\ holder' \in Proc \cup {NoProc}
    BY <1>3 DEF Die, TypeOK
  <2>2. /\ next' \in [Proc -> 1..(Len(Book) + 1)]
        /\ shown' \in [Proc -> Seq(Lean)]
        /\ logged' \in [Proc -> SUBSET (Code \X Day)]
    BY <1>3 DEF Die, TypeOK
  <2>. QED  BY <1>3, <2>1, <2>2 DEF Die, TypeOK
<1>4. ASSUME NEW p \in Proc, CheckIngested(p)  PROVE TypeOK'
  BY <1>4 DEF CheckIngested, Goto, TypeOK
<1>5. ASSUME NEW p \in Proc, OpenIngest(p)  PROVE TypeOK'
  BY <1>5 DEF OpenIngest, Hold, Goto, TypeOK
<1>6. ASSUME NEW p \in Proc, AppendReadings(p)  PROVE TypeOK'
  <2>1. Published \in 0..MaxDay  BY DEF Published, TypeOK
  <2>2. PICK answered \in SUBSET Code :
          bars' = [c \in Code |-> IF c \in answered THEN bars[c] \cup 1..Published
                                                    ELSE bars[c]]
    BY <1>6 DEF AppendReadings
  <2>3. 1..Published \subseteq Day  BY <2>1
  <2>4. bars' \in [Code -> SUBSET Day]  BY <2>2, <2>3 DEF TypeOK
  <2>7. view' \in [Code -> [Day -> View \cup {Blind}]]
    <3>1. PICK reads \in [Code -> [Day -> View \cup {Blind}]] :
            view' = [c \in Code |-> [d \in Day |->
                       IF d \in bars'[c] THEN reads[c][d] ELSE Blind]]
      BY <1>6 DEF AppendReadings
    <3>2. \A c \in Code, d \in Day : reads[c][d] \in View \cup {Blind}  OBVIOUS
    <3>. QED  BY <3>1, <3>2
  <2>5. positions' \in SUBSET Day  BY <1>6 DEF AppendReadings, TypeOK
  <2>6. pc' \in [Proc -> Places]  BY <1>6 DEF AppendReadings, Goto, TypeOK
  <2>. QED  BY <1>6, <2>4, <2>5, <2>6, <2>7 DEF AppendReadings, TypeOK
<1>7. ASSUME NEW p \in Proc, Disclose(p)  PROVE TypeOK'
  BY <1>7 DEF Disclose, Goto, TypeOK, Part
<1>8. ASSUME NEW p \in Proc, BuildGraph(p)  PROVE TypeOK'
  BY <1>8 DEF BuildGraph, Goto, TypeOK, Part
<1>9. ASSUME NEW p \in Proc, Materialise(p)  PROVE TypeOK'
  BY <1>9 DEF Materialise, Goto, TypeOK, Part
<1>10. ASSUME NEW p \in Proc, OpenBuild(p)  PROVE TypeOK'
  BY <1>10, SMTT(30) DEF OpenBuild, Rebuilt, Hold, Goto, TypeOK, Part, Call
<1>11. ASSUME NEW p \in Proc, DigestBroken(p)  PROVE TypeOK'
  <2>1. Attach(p, Deferred, "digest")  BY <1>11 DEF DigestBroken
  <2>2. shown' \in [Proc -> Seq(Lean)] /\ pc' \in [Proc -> Places]
    BY <2>1, AttachType DEF Lean
  <2>3. next' \in [Proc -> 1..(Len(Book) + 1)]
    BY <1>11, SMTT(30) DEF DigestBroken, Digesting, TypeOK
  <2>. QED  BY <1>11, <2>2, <2>3 DEF DigestBroken, TypeOK
<1>12. ASSUME NEW p \in Proc, DigestFree(p)  PROVE TypeOK'
  <2> DEFINE b == BriefOf(next[p], night[p])
  <2>1. b \in Brief  BY <1>12, BriefOfType, SMTT(30) DEF DigestFree, Digesting, TypeOK, Item
  <2>2. PICK a \in Action \cup {Abstain} : Attach(p, Decided(b, a), "commit")
    <3>1. \A d \in CachedDebates(b, night[p]) : d.action \in Action
      BY DEF CachedDebates, TypeOK, Debate
    <3>. QED  BY <1>12, <3>1 DEF DigestFree
  <2>3. Decided(b, a) \in Lean  BY <2>1 DEF Decided, Brief, Lean
  <2>4. shown' \in [Proc -> Seq(Lean)] /\ pc' \in [Proc -> Places]
    BY <2>2, <2>3, AttachType
  <2>. QED  BY <1>12, <2>4 DEF DigestFree, TypeOK
<1>13. ASSUME NEW p \in Proc, DigestFresh(p)  PROVE TypeOK'
  <2> DEFINE b == BriefOf(next[p], night[p])
  <2>1. b \in Brief  BY <1>13, BriefOfType DEF DigestFresh, Arguable, Digesting, TypeOK, Item
  <2>2. PICK a \in Action :
          /\ cache' = cache \cup {[brief |-> b, as_of |-> night[p], action |-> a]}
          /\ Attach(p, Decided(b, a), "commit")
    BY <1>13 DEF DigestFresh
  <2>3. Decided(b, a) \in Lean  BY <2>1 DEF Decided, Brief, Lean
  <2>4. shown' \in [Proc -> Seq(Lean)] /\ pc' \in [Proc -> Places]
    BY <2>2, <2>3, AttachType
  <2>5. cache' \in SUBSET Debate
    <3>1. night[p] \in Day  BY DEF TypeOK
    <3>2. [brief |-> b, as_of |-> night[p], action |-> a] \in Debate
      BY <2>1, <3>1 DEF Debate
    <3>. QED  BY <2>2, <3>2 DEF TypeOK
  <2>6. argued' \in [Proc -> 0..DebateCap]  BY <1>13, SMTT(30) DEF DigestFresh, TypeOK
  <2>. QED  BY <1>13, <2>4, <2>5, <2>6 DEF DigestFresh, TypeOK
<1>14. ASSUME NEW p \in Proc, DigestFails(p)  PROVE TypeOK'
  <2>1. Attach(p, Deferred, "digest")  BY <1>14 DEF DigestFails
  <2>2. shown' \in [Proc -> Seq(Lean)] /\ pc' \in [Proc -> Places]
    BY <2>1, AttachType DEF Lean
  <2>3. next' \in [Proc -> 1..(Len(Book) + 1)]
    BY <1>14, SMTT(30) DEF DigestFails, Arguable, Digesting, TypeOK
  <2>4. PICK quota \in BOOLEAN :
          Fails(p, quota) /\ broken' = [broken EXCEPT ![p] = quota]
    BY <1>14 DEF DigestFails
  <2>5. \/ argued' = argued
        \/ argued[p] < DebateCap /\ argued' = [argued EXCEPT ![p] = @ + 1]
    BY <2>4, Zenon DEF Fails
  <2>6. argued' \in [Proc -> 0..DebateCap]
    <3>1. CASE argued' = argued  BY <3>1 DEF TypeOK
    <3>2. CASE argued[p] < DebateCap /\ argued' = [argued EXCEPT ![p] = @ + 1]
      <4>1. argued \in [Proc -> 0..DebateCap] /\ DebateCap \in Nat  BY DEF TypeOK
      <4>2. argued[p] + 1 \in 0..DebateCap  BY <4>1, <3>2
      <4>. QED  BY <4>1, <4>2, <3>2
    <3>. QED  BY <2>5, <3>1, <3>2
  <2>7. broken' \in [Proc -> BOOLEAN]
    <3>1. broken \in [Proc -> BOOLEAN]  BY DEF TypeOK
    <3>. QED  BY <3>1, <2>4, Zenon
  <2>. QED  BY <1>14, <2>2, <2>3, <2>6, <2>7 DEF DigestFails, TypeOK
<1>15. ASSUME NEW p \in Proc, Commit(p)  PROVE TypeOK'
  BY <1>15, CommitType
<1>16. ASSUME NEW p \in Proc, CloseBuild(p)  PROVE TypeOK'
  BY <1>16 DEF CloseBuild, Goto, TypeOK
<1>17. ASSUME NEW p \in Proc, WriteOutput(p)  PROVE TypeOK'
  <2>1. /\ pc' \in [Proc -> Places] /\ night' \in [Proc -> Day]
        /\ argued' \in [Proc -> 0..DebateCap] /\ broken' \in [Proc -> BOOLEAN]
    BY <1>17 DEF WriteOutput, TypeOK
  <2>2. /\ next' \in [Proc -> 1..(Len(Book) + 1)]
        /\ shown' \in [Proc -> Seq(Lean)]
        /\ logged' \in [Proc -> SUBSET (Code \X Day)]
    BY <1>17 DEF WriteOutput, TypeOK
  <2>. QED  BY <1>17, <2>1, <2>2 DEF WriteOutput, TypeOK
<1>18. CASE UNCHANGED vars  BY <1>18 DEF vars, TypeOK
<1>19. ASSUME NEW p \in Proc,
              StartNightly(p) \/ StartResume(p) \/ StartBackfill(p) \/ StartRun(p)
       PROVE TypeOK'
  <2>1. \E n \in Day, at \in {"check", "open"} : Start(p, n, at)
    BY <1>19, StartsAt
  <2>. QED  BY <2>1, <1>2
<1>. QED
  BY <1>1, <1>3, <1>4, <1>5, <1>6, <1>7, <1>8, <1>9, <1>10, <1>11, <1>12, <1>13,
     <1>14, <1>15, <1>16, <1>17, <1>18, <1>19
     DEF Next, Step


-----------------------------------------------------------------------------
\* A step that moves a process from one place to another, neither of them the
\* commit, and leaves the artifacts and positions alone keeps their shape.
LEMMA ShapeMoves ==
    ASSUME TypeOK, Shape, NEW p \in Proc, NEW at, at # "commit", pc[p] # "commit",
           pc' = [pc EXCEPT ![p] = at], UNCHANGED <<shown, next>>
    PROVE  Shape'
BY DEF Shape, TypeOK

\* A process that ends starts over with an empty artifact.
LEMMA ShapeResets ==
    ASSUME TypeOK, Shape, NEW p \in Proc,
           pc' = [pc EXCEPT ![p] = "idle"], next' = [next EXCEPT ![p] = 1],
           shown' = [shown EXCEPT ![p] = <<>>]
    PROVE  Shape'
BY DEF Shape, TypeOK

\* A lean is attached for the next item: the process stays on the item to
\* commit it, or passes on.
LEMMA ShapeAttaches ==
    ASSUME TypeOK, Shape, NEW p \in Proc, NEW lean \in Lean, Digesting(p),
           \/ Attach(p, lean, "commit") /\ UNCHANGED next
           \/ Attach(p, lean, "digest") /\ next' = [next EXCEPT ![p] = @ + 1]
    PROVE  Shape'
<1>1. Len(Append(shown[p], lean)) = next[p]
  <2>1. shown[p] \in Seq(Lean) /\ Len(shown[p]) = next[p] - 1 /\ next[p] \in Nat
    BY NightlyAssumption DEF Shape, Digesting, TypeOK
  <2>. QED  BY <2>1
<1>2. shown' = [shown EXCEPT ![p] = Append(shown[p], lean)]  BY DEF Attach
<1>3. next[p] \in Item  BY NightlyAssumption DEF Digesting, TypeOK, Item
<1>4. CASE Attach(p, lean, "commit") /\ UNCHANGED next
  BY <1>1, <1>2, <1>3, <1>4 DEF Attach, Goto, Shape, TypeOK
<1>5. CASE Attach(p, lean, "digest") /\ next' = [next EXCEPT ![p] = @ + 1]
  <2>1. next[p] \in Int  BY <1>3 DEF Item
  <2>. QED  BY <1>1, <1>2, <2>1, <1>5 DEF Attach, Goto, Shape, TypeOK
<1>. QED  BY <1>4, <1>5

\* What the digest of an item attaches: a lean in type, to be committed only if
\* a debate on record (or blindness) is behind it.
LEMMA DigestAttaches ==
    ASSUME TypeOK, Shape, NEW p \in Proc,
           DigestBroken(p) \/ DigestFree(p) \/ DigestFresh(p) \/ DigestFails(p)
    PROVE  /\ Digesting(p)
           /\ \E lean \in Lean :
                \/ /\ Attach(p, lean, "commit") /\ UNCHANGED next
                   /\ AttestedLean(next[p], night[p], lean, cache')
                \/ Attach(p, lean, "digest") /\ next' = [next EXCEPT ![p] = @ + 1]
<1> DEFINE b == BriefOf(next[p], night[p])
<1>1. Digesting(p)
  BY DEF DigestBroken, DigestFree, DigestFresh, DigestFails, Arguable
<1>2. Deferred \in Lean  BY DEF Lean
<1>3. CASE DigestBroken(p)  BY <1>1, <1>2, <1>3 DEF DigestBroken
<1>4. CASE DigestFails(p)  BY <1>1, <1>2, <1>4 DEF DigestFails
<1>5. b \in Brief /\ b = [item |-> next[p], seen |-> b.seen]
  <2>1. next[p] \in Item /\ night[p] \in Day
    BY <1>1, NightlyAssumption DEF Digesting, TypeOK, Item
  <2>2. b \in Brief  BY <2>1, BriefOfType
  <2>. QED  BY <2>2 DEF BriefOf
<1>6. \A a \in Action \cup {Abstain} : Decided(b, a) \in Lean
  BY <1>5 DEF Decided, Brief, Lean
<1>7. CASE DigestFree(p)
  <2>1. CASE b.seen = Nothing /\ Attach(p, Decided(b, Abstain), "commit")
    <3>1. AttestedLean(next[p], night[p], Decided(b, Abstain), cache')
      BY <2>1 DEF AttestedLean, Decided
    <3>. QED  BY <1>1, <1>6, <1>7, <2>1, <3>1 DEF DigestFree
  <2>2. ASSUME NEW d \in CachedDebates(b, night[p]), Attach(p, Decided(b, d.action), "commit")
        PROVE  \E lean \in Lean : /\ Attach(p, lean, "commit")
                                  /\ AttestedLean(next[p], night[p], lean, cache')
    <3>1. d \in cache /\ d.brief = b /\ d.as_of =< night[p]  BY DEF CachedDebates
    <3>2. d.action \in Action  BY <3>1 DEF TypeOK, Debate
    <3>3. cache' = cache  BY <1>7 DEF DigestFree, storeVars
    <3>4. AttestedLean(next[p], night[p], Decided(b, d.action), cache')
      BY <3>1, <3>3, <1>5 DEF AttestedLean, Decided
    <3>. QED  BY <2>2, <3>2, <3>4, <1>6
  <2>3. UNCHANGED next  BY <1>7 DEF DigestFree
  <2>. QED  BY <1>1, <1>7, <2>1, <2>2, <2>3 DEF DigestFree
<1>8. CASE DigestFresh(p)
  <2>1. PICK a \in Action :
          /\ cache' = cache \cup {[brief |-> b, as_of |-> night[p], action |-> a]}
          /\ Attach(p, Decided(b, a), "commit")
    BY <1>8 DEF DigestFresh
  <2>2. night[p] \in Int  BY DEF TypeOK, Day
  <2>3. AttestedLean(next[p], night[p], Decided(b, a), cache')
    <3> DEFINE d == [brief |-> b, as_of |-> night[p], action |-> a]
    <3>1. d \in cache'  BY <2>1
    <3>2. d.brief = [item |-> next[p], seen |-> Decided(b, a).seen]
      BY <1>5 DEF Decided
    <3>3. d.as_of =< night[p] /\ d.action = Decided(b, a).action
      BY <2>2 DEF Decided
    <3>. QED  BY <3>1, <3>2, <3>3 DEF AttestedLean
  <2>4. UNCHANGED next  BY <1>8 DEF DigestFresh
  <2>5. Decided(b, a) \in Lean  BY <1>6
  <2>. QED  BY <1>1, <2>1, <2>3, <2>4, <2>5
<1>. QED  BY <1>3, <1>4, <1>7, <1>8

\* The artifact keeps its shape.
LEMMA ShapeStep == TypeOK /\ Shape /\ [Next]_vars => Shape'
<1> SUFFICES ASSUME TypeOK, Shape, [Next]_vars  PROVE Shape'
  OBVIOUS
<1>1. CASE TimePasses \/ UNCHANGED vars
  BY <1>1 DEF TimePasses, procVars, vars, Shape
<1>2. ASSUME NEW p \in Proc,
             StartNightly(p) \/ StartResume(p) \/ StartBackfill(p) \/ StartRun(p)
      PROVE  Shape'
  <2>1. PICK n \in Day, at \in {"check", "open"} : Start(p, n, at)
    BY <1>2, StartsAt
  <2>. QED  BY <2>1, ShapeMoves DEF Start
<1>3. ASSUME NEW p \in Proc, Die(p) \/ WriteOutput(p)  PROVE Shape'
  BY <1>3, ShapeResets DEF Die, WriteOutput
<1>4. ASSUME NEW p \in Proc,
             \/ CheckIngested(p) \/ OpenIngest(p) \/ AppendReadings(p) \/ Disclose(p)
             \/ BuildGraph(p) \/ Materialise(p) \/ CloseBuild(p) \/ OpenBuild(p)
      PROVE  Shape'
  <2>1. \E at : at # "commit" /\ pc' = [pc EXCEPT ![p] = at]
    BY <1>4 DEF CheckIngested, OpenIngest, AppendReadings, Disclose, BuildGraph,
                Materialise, OpenBuild, CloseBuild, Goto
  <2>2. pc[p] # "commit" /\ UNCHANGED <<shown, next>>
    BY <1>4 DEF CheckIngested, OpenIngest, AppendReadings, Disclose, BuildGraph,
                Materialise, OpenBuild, CloseBuild, procVars
  <2>. QED  BY <2>1, <2>2, ShapeMoves
<1>5. ASSUME NEW p \in Proc,
             DigestBroken(p) \/ DigestFree(p) \/ DigestFresh(p) \/ DigestFails(p)
      PROVE  Shape'
  BY <1>5, DigestAttaches, ShapeAttaches
<1>6. ASSUME NEW p \in Proc, Commit(p)  PROVE Shape'
  <2>1. /\ pc[p] = "commit" /\ pc' = [pc EXCEPT ![p] = "digest"]
        /\ next' = [next EXCEPT ![p] = @ + 1] /\ shown' = shown
    BY <1>6 DEF Commit, Goto
  <2>2. next[p] \in Int  BY NightlyAssumption DEF TypeOK
  <2>. QED  BY <2>1, <2>2 DEF Shape, TypeOK
<1>. QED  BY <1>1, <1>2, <1>3, <1>4, <1>5, <1>6 DEF Next, Step

\* Only a commit touches the calls, and no step takes a debate back.
LEMMA OnlyCommitLogs ==
    ASSUME TypeOK, Shape, [Next]_vars
    PROVE  /\ cache \subseteq cache'
           /\ UNCHANGED calls \/ \E p \in Proc : Commit(p) /\ UNCHANGED cache
<1>1. CASE TimePasses \/ UNCHANGED vars
  BY <1>1 DEF TimePasses, storeVars, vars
<1>2. ASSUME NEW p \in Proc,
             StartNightly(p) \/ StartResume(p) \/ StartBackfill(p) \/ StartRun(p)
      PROVE  UNCHANGED <<calls, cache>>
  BY <1>2, StartsAt DEF Start, storeVars
<1>3. ASSUME NEW p \in Proc,
             \/ Die(p) \/ WriteOutput(p) \/ CheckIngested(p) \/ OpenIngest(p)
             \/ AppendReadings(p) \/ Disclose(p) \/ BuildGraph(p) \/ Materialise(p)
             \/ CloseBuild(p) \/ OpenBuild(p)
      PROVE  UNCHANGED <<calls, cache>>
  BY <1>3 DEF CheckIngested, OpenIngest, AppendReadings, Disclose, BuildGraph,
              Materialise, OpenBuild, CloseBuild, WriteOutput, Die, storeVars
<1>4. ASSUME NEW p \in Proc,
             DigestBroken(p) \/ DigestFree(p) \/ DigestFails(p)
      PROVE  UNCHANGED <<calls, cache>>
  BY <1>4 DEF DigestBroken, DigestFree, DigestFails, storeVars
<1>5. ASSUME NEW p \in Proc, DigestFresh(p)
      PROVE  UNCHANGED calls /\ cache \subseteq cache'
  BY <1>5 DEF DigestFresh
<1>6. ASSUME NEW p \in Proc, Commit(p)  PROVE UNCHANGED cache
  BY <1>6 DEF Commit
<1>. QED  BY <1>1, <1>2, <1>3, <1>4, <1>5, <1>6 DEF Next, Step

\* A lean about to be committed stays attested: debates are never taken back.
LEMMA AttestedStep == TypeOK /\ Shape /\ Attested /\ [Next]_vars => Attested'
<1> SUFFICES ASSUME TypeOK, Shape, Attested, [Next]_vars,
                    NEW q \in Proc, pc'[q] = "commit"
             PROVE  AttestedLean(next[q], night[q], shown[q][next[q]], cache)'
  BY DEF Attested
<1>1. cache \subseteq cache'  BY OnlyCommitLogs
<1>2. CASE UNCHANGED <<pc[q], next[q], night[q], shown[q]>>
  BY <1>1, <1>2 DEF Attested, AttestedLean
<1>3. CASE TimePasses \/ UNCHANGED vars
  BY <1>2, <1>3 DEF TimePasses, vars, procVars
<1>4. ASSUME NEW p \in Proc,
             StartNightly(p) \/ StartResume(p) \/ StartBackfill(p) \/ StartRun(p)
      PROVE  UNCHANGED <<pc[q], next[q], night[q], shown[q]>>
  <2>1. PICK n \in Day, at \in {"check", "open"} : Start(p, n, at)
    BY <1>4, StartsAt
  <2>2. p # q  BY <2>1 DEF Start, TypeOK
  <2>. QED  BY <2>1, <2>2 DEF Start, TypeOK
<1>5. ASSUME NEW p \in Proc, Die(p) \/ WriteOutput(p)
      PROVE  UNCHANGED <<pc[q], next[q], night[q], shown[q]>>
  <2>1. p # q  BY <1>5 DEF Die, WriteOutput, TypeOK
  <2>. QED  BY <1>5, <2>1 DEF Die, WriteOutput, TypeOK
<1>6. ASSUME NEW p \in Proc,
             \/ CheckIngested(p) \/ OpenIngest(p) \/ AppendReadings(p) \/ Disclose(p)
             \/ BuildGraph(p) \/ Materialise(p) \/ CloseBuild(p) \/ OpenBuild(p)
             \/ Commit(p)
      PROVE  UNCHANGED <<pc[q], next[q], night[q], shown[q]>>
  <2>1. \E at : at # "commit" /\ pc' = [pc EXCEPT ![p] = at]
    BY <1>6 DEF CheckIngested, OpenIngest, AppendReadings, Disclose, BuildGraph,
                Materialise, OpenBuild, CloseBuild, Commit, Goto
  <2>2. p # q  BY <2>1 DEF TypeOK
  <2>3. UNCHANGED <<night, shown>>
    BY <1>6 DEF CheckIngested, OpenIngest, AppendReadings, Disclose, BuildGraph,
                Materialise, OpenBuild, CloseBuild, Commit, procVars
  <2>4. UNCHANGED next \/ next' = [next EXCEPT ![p] = @ + 1]
    BY <1>6 DEF CheckIngested, OpenIngest, AppendReadings, Disclose, BuildGraph,
                Materialise, OpenBuild, CloseBuild, Commit, procVars
  <2>. QED  BY <2>1, <2>2, <2>3, <2>4 DEF TypeOK
<1>7. ASSUME NEW p \in Proc,
             DigestBroken(p) \/ DigestFree(p) \/ DigestFresh(p) \/ DigestFails(p)
      PROVE  AttestedLean(next[q], night[q], shown[q][next[q]], cache)'
  <2>1. night' = night
    BY <1>7 DEF DigestBroken, DigestFree, DigestFresh, DigestFails
  <2>2. PICK lean \in Lean :
          \/ /\ Attach(p, lean, "commit") /\ UNCHANGED next
             /\ AttestedLean(next[p], night[p], lean, cache')
          \/ Attach(p, lean, "digest") /\ next' = [next EXCEPT ![p] = @ + 1]
    BY <1>7, DigestAttaches
  <2>3. CASE p # q
    BY <1>2, <2>1, <2>2, <2>3 DEF Attach, Goto, TypeOK
  <2>4. CASE p = q
    <3>1. /\ Attach(q, lean, "commit") /\ UNCHANGED next
          /\ AttestedLean(next[q], night[q], lean, cache')
      BY <2>2, <2>4 DEF Attach, Goto, TypeOK
    <3>2. Digesting(q)  BY <1>7, <2>4, DigestAttaches
    <3>3. shown[q] \in Seq(Lean) /\ Len(shown[q]) = next[q] - 1 /\ next[q] \in Nat
      BY <3>2, NightlyAssumption DEF Shape, Digesting, TypeOK
    <3>4. shown'[q] = Append(shown[q], lean)  BY <3>1 DEF Attach, TypeOK
    <3>5. shown'[q][next[q]] = lean  BY <3>3, <3>4
    <3>. QED  BY <3>1, <3>5, <2>1 DEF AttestedLean
  <2>. QED  BY <2>3, <2>4
<1>. QED  BY <1>2, <1>3, <1>4, <1>5, <1>6, <1>7 DEF Next, Step

\* The calls stay named by their id, one per fund and night, and resting on a
\* debate of their night or before.
LEMMA CallsStep ==
    IInv /\ [Next]_vars => IdsName' /\ OneCallPerNight' /\ CallsRestOnTheirNight'
<1> SUFFICES ASSUME IInv, [Next]_vars
             PROVE  IdsName' /\ OneCallPerNight' /\ CallsRestOnTheirNight'
  OBVIOUS
<1> USE DEF IInv
<1>1. cache \subseteq cache'  BY OnlyCommitLogs
<1>2. CASE UNCHANGED calls
  BY <1>1, <1>2 DEF IdsName, OneCallPerNight, CallsRestOnTheirNight
<1>3. ASSUME NEW p \in Proc, NEW k, Commit(p), NewCall(p, k)
      PROVE  IdsName' /\ OneCallPerNight' /\ CallsRestOnTheirNight'
  <2>1. calls' = calls \cup {k} /\ k.id = <<k.code, k.as_of>>  BY <1>3 DEF NewCall
  <2>2. IdsName'  BY <2>1 DEF IdsName
  <2>3. OneCallPerNight'
    <3>1. \A j \in calls : ~(j.code = k.code /\ j.as_of = k.as_of)
      BY <1>3, <2>1 DEF NewCall, IdsName
    <3>. QED  BY <2>1, <3>1 DEF OneCallPerNight
  <2>4. CallsRestOnTheirNight'
    <3>1. k.brief.seen # Nothing => \E d \in cache :
            d.brief = k.brief /\ d.as_of =< k.as_of /\ d.action = k.action
      BY <1>3 DEF NewCall, Commit, Attested, AttestedLean
    <3>. QED  BY <2>1, <3>1, <1>1 DEF CallsRestOnTheirNight
  <2>. QED  BY <2>2, <2>3, <2>4
<1>. QED  BY <1>2, <1>3, OnlyCommitLogs, CommitAdds

\* The inductive invariant.
LEMMA InvInit == Init => IInv
<1> SUFFICES ASSUME Init  PROVE IInv
  OBVIOUS
<1>1. TypeOK  BY TypeInit
<1>2. Shape /\ Attested
  BY DEF Init, Shape, Attested
<1>3. IdsName /\ OneCallPerNight /\ CallsRestOnTheirNight
  BY DEF Init, IdsName, OneCallPerNight, CallsRestOnTheirNight
<1>. QED  BY <1>1, <1>2, <1>3 DEF IInv

\* Every step keeps each part of the invariant.
LEMMA InvStep == IInv /\ [Next]_vars => IInv'
<1> SUFFICES ASSUME IInv, [Next]_vars  PROVE IInv'
  OBVIOUS
<1>. QED  BY TypeStep, ShapeStep, AttestedStep, CallsStep DEF IInv

\* Calls, runs and briefs keep to the invariant, for any book and any runs at once.
THEOREM NightlyInvariant == Spec => []IInv
<1>. QED  BY InvInit, InvStep, PTL DEF Spec

\* Every variable keeps its type and no run argues past its slots.
THEOREM NightlyTypeCorrect == Spec => []TypeOK
<1>1. IInv => TypeOK  BY DEF IInv
<1>. QED  BY <1>1, NightlyInvariant, PTL

\* A fund has at most one call of a night, whichever processes ran.
THEOREM CallsUnique == Spec => []OneCallPerNight
<1>1. IInv => OneCallPerNight  BY DEF IInv
<1>. QED  BY <1>1, NightlyInvariant, PTL

\* No judgment of a later night enters an earlier call.
THEOREM CallsAttested == Spec => []CallsRestOnTheirNight
<1>1. IInv => CallsRestOnTheirNight  BY DEF IInv
<1>. QED  BY <1>1, NightlyInvariant, PTL

\* Only the append of an ingest moves the bars and the views, and it only adds bars.
LEMMA OnlyAppendLearns ==
    ASSUME TypeOK, [Next]_vars
    PROVE  /\ \A c \in Code : bars[c] \subseteq bars'[c]
           /\ UNCHANGED <<bars, view>> \/ \E p \in Proc : AppendReadings(p)
<1>1. CASE TimePasses \/ UNCHANGED vars
  BY <1>1 DEF TimePasses, storeVars, vars
<1>2. ASSUME NEW p \in Proc,
             StartNightly(p) \/ StartResume(p) \/ StartBackfill(p) \/ StartRun(p)
      PROVE  UNCHANGED <<bars, view>>
  BY <1>2, StartsAt DEF Start, storeVars
<1>3. ASSUME NEW p \in Proc,
             \/ Die(p) \/ WriteOutput(p) \/ CheckIngested(p) \/ OpenIngest(p)
             \/ Disclose(p) \/ BuildGraph(p) \/ Materialise(p)
             \/ CloseBuild(p) \/ OpenBuild(p) \/ Commit(p)
      PROVE  UNCHANGED <<bars, view>>
  BY <1>3 DEF CheckIngested, OpenIngest, Disclose, BuildGraph, Commit,
              Materialise, OpenBuild, CloseBuild, WriteOutput, Die, storeVars
<1>4. ASSUME NEW p \in Proc,
             DigestBroken(p) \/ DigestFree(p) \/ DigestFails(p) \/ DigestFresh(p)
      PROVE  UNCHANGED <<bars, view>>
  BY <1>4 DEF DigestBroken, DigestFree, DigestFails, DigestFresh, storeVars
<1>5. ASSUME NEW p \in Proc, AppendReadings(p)
      PROVE  \A c \in Code : bars[c] \subseteq bars'[c]
  BY <1>5 DEF AppendReadings
<1>. QED  BY <1>1, <1>2, <1>3, <1>4, <1>5 DEF Next, Step

\* A step of the nightly job is a step of the trail: it learns of prices, logs
\* one call in time, or is not visible.
LEMMA TrailStep == IInv /\ [Next]_vars => [Trail!TrailNext]_<<bars, calls>>
<1> SUFFICES ASSUME IInv, [Next]_vars  PROVE [Trail!TrailNext]_<<bars, calls>>
  OBVIOUS
<1> USE DEF IInv
<1>1. CASE UNCHANGED calls
  BY <1>1, OnlyAppendLearns DEF Trail!TrailNext, Trail!Learn
<1>2. ASSUME NEW p \in Proc, NEW k, Commit(p), NewCall(p, k)
      PROVE  Trail!TrailNext
  <2>1. UNCHANGED bars  BY <1>2 DEF Commit
  <2>2. \A j \in calls : j.code = k.code => j.as_of # k.as_of
    BY <1>2 DEF NewCall, IdsName
  <2>3. \A d \in bars[k.code] : d =< k.as_of
    <3>1. k.code \in Code /\ k.as_of \in Day  BY <1>2 DEF NewCall, Call
    <3>2. bars[k.code] \subseteq Day  BY <3>1 DEF TypeOK
    <3>3. \A d \in bars[k.code] : ~(d > k.as_of)  BY <1>2 DEF NewCall, WindowOpen
    <3>. QED  BY <3>1, <3>2, <3>3 DEF Day
  <2>4. Trail!Log(k)  BY <1>2, <2>1, <2>2, <2>3 DEF Trail!Log, NewCall
  <2>5. k \in Call  BY <1>2 DEF NewCall
  <2>. QED  BY <2>4, <2>5 DEF Trail!TrailNext
<1>. QED  BY <1>1, <1>2, OnlyCommitLogs, CommitAdds

\* The durable calls implement the audit trail the scorer was promised.
THEOREM NightlyImplementsTrail == Spec => ImplementsTrail
<1>1. Init => Trail!TrailInit  BY DEF Init, Trail!TrailInit
<1>. QED  BY <1>1, TrailStep, NightlyInvariant, PTL DEF Spec, ImplementsTrail, Trail!TrailSpec

-----------------------------------------------------------------------------
(* The artifact and the record *)

\* A lean is the newest judgment knowable at night n of what the seats were
\* shown; a blind item has none and abstains.
Judgment(brief, n, a, debates) ==
    IF brief.seen = Nothing THEN a = Abstain
    ELSE \E d \in debates :
           /\ d.brief = brief /\ d.as_of =< n /\ d.action = a
           /\ \A e \in debates : e.brief = brief /\ e.as_of =< n => e.as_of =< d.as_of

\* A brief is argued at most once a night.
OneDebate == \A d, e \in cache : d.brief = e.brief /\ d.as_of = e.as_of => d = e

ShownJudged == \A p \in Proc : \A i \in DOMAIN shown[p] :
    Judgment([item |-> i, seen |-> shown[p][i].seen], night[p], shown[p][i].action, cache)

CallsJudged == \A k \in calls : Judgment(k.brief, k.as_of, k.action, cache)

\* A process at work in the store holds it.
HeldByOne == \A p \in Proc : pc[p] \in Held => holder = p

\* A process that is not running has an empty artifact.
IdleShowsNothing == \A p \in Proc : pc[p] = "idle" => shown[p] = <<>>

\* The lean about to be committed was attached on what there is to see.
NewestAtCommit == \A p \in Proc : pc[p] = "commit" =>
    shown[p][next[p]].seen = Seen(Book[next[p]], night[p])

RecordInv ==
    /\ OneDebate
    /\ ShownJudged
    /\ CallsJudged
    /\ HeldByOne
    /\ IdleShowsNothing
    /\ NewestAtCommit

\* A brief with no cached debate at a night was never argued by that night.
LEMMA NeverArgued ==
    ASSUME TypeOK, NEW b \in Brief, NEW m \in Day, CachedDebates(b, m) = {}
    PROVE  \A d \in cache : ~(d.brief = b /\ d.as_of =< m)
<1> DEFINE known == {d \in cache : d.brief = b /\ d.as_of =< m}
           dates == {d.as_of : d \in known}
<1> SUFFICES ASSUME known # {}  PROVE FALSE
  OBVIOUS
<1>1. dates \in SUBSET (0..MaxDay) /\ dates # {}
  <2>1. \A d \in known : d.as_of \in 0..MaxDay  BY DEF TypeOK, Debate, Day
  <2>. QED  BY <2>1
<1>2. PICK t \in dates : \A x \in dates : x =< t
  <2> HIDE DEF dates
  <2>. QED  BY <1>1, MaxExists, NightlyAssumption
<1>3. PICK d \in known : d.as_of = t  BY <1>2
<1>4. \A e \in known : e.as_of =< d.as_of  BY <1>2, <1>3
<1>5. d \in CachedDebates(b, m)  BY <1>3, <1>4 DEF CachedDebates
<1>. QED  BY <1>5

\* The only step that adds debates adds one, of a brief its night never had.
NewDebate(d) ==
    /\ d \in Debate
    /\ \A e \in cache : ~(e.brief = d.brief /\ e.as_of =< d.as_of)
    /\ cache' = cache \cup {d}

\* No step takes a debate away, or judges one brief of a night twice.
LEMMA DebatesGrow ==
    ASSUME TypeOK, Shape, [Next]_vars
    PROVE  UNCHANGED cache \/ \E d : NewDebate(d)
<1>1. CASE TimePasses \/ UNCHANGED vars
  BY <1>1 DEF TimePasses, storeVars, vars
<1>2. ASSUME NEW p \in Proc,
             StartNightly(p) \/ StartResume(p) \/ StartBackfill(p) \/ StartRun(p)
      PROVE  UNCHANGED cache
  BY <1>2, StartsAt DEF Start, storeVars
<1>3. ASSUME NEW p \in Proc,
             \/ Die(p) \/ WriteOutput(p) \/ CheckIngested(p) \/ OpenIngest(p)
             \/ AppendReadings(p) \/ Disclose(p) \/ BuildGraph(p) \/ Materialise(p)
             \/ CloseBuild(p) \/ OpenBuild(p) \/ Commit(p)
      PROVE  UNCHANGED cache
  BY <1>3 DEF CheckIngested, OpenIngest, AppendReadings, Disclose, BuildGraph,
              Materialise, OpenBuild, CloseBuild, WriteOutput, Die, Commit, storeVars
<1>4. ASSUME NEW p \in Proc, DigestBroken(p) \/ DigestFree(p) \/ DigestFails(p)
      PROVE  UNCHANGED cache
  BY <1>4 DEF DigestBroken, DigestFree, DigestFails, storeVars
<1>5. ASSUME NEW p \in Proc, DigestFresh(p)  PROVE \E d : NewDebate(d)
  <2> DEFINE b == BriefOf(next[p], night[p])
  <2>1. next[p] \in Item /\ night[p] \in Day
    BY <1>5, NightlyAssumption DEF DigestFresh, Arguable, Digesting, TypeOK, Item
  <2>2. b \in Brief  BY <2>1, BriefOfType
  <2>3. PICK a \in Action :
          cache' = cache \cup {[brief |-> b, as_of |-> night[p], action |-> a]}
    BY <1>5 DEF DigestFresh
  <2>4. CachedDebates(b, night[p]) = {}  BY <1>5 DEF DigestFresh, Arguable
  <2> HIDE DEF b
  <2>5. NewDebate([brief |-> b, as_of |-> night[p], action |-> a])
    BY <2>1, <2>2, <2>3, <2>4, NeverArgued DEF NewDebate, Debate
  <2>. QED  BY <2>5
<1>. QED  BY <1>1, <1>2, <1>3, <1>4, <1>5 DEF Next, Step

\* No brief is argued twice in a night.
LEMMA OneDebateStep == TypeOK /\ Shape /\ OneDebate /\ [Next]_vars => OneDebate'
<1> SUFFICES ASSUME TypeOK, Shape, OneDebate, [Next]_vars  PROVE OneDebate'
  OBVIOUS
<1>1. CASE UNCHANGED cache  BY <1>1 DEF OneDebate
<1>2. ASSUME NEW d, NewDebate(d)  PROVE OneDebate'
  <2>1. \A e \in cache : ~(e.brief = d.brief /\ e.as_of = d.as_of)
    BY <1>2 DEF NewDebate, Debate, Day
  <2>. QED  BY <1>2, <2>1 DEF OneDebate, NewDebate
<1>. QED  BY <1>1, <1>2, DebatesGrow

\* A judgment stands: a debate added later is of a night the brief never had.
LEMMA JudgmentStands ==
    ASSUME TypeOK, Shape, [Next]_vars, NEW b, NEW n \in Day, NEW a, Judgment(b, n, a, cache)
    PROVE  Judgment(b, n, a, cache')
<1>1. CASE UNCHANGED cache \/ b.seen = Nothing  BY <1>1 DEF Judgment
<1>2. ASSUME NEW x, NewDebate(x), b.seen # Nothing  PROVE Judgment(b, n, a, cache')
  <2>1. PICK d \in cache :
          /\ d.brief = b /\ d.as_of =< n /\ d.action = a
          /\ \A e \in cache : e.brief = b /\ e.as_of =< n => e.as_of =< d.as_of
    BY <1>2 DEF Judgment
  <2>2. cache' = cache \cup {x} /\ x.as_of \in Int /\ d.as_of \in Int
    BY <1>2 DEF NewDebate, TypeOK, Debate, Day
  <2>3. x.brief = b => x.as_of =< d.as_of  BY <1>2, <2>1, <2>2 DEF NewDebate
  <2>. QED  BY <1>2, <2>1, <2>2, <2>3 DEF Judgment
<1>. QED  BY <1>1, <1>2, DebatesGrow

\* Two judgments of a brief on a night are one.
LEMMA JudgmentIsOne ==
    ASSUME TypeOK, OneDebate, NEW b, NEW n, NEW a1, NEW a2,
           Judgment(b, n, a1, cache), Judgment(b, n, a2, cache)
    PROVE  a1 = a2
<1>1. CASE b.seen = Nothing  BY <1>1 DEF Judgment
<1>2. CASE b.seen # Nothing
  <2>1. PICK d \in cache :
          /\ d.brief = b /\ d.as_of =< n /\ d.action = a1
          /\ \A e \in cache : e.brief = b /\ e.as_of =< n => e.as_of =< d.as_of
    BY <1>2 DEF Judgment
  <2>2. PICK e \in cache :
          /\ e.brief = b /\ e.as_of =< n /\ e.action = a2
          /\ \A f \in cache : f.brief = b /\ f.as_of =< n => f.as_of =< e.as_of
    BY <1>2 DEF Judgment
  <2>3. d.as_of \in Int /\ e.as_of \in Int  BY DEF TypeOK, Debate, Day
  <2>4. d.as_of = e.as_of  BY <2>1, <2>2, <2>3
  <2>. QED  BY <2>1, <2>2, <2>4 DEF OneDebate
<1>. QED  BY <1>1, <1>2

\* What the digest attaches is the judgment of what the night sees; a
\* lean that is not one is not committed.
LEMMA DigestJudges ==
    ASSUME TypeOK, Shape, NEW p \in Proc, NEW i, NEW n, i = next[p], n = night[p],
           DigestBroken(p) \/ DigestFree(p) \/ DigestFresh(p) \/ DigestFails(p)
    PROVE  \E lean \in Lean :
             /\ shown' = [shown EXCEPT ![p] = Append(@, lean)]
             /\ Judgment([item |-> i, seen |-> lean.seen], n, lean.action, cache')
             /\ \/ /\ pc' = [pc EXCEPT ![p] = "commit"] /\ UNCHANGED next
                   /\ lean.seen = Seen(Book[i], n)
                \/ pc' = [pc EXCEPT ![p] = "digest"]
<1> DEFINE b == BriefOf(i, n)
<1>1. i \in Item /\ n \in Day
  BY NightlyAssumption
     DEF DigestBroken, DigestFree, DigestFresh, DigestFails, Arguable, Digesting, TypeOK, Item
<1>2. CASE DigestBroken(p) \/ DigestFails(p)
  <2>1. Attach(p, Deferred, "digest")  BY <1>2 DEF DigestBroken, DigestFails
  <2>2. Judgment([item |-> i, seen |-> Deferred.seen], n, Deferred.action, cache')
    BY DEF Judgment, Deferred
  <2>. QED  BY <2>1, <2>2 DEF Attach, Goto, Lean
<1>3. b \in Brief /\ b = [item |-> i, seen |-> b.seen] /\ b.seen = Seen(Book[i], n)
  BY <1>1, BriefOfType DEF BriefOf
<1>4. ASSUME NEW a \in Action \cup {Abstain}, Attach(p, Decided(b, a), "commit"),
             UNCHANGED next, Judgment(b, n, a, cache')
      PROVE  \E lean \in Lean :
               /\ shown' = [shown EXCEPT ![p] = Append(@, lean)]
               /\ Judgment([item |-> i, seen |-> lean.seen], n, lean.action, cache')
               /\ pc' = [pc EXCEPT ![p] = "commit"]
               /\ lean.seen = Seen(Book[i], n)
  <2> DEFINE l == Decided(b, a)
  <2> HIDE DEF b
  <2>1. l \in Lean /\ l.seen = b.seen /\ l.action = a
    BY <1>3 DEF Decided, Brief, Lean
  <2>2. shown' = [shown EXCEPT ![p] = Append(@, l)] /\ pc' = [pc EXCEPT ![p] = "commit"]
    BY <1>4 DEF Attach, Goto
  <2>. HIDE DEF l
  <2>3. Judgment([item |-> i, seen |-> l.seen], n, l.action, cache')
    BY <1>3, <1>4, <2>1
  <2>4. l.seen = Seen(Book[i], n)  BY <1>3, <2>1
  <2>. QED  BY <2>1, <2>2, <2>3, <2>4
<1>5. CASE DigestFree(p)
  <2>1. UNCHANGED next /\ UNCHANGED cache  BY <1>5 DEF DigestFree, storeVars
  <2>2. CASE b.seen = Nothing /\ Attach(p, Decided(b, Abstain), "commit")
    <3>1. Judgment(b, n, Abstain, cache')  BY <2>2 DEF Judgment
    <3>. QED  BY <1>4, <2>1, <2>2, <3>1
  <2>3. ASSUME NEW d \in CachedDebates(b, n), b.seen # Nothing,
               Attach(p, Decided(b, d.action), "commit")
        PROVE  \E a \in Action : /\ Attach(p, Decided(b, a), "commit")
                                 /\ Judgment(b, n, a, cache')
    <3> HIDE DEF b
    <3>1. d \in cache /\ d.action \in Action  BY DEF CachedDebates, TypeOK, Debate
    <3>2. Judgment(b, n, d.action, cache')  BY <2>1, <2>3, <3>1 DEF CachedDebates, Judgment
    <3>. QED  BY <2>3, <3>1, <3>2
  <2>4. \/ b.seen = Nothing /\ Attach(p, Decided(b, Abstain), "commit")
        \/ b.seen # Nothing /\ \E d \in CachedDebates(b, n) : Attach(p, Decided(b, d.action), "commit")
    BY <1>5 DEF DigestFree
  <2>. HIDE DEF b
  <2>5. CASE b.seen # Nothing /\ \E d \in CachedDebates(b, n) : Attach(p, Decided(b, d.action), "commit")
    <3>1. PICK a \in Action : /\ Attach(p, Decided(b, a), "commit")
                              /\ Judgment(b, n, a, cache')
      BY <2>3, <2>5
    <3>. QED  BY <1>4, <2>1, <3>1
  <2>. QED  BY <2>2, <2>4, <2>5
<1>6. CASE DigestFresh(p)
  <2>1. PICK a \in Action :
          /\ cache' = cache \cup {[brief |-> b, as_of |-> n, action |-> a]}
          /\ Attach(p, Decided(b, a), "commit")
    BY <1>6 DEF DigestFresh
  <2>2. b.seen # Nothing /\ CachedDebates(b, n) = {} /\ UNCHANGED next
    BY <1>6 DEF DigestFresh, Arguable
  <2> HIDE DEF b
  <2>3. \A e \in cache : ~(e.brief = b /\ e.as_of =< n)
    BY <1>1, <1>3, <2>2, NeverArgued
  <2>4. Judgment(b, n, a, cache')
    <3> DEFINE x == [brief |-> b, as_of |-> n, action |-> a]
    <3>1. x \in cache' /\ x.brief = b /\ x.as_of =< n /\ x.action = a
      BY <2>1, <1>1 DEF Day
    <3>2. \A e \in cache' : e.brief = b /\ e.as_of =< n => e.as_of =< x.as_of
      BY <2>1, <2>3, <3>1
    <3> HIDE DEF x
    <3>. QED  BY <2>2, <3>1, <3>2 DEF Judgment
  <2>. QED  BY <1>4, <2>1, <2>2, <2>4
<1>. QED  BY <1>2, <1>5, <1>6

\* What a step does to one process: nothing its artifact shows, a start, an end,
\* or the attachment of one lean.
Stays(q) ==
    /\ UNCHANGED <<shown[q], night[q]>>
    /\ pc'[q] = "commit" => pc[q] = "commit" /\ UNCHANGED next[q]
    /\ pc'[q] = "idle" => pc[q] = "idle"
Starts(q) == pc[q] = "idle" /\ pc'[q] \in {"check", "open"} /\ UNCHANGED shown[q]
Ends(q) == pc'[q] = "idle" /\ shown'[q] = <<>>
Attaches(q) ==
    /\ pc[q] = "digest" /\ UNCHANGED <<night[q], bars, view>>
    /\ \E lean \in Lean :
         /\ shown'[q] = Append(shown[q], lean)
         /\ Judgment([item |-> next[q], seen |-> lean.seen], night[q], lean.action, cache')
         /\ \/ /\ pc'[q] = "commit" /\ UNCHANGED next[q]
               /\ lean.seen = Seen(Book[next[q]], night[q])
            \/ pc'[q] = "digest"

\* A run stays, starts a night, ends it, or attaches the lean of its next fund.
LEMMA ProcessStep ==
    ASSUME TypeOK, Shape, [Next]_vars, NEW q \in Proc
    PROVE  Stays(q) \/ Starts(q) \/ Ends(q) \/ Attaches(q)
<1>1. CASE TimePasses \/ UNCHANGED vars
  BY <1>1 DEF TimePasses, vars, procVars, Stays
<1>2. ASSUME NEW p \in Proc,
             StartNightly(p) \/ StartResume(p) \/ StartBackfill(p) \/ StartRun(p)
      PROVE  Stays(q) \/ Starts(q)
  <2>1. PICK n \in Day, at \in {"check", "open"} : Start(p, n, at)
    BY <1>2, StartsAt
  <2>2. CASE p = q  BY <2>1, <2>2 DEF Start, TypeOK, Starts
  <2>3. CASE p # q  BY <2>1, <2>3 DEF Start, TypeOK, Stays
  <2>. QED  BY <2>2, <2>3
<1>3. ASSUME NEW p \in Proc, Die(p) \/ WriteOutput(p)  PROVE Stays(q) \/ Ends(q)
  <2>1. CASE p = q  BY <1>3, <2>1 DEF Die, WriteOutput, TypeOK, Ends
  <2>2. CASE p # q  BY <1>3, <2>2 DEF Die, WriteOutput, TypeOK, Stays
  <2>. QED  BY <2>1, <2>2
<1>4. ASSUME NEW p \in Proc,
             \/ CheckIngested(p) \/ OpenIngest(p) \/ AppendReadings(p) \/ Disclose(p)
             \/ BuildGraph(p) \/ Materialise(p) \/ CloseBuild(p) \/ OpenBuild(p)
             \/ Commit(p)
      PROVE  Stays(q)
  <2>1. \E at : at \notin {"commit", "idle"} /\ pc' = [pc EXCEPT ![p] = at]
    BY <1>4 DEF CheckIngested, OpenIngest, AppendReadings, Disclose, BuildGraph,
                Materialise, OpenBuild, CloseBuild, Commit, Goto
  <2>2. UNCHANGED <<night, shown>>
    BY <1>4 DEF CheckIngested, OpenIngest, AppendReadings, Disclose, BuildGraph,
                Materialise, OpenBuild, CloseBuild, Commit, procVars
  <2>3. UNCHANGED next \/ next' = [next EXCEPT ![p] = @ + 1]
    BY <1>4 DEF CheckIngested, OpenIngest, AppendReadings, Disclose, BuildGraph,
                Materialise, OpenBuild, CloseBuild, Commit, procVars
  <2>. QED  BY <2>1, <2>2, <2>3 DEF TypeOK, Stays
<1>5. ASSUME NEW p \in Proc,
             DigestBroken(p) \/ DigestFree(p) \/ DigestFresh(p) \/ DigestFails(p)
      PROVE  Stays(q) \/ Attaches(q)
  <2>1. UNCHANGED <<night, bars, view>> /\ pc[p] = "digest"
    BY <1>5 DEF DigestBroken, DigestFree, DigestFresh, DigestFails, Arguable,
                Digesting, storeVars
  <2>2. UNCHANGED next \/ next' = [next EXCEPT ![p] = @ + 1]
    BY <1>5 DEF DigestBroken, DigestFree, DigestFresh, DigestFails
  <2>3. PICK lean \in Lean :
          /\ shown' = [shown EXCEPT ![p] = Append(@, lean)]
          /\ Judgment([item |-> next[p], seen |-> lean.seen], night[p], lean.action, cache')
          /\ \/ /\ pc' = [pc EXCEPT ![p] = "commit"] /\ UNCHANGED next
                /\ lean.seen = Seen(Book[next[p]], night[p])
             \/ pc' = [pc EXCEPT ![p] = "digest"]
    BY <1>5, DigestJudges
  <2>4. CASE p = q
    <3>1. shown'[q] = Append(shown[q], lean)  BY <2>3, <2>4 DEF TypeOK
    <3>2. \/ /\ pc'[q] = "commit" /\ UNCHANGED next
             /\ lean.seen = Seen(Book[next[q]], night[q])
          \/ pc'[q] = "digest"
      BY <2>3, <2>4 DEF TypeOK
    <3>. QED  BY <2>1, <2>3, <2>4, <3>1, <3>2 DEF Attaches
  <2>5. CASE p # q
    <3>1. pc'[q] = pc[q] /\ shown'[q] = shown[q]  BY <2>3, <2>5 DEF TypeOK
    <3>2. next'[q] = next[q]  BY <2>2, <2>5 DEF TypeOK
    <3>. QED  BY <2>1, <3>1, <3>2 DEF Stays
  <2>. QED  BY <2>4, <2>5
<1>. QED  BY <1>1, <1>2, <1>3, <1>4, <1>5 DEF Next, Step

\* A process that is not running still shows nothing.
LEMMA IdleStep == TypeOK /\ Shape /\ IdleShowsNothing /\ [Next]_vars => IdleShowsNothing'
<1> SUFFICES ASSUME TypeOK, Shape, IdleShowsNothing, [Next]_vars,
                    NEW q \in Proc, pc'[q] = "idle"
             PROVE  shown'[q] = <<>>
  BY DEF IdleShowsNothing
<1>. QED  BY ProcessStep DEF IdleShowsNothing, Stays, Starts, Ends, Attaches

\* What an artifact shows stays a judgment of its night.
LEMMA ShownStep ==
    TypeOK /\ Shape /\ IdleShowsNothing /\ ShownJudged /\ [Next]_vars => ShownJudged'
<1> SUFFICES ASSUME TypeOK, Shape, IdleShowsNothing, ShownJudged, [Next]_vars,
                    NEW q \in Proc, NEW i \in DOMAIN shown'[q]
             PROVE  Judgment([item |-> i, seen |-> shown'[q][i].seen], night'[q],
                             shown'[q][i].action, cache')
  BY DEF ShownJudged
<1>1. ASSUME i \in DOMAIN shown[q], UNCHANGED night[q], shown'[q][i] = shown[q][i]
      PROVE  Judgment([item |-> i, seen |-> shown'[q][i].seen], night'[q],
                      shown'[q][i].action, cache')
  <2>1. Judgment([item |-> i, seen |-> shown[q][i].seen], night[q], shown[q][i].action, cache)
    BY <1>1 DEF ShownJudged
  <2>2. night[q] \in Day  BY DEF TypeOK
  <2>3. Judgment([item |-> i, seen |-> shown[q][i].seen], night[q], shown[q][i].action, cache')
    BY <2>1, <2>2, JudgmentStands
  <2>. QED  BY <1>1, <2>3
<1>2. CASE Stays(q)  BY <1>1, <1>2 DEF Stays
<1>3. ~Starts(q) /\ ~Ends(q)  BY DEF Starts, Ends, IdleShowsNothing
<1>4. CASE Attaches(q)
  <2>1. PICK lean \in Lean :
          /\ shown'[q] = Append(shown[q], lean)
          /\ Judgment([item |-> next[q], seen |-> lean.seen], night[q], lean.action, cache')
    BY <1>4 DEF Attaches
  <2>2. pc[q] = "digest" /\ UNCHANGED night[q]  BY <1>4 DEF Attaches
  <2>3. shown[q] \in Seq(Lean) /\ Len(shown[q]) = next[q] - 1 /\ next[q] \in Int
    BY <2>2, NightlyAssumption DEF Shape, TypeOK
  <2>4. CASE i = next[q]
    <3>1. shown'[q][i] = lean  BY <2>1, <2>3, <2>4
    <3>. QED  BY <2>1, <2>2, <2>4, <3>1
  <2>5. CASE i # next[q]
    <3>1. i \in DOMAIN shown[q] /\ shown'[q][i] = shown[q][i]  BY <2>1, <2>3, <2>5
    <3>. QED  BY <1>1, <2>2, <3>1
  <2>. QED  BY <2>4, <2>5
<1>. QED  BY <1>2, <1>3, <1>4, ProcessStep

\* What the record says stays a judgment of its night.
LEMMA RecordStep ==
    TypeOK /\ Shape /\ ShownJudged /\ CallsJudged /\ [Next]_vars => CallsJudged'
<1> SUFFICES ASSUME TypeOK, Shape, ShownJudged, CallsJudged, [Next]_vars,
                    NEW k \in calls'
             PROVE  Judgment(k.brief, k.as_of, k.action, cache')
  BY DEF CallsJudged
<1>1. ASSUME k \in calls  PROVE Judgment(k.brief, k.as_of, k.action, cache')
  <2>1. k.as_of \in Day  BY <1>1 DEF TypeOK, Call
  <2>2. Judgment(k.brief, k.as_of, k.action, cache)  BY <1>1 DEF CallsJudged
  <2>. QED  BY <2>1, <2>2, JudgmentStands
<1>2. ASSUME NEW p \in Proc, Commit(p), UNCHANGED cache, NewCall(p, k)
      PROVE  Judgment(k.brief, k.as_of, k.action, cache')
  <2>1. next[p] \in DOMAIN shown[p]
    <3>1. pc[p] = "commit"  BY <1>2 DEF Commit
    <3>2. Len(shown[p]) = next[p] /\ next[p] \in Item /\ shown[p] \in Seq(Lean)
      BY <3>1 DEF Shape, TypeOK
    <3>. QED  BY <3>2 DEF Item
  <2>2. Judgment([item |-> next[p], seen |-> shown[p][next[p]].seen], night[p],
                 shown[p][next[p]].action, cache)
    BY <2>1 DEF ShownJudged
  <2>. QED  BY <1>2, <2>2 DEF NewCall
<1>3. CASE k \notin calls
  <2>1. PICK p \in Proc : Commit(p) /\ UNCHANGED cache
    BY <1>3, OnlyCommitLogs
  <2>2. NewCall(p, k)  BY <1>3, <2>1, CommitAdds DEF NewCall
  <2>. QED  BY <1>2, <2>1, <2>2
<1>. QED  BY <1>1, <1>3

\* The store is held by one process at a time.
LEMMA HeldStep == TypeOK /\ HeldByOne /\ [Next]_vars => HeldByOne'
<1> SUFFICES ASSUME TypeOK, HeldByOne, [Next]_vars  PROVE HeldByOne'
  OBVIOUS
<1> USE DEF HeldByOne, TypeOK
<1>1. CASE TimePasses \/ UNCHANGED vars
  BY <1>1 DEF TimePasses, vars
<1>2. ASSUME NEW p \in Proc,
             StartNightly(p) \/ StartResume(p) \/ StartBackfill(p) \/ StartRun(p)
      PROVE  HeldByOne'
  BY <1>2, StartsAt DEF Start, Held
<1>3. ASSUME NEW p \in Proc, Die(p)  PROVE HeldByOne'
  BY <1>3 DEF Die, Held
<1>4. ASSUME NEW p \in Proc, WriteOutput(p)  PROVE HeldByOne'
  BY <1>4 DEF WriteOutput, Held
<1>5. ASSUME NEW p \in Proc, CheckIngested(p)  PROVE HeldByOne'
  BY <1>5 DEF CheckIngested, Goto, Held
<1>6. ASSUME NEW p \in Proc, OpenIngest(p) \/ OpenBuild(p)  PROVE HeldByOne'
  <2>1. holder = NoProc /\ holder' = p /\ \E at : pc' = [pc EXCEPT ![p] = at]
    BY <1>6 DEF OpenIngest, OpenBuild, Hold, Goto
  <2>2. \A q \in Proc : pc[q] \notin Held  BY <2>1, NightlyAssumption
  <2>. QED  BY <2>1, <2>2
<1>7. ASSUME NEW p \in Proc,
             \/ AppendReadings(p) \/ Disclose(p) \/ BuildGraph(p) \/ Commit(p)
             \/ DigestBroken(p) \/ DigestFree(p) \/ DigestFresh(p) \/ DigestFails(p)
      PROVE  HeldByOne'
  <2>1. pc[p] \in Held /\ UNCHANGED holder /\ \E at : pc' = [pc EXCEPT ![p] = at]
    BY <1>7 DEF AppendReadings, Disclose, BuildGraph, Commit, DigestBroken, DigestFree,
                DigestFresh, DigestFails, Arguable, Digesting, Attach, Goto, Held
  <2>. QED  BY <2>1
<1>8. ASSUME NEW p \in Proc, Materialise(p) \/ CloseBuild(p)  PROVE HeldByOne'
  <2>1. pc[p] \in Held /\ \E at : at \notin Held /\ pc' = [pc EXCEPT ![p] = at]
    BY <1>8 DEF Materialise, CloseBuild, Goto, Held
  <2>2. \A q \in Proc : q # p => pc[q] \notin Held  BY <2>1
  <2>. QED  BY <2>1, <2>2
<1>. QED  BY <1>1, <1>2, <1>3, <1>4, <1>5, <1>6, <1>7, <1>8 DEF Next, Step

\* No bar or view moves under a lean about to be committed: the store is held.
LEMMA NewestStep ==
    TypeOK /\ Shape /\ HeldByOne /\ NewestAtCommit /\ [Next]_vars => NewestAtCommit'
<1> SUFFICES ASSUME TypeOK, Shape, HeldByOne, NewestAtCommit, [Next]_vars,
                    NEW q \in Proc, pc'[q] = "commit"
             PROVE  (shown[q][next[q]].seen = Seen(Book[next[q]], night[q]))'
  BY DEF NewestAtCommit
<1>1. CASE Stays(q)
  <2>1. pc[q] = "commit" /\ UNCHANGED <<shown[q], night[q], next[q]>>
    BY <1>1 DEF Stays
  <2>2. ASSUME NEW p \in Proc, AppendReadings(p)  PROVE FALSE
    <3>1. pc[p] = "gather"  BY <2>2 DEF AppendReadings
    <3>2. holder = p /\ holder = q  BY <2>1, <3>1 DEF HeldByOne, Held
    <3>. QED  BY <2>1, <3>1, <3>2
  <2>3. UNCHANGED <<bars, view>>  BY <2>2, OnlyAppendLearns
  <2>4. NewestBar(Book[next[q]], night[q])' = NewestBar(Book[next[q]], night[q])
    BY <2>1, <2>3 DEF NewestBar
  <2>5. Seen(Book[next[q]], night[q])' = Seen(Book[next[q]], night[q])
    BY <2>1, <2>3, <2>4 DEF Seen
  <2>. QED  BY <2>1, <2>5 DEF NewestAtCommit
<1>2. CASE Attaches(q)
  <2>1. PICK lean \in Lean :
          /\ shown'[q] = Append(shown[q], lean)
          /\ UNCHANGED next[q] /\ lean.seen = Seen(Book[next[q]], night[q])
    BY <1>2 DEF Attaches
  <2>2. pc[q] = "digest" /\ UNCHANGED <<night[q], bars, view>>  BY <1>2 DEF Attaches
  <2>3. shown[q] \in Seq(Lean) /\ Len(shown[q]) = next[q] - 1 /\ next[q] \in Int
    BY <2>2, NightlyAssumption DEF Shape, TypeOK
  <2>4. shown'[q][next[q]] = lean  BY <2>1, <2>3
  <2>5. NewestBar(Book[next[q]], night[q])' = NewestBar(Book[next[q]], night[q])
    BY <2>1, <2>2 DEF NewestBar
  <2>6. Seen(Book[next[q]], night[q])' = Seen(Book[next[q]], night[q])
    BY <2>1, <2>2, <2>5 DEF Seen
  <2>. QED  BY <2>1, <2>4, <2>6
<1>. QED  BY <1>1, <1>2, ProcessStep DEF Starts, Ends

\* The invariant of the record holds with the nightly's own.
LEMMA RecordInit == Init => RecordInv
BY DEF Init, RecordInv, OneDebate, ShownJudged, CallsJudged, HeldByOne, Held,
       IdleShowsNothing, NewestAtCommit

\* Every step keeps the record's invariant, in the nightly's.
LEMMA RecordInvStep == IInv /\ RecordInv /\ [Next]_vars => RecordInv'
BY OneDebateStep, ShownStep, RecordStep, HeldStep, IdleStep, NewestStep
   DEF IInv, RecordInv

\* Each brief of a night has one debate, which every lean shown or logged of it rests on.
THEOREM RecordInvariant == Spec => []RecordInv
<1>. QED  BY RecordInit, RecordInvStep, NightlyInvariant, PTL DEF Spec

\* A re-run or a resume shows the committed lean again on the same brief: both
\* are the judgment of that brief on that night, and there is only one.
THEOREM ArtifactAgrees == Spec => []ArtifactMatchesRecord
<1>1. IInv /\ RecordInv => ArtifactMatchesRecord
  <2> SUFFICES ASSUME IInv, RecordInv, NEW p \in Proc, NEW i \in DOMAIN shown[p],
                      NEW k \in calls, k.as_of = night[p],
                      k.brief = [item |-> i, seen |-> shown[p][i].seen]
               PROVE  k.action = shown[p][i].action
    BY DEF ArtifactMatchesRecord
  <2>1. Judgment(k.brief, night[p], shown[p][i].action, cache)
    BY DEF RecordInv, ShownJudged
  <2>2. Judgment(k.brief, night[p], k.action, cache)
    BY DEF RecordInv, CallsJudged
  <2>. QED  BY <2>1, <2>2, JudgmentIsOne DEF IInv, RecordInv
<1>. QED  BY <1>1, NightlyInvariant, RecordInvariant, PTL

\* An abstention enters the record only for an item the night is blind on.
THEOREM AbstentionsAreBlind == Spec => NoCallForNonDecision
<1>1. ASSUME IInv, RecordInv, [Next]_vars,
             NEW k \in calls' \ calls, k.action = Abstain
      PROVE  Seen(k.code, k.as_of) = Nothing
  <2> USE <1>1 DEF IInv, RecordInv
  <2>1. PICK p \in Proc : Commit(p) /\ UNCHANGED cache  BY OnlyCommitLogs
  <2>2. NewCall(p, k)  BY <2>1, CommitAdds DEF NewCall
  <2>3. pc[p] = "commit"  BY <2>1 DEF Commit
  <2>4. k.brief.seen = Seen(k.code, k.as_of)
    BY <2>2, <2>3 DEF NewCall, NewestAtCommit
  <2>5. k.brief.seen = Nothing
    <3>1. CallsJudged'  BY RecordInvStep
    <3>2. Judgment(k.brief, k.as_of, Abstain, cache')  BY <1>1, <3>1 DEF CallsJudged
    <3>3. cache' \subseteq Debate  BY <2>1 DEF TypeOK
    <3>. QED  BY <3>2, <3>3, NightlyAssumption DEF Judgment, Debate
  <2>. QED  BY <2>4, <2>5
<1>2. IInv /\ RecordInv /\ [Next]_vars =>
        [\A k \in calls' \ calls : k.action = Abstain => Seen(k.code, k.as_of) = Nothing]_vars
  BY <1>1
<1>. QED  BY <1>2, NightlyInvariant, RecordInvariant, PTL DEF Spec, NoCallForNonDecision
=============================================================================
