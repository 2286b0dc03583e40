---------------------------- MODULE EmergingProofs ----------------------------
(***************************************************************************)
(* What the emerging list promises, for any disclosures, listings, corpora, *)
(* books and cheap reads.                                                   *)
(*                                                                         *)
(* Two facts carry it. A series has one row per key, date and stamp         *)
(* (EmergingInvariant), so what is read back as of a date is one row per    *)
(* key, a theme has one candidate per fund, and the funnel's sort keys      *)
(* order its candidates totally: every rank is taken (RankTaken). And the   *)
(* greedy pass over a sorted sequence keeps a sorted subsequence and leaves *)
(* out only a repeat or what found the places taken (KeepPasses).           *)
(***************************************************************************)
EXTENDS Emerging, FiniteSetTheorems, SequenceTheorems, WellFoundedInduction, TLAPS

-----------------------------------------------------------------------------
(* Sorting by rank *)

\* R orders S totally.
Orders(R, S) ==
    /\ \A s \in S : <<s, s>> \notin R
    /\ \A s, t, u \in S : <<s, t>> \in R /\ <<t, u>> \in R => <<s, u>> \in R
    /\ \A s, t \in S : s # t => <<s, t>> \in R \/ <<t, s>> \in R

Under(R, S, s) == {o \in S : <<o, s>> \in R}

\* The rank grows along the order.
LEMMA RankGrows ==
    ASSUME NEW S, IsFiniteSet(S), NEW R, Orders(R, S),
           NEW s \in S, NEW t \in S, <<s, t>> \in R
    PROVE  /\ Cardinality(Under(R, S, s)) \in Nat /\ Cardinality(Under(R, S, t)) \in Nat
           /\ Cardinality(Under(R, S, s)) < Cardinality(Under(R, S, t))
<1> DEFINE A == Under(R, S, s)
           B == Under(R, S, t)
<1>1. A \in SUBSET S /\ B \in SUBSET S  BY DEF Under
<1>2. IsFiniteSet(A) /\ IsFiniteSet(B)  BY <1>1, FS_Subset
<1>3. Cardinality(A) \in Nat /\ Cardinality(B) \in Nat  BY <1>2, FS_CardinalityType
<1>4. s \notin A  BY DEF Under, Orders
<1>5. A \cup {s} \in SUBSET B  BY DEF Under, Orders
<1> HIDE DEF A, B
<1>6. Cardinality(A \cup {s}) = Cardinality(A) + 1  BY <1>2, <1>4, FS_AddElement
<1>7. Cardinality(A \cup {s}) =< Cardinality(B)  BY <1>2, <1>5, FS_Subset
<1>8. Cardinality(A) < Cardinality(B)  BY <1>3, <1>6, <1>7
<1>. QED  BY <1>3, <1>8 DEF A, B

\* Every rank is taken, and by one element.
LEMMA RankTaken ==
    ASSUME NEW S, IsFiniteSet(S), NEW R, Orders(R, S)
    PROVE  /\ Cardinality(S) \in Nat
           /\ \A s \in S : Cardinality(Under(R, S, s)) + 1 \in 1..Cardinality(S)
           /\ \A s, t \in S : Cardinality(Under(R, S, s)) = Cardinality(Under(R, S, t)) => s = t
           /\ \A i \in 1..Cardinality(S) : \E s \in S : Cardinality(Under(R, S, s)) = i - 1
<1> DEFINE n == Cardinality(S)
           rank(s) == Cardinality(Under(R, S, s)) + 1
           f == [s \in S |-> rank(s)]
<1>1. n \in Nat  BY FS_CardinalityType
<1>2. ASSUME NEW s \in S  PROVE rank(s) \in 1..n
  <2>1. Under(R, S, s) \in SUBSET (S \ {s})  BY DEF Under, Orders
  <2>2. IsFiniteSet(S \ {s}) /\ Cardinality(S \ {s}) = n - 1  BY FS_RemoveElement
  <2>3. IsFiniteSet(Under(R, S, s)) /\ Cardinality(Under(R, S, s)) =< n - 1
    BY <2>1, <2>2, FS_Subset
  <2>4. Cardinality(Under(R, S, s)) \in Nat  BY <2>3, FS_CardinalityType
  <2>. QED  BY <1>1, <2>3, <2>4
<1>3. ASSUME NEW s \in S, NEW t \in S,
             Cardinality(Under(R, S, s)) = Cardinality(Under(R, S, t))
      PROVE  s = t
  <2>1. <<s, t>> \notin R
    <3>. SUFFICES ASSUME <<s, t>> \in R  PROVE FALSE  OBVIOUS
    <3>1. /\ Cardinality(Under(R, S, s)) \in Nat
          /\ Cardinality(Under(R, S, s)) < Cardinality(Under(R, S, t))
      BY RankGrows
    <3>. QED  BY <3>1, <1>3
  <2>2. <<t, s>> \notin R
    <3>. SUFFICES ASSUME <<t, s>> \in R  PROVE FALSE  OBVIOUS
    <3>1. /\ Cardinality(Under(R, S, t)) \in Nat
          /\ Cardinality(Under(R, S, t)) < Cardinality(Under(R, S, s))
      BY RankGrows
    <3>. QED  BY <3>1, <1>3
  <2>. QED  BY <2>1, <2>2 DEF Orders
<1>4. IsFiniteSet(1..n) /\ Cardinality(1..n) = n  BY <1>1, FS_Interval
<1>5. \A s \in S : Cardinality(Under(R, S, s)) \in Nat
  BY RankGrows, FS_Subset, FS_CardinalityType DEF Under
<1>6. f \in Injection(S, 1..n)
  <2>1. f \in [S -> 1..n]  BY <1>2
  <2>2. ASSUME NEW s \in S, NEW t \in S, f[s] = f[t]  PROVE s = t
    <3>1. rank(s) = rank(t)  BY <2>2
    <3>2. Cardinality(Under(R, S, s)) = Cardinality(Under(R, S, t))  BY <3>1, <1>5
    <3>. QED  BY <3>2, <1>3
  <2> HIDE DEF f, n
  <2>. QED  BY <2>1, <2>2 DEF Injection, IsInjective
<1>7. f \in Surjection(S, 1..n)
  <2> HIDE DEF f
  <2>. QED  BY <1>4, <1>6, FS_Injection
<1>8. ASSUME NEW i \in 1..n  PROVE \E s \in S : Cardinality(Under(R, S, s)) = i - 1
  <2>1. PICK s \in S : f[s] = i
    <3> HIDE DEF f, n
    <3>. QED  BY <1>7 DEF Surjection
  <2>2. Cardinality(Under(R, S, s)) + 1 = i  BY <2>1
  <2>. QED  BY <2>2, <1>5
<1>. QED  BY <1>1, <1>2, <1>3, <1>8

\* The element of a rank.
LEMMA RankOf ==
    ASSUME NEW S, IsFiniteSet(S), NEW R, Orders(R, S), NEW i \in 1..Cardinality(S)
    PROVE  \E s \in S : Cardinality(Under(R, S, s)) = i - 1
BY RankTaken

\* q lists the elements of S in the order R.
Lists(q, R, S) ==
    /\ q \in Seq(S)
    /\ \A i, j \in DOMAIN q : i < j => <<q[i], q[j]>> \in R
    /\ \A s \in S : \E i \in DOMAIN q : q[i] = s

\* A sequence that has each element at its rank lists the set in order.
LEMMA RankedLists ==
    ASSUME NEW S, IsFiniteSet(S), NEW R, Orders(R, S),
           NEW q \in [1..Cardinality(S) -> S],
           \A i \in 1..Cardinality(S) : Cardinality(Under(R, S, q[i])) = i - 1
    PROVE  Lists(q, R, S)
<1> DEFINE n == Cardinality(S)
<1>1. /\ n \in Nat
      /\ \A s \in S : Cardinality(Under(R, S, s)) + 1 \in 1..n
      /\ \A s, t \in S : Cardinality(Under(R, S, s)) = Cardinality(Under(R, S, t)) => s = t
  BY RankTaken
<1>2. q \in Seq(S) /\ DOMAIN q = 1..n  BY <1>1
<1>3. \A s \in S : Cardinality(Under(R, S, s)) \in Nat
  BY FS_Subset, FS_CardinalityType DEF Under
<1> HIDE DEF n
<1>4. ASSUME NEW i \in 1..n, NEW j \in 1..n, i < j  PROVE <<q[i], q[j]>> \in R
  <2>1. q[i] \in S /\ q[j] \in S  BY DEF n
  <2>2. q[i] # q[j]
    <3>1. Cardinality(Under(R, S, q[i])) = i - 1 /\ Cardinality(Under(R, S, q[j])) = j - 1
      BY DEF n
    <3>. QED  BY <3>1, <1>4, <1>1
  <2>3. CASE <<q[j], q[i]>> \in R
    <3>1. Cardinality(Under(R, S, q[j])) < Cardinality(Under(R, S, q[i]))
      BY <2>1, <2>3, RankGrows
    <3>2. j - 1 < i - 1  BY <3>1 DEF n
    <3>. QED  BY <3>2, <1>4, <1>1
  <2>. QED  BY <2>1, <2>2, <2>3 DEF Orders
<1>5. ASSUME NEW s \in S  PROVE \E i \in 1..n : q[i] = s
  <2> DEFINE i == Cardinality(Under(R, S, s)) + 1
  <2>1. i \in 1..n /\ Cardinality(Under(R, S, s)) \in Nat  BY <1>1, <1>3
  <2>2. Cardinality(Under(R, S, q[i])) = i - 1  BY <2>1 DEF n
  <2>3. Cardinality(Under(R, S, q[i])) = Cardinality(Under(R, S, s))  BY <2>1, <2>2
  <2>4. q[i] \in S  BY <2>1 DEF n
  <2>5. q[i] = s  BY <1>1, <2>3, <2>4
  <2>. QED  BY <2>1, <2>5
<1>. QED  BY <1>2, <1>4, <1>5 DEF Lists

\* A finite set that is not empty has a last element.
LEMMA LastOf ==
    ASSUME NEW S, IsFiniteSet(S), S # {}, NEW R, Orders(R, S)
    PROVE  \E s \in S : \A t \in S : t = s \/ <<t, s>> \in R
<1>1. Cardinality(S) \in Nat /\ Cardinality(S) # 0  BY FS_CardinalityType, FS_EmptySet
<1>2. PICK s \in S : Cardinality(Under(R, S, s)) = Cardinality(S) - 1
  <2>1. Cardinality(S) \in 1..Cardinality(S)  BY <1>1
  <2>. QED  BY <2>1, RankTaken
<1>3. ASSUME NEW t \in S  PROVE t = s \/ <<t, s>> \in R
  <2>1. <<s, t>> \notin R
    <3>. SUFFICES ASSUME <<s, t>> \in R  PROVE FALSE  OBVIOUS
    <3>1. Cardinality(Under(R, S, s)) < Cardinality(Under(R, S, t))  BY RankGrows
    <3>2. Cardinality(Under(R, S, t)) + 1 \in 1..Cardinality(S)  BY RankTaken
    <3>3. Cardinality(Under(R, S, t)) \in Nat  BY RankGrows
    <3>. QED  BY <3>1, <3>2, <3>3, <1>1, <1>2
  <2>. QED  BY <2>1 DEF Orders
<1>. QED  BY <1>3

\* A finite set of integers has a maximum.
LEMMA MaxIn ==
    ASSUME NEW S, IsFiniteSet(S), S \subseteq Int, S # {}
    PROVE  Max(S) \in S /\ \A y \in S : Max(S) >= y
<1> DEFINE R == {p \in S \X S : p[1] < p[2]}
<1>1. Orders(R, S)  BY DEF Orders
<1>2. PICK s \in S : \A t \in S : t = s \/ <<t, s>> \in R
  <2> HIDE DEF R
  <2>. QED  BY <1>1, LastOf
<1>3. ASSUME NEW t \in S  PROVE s >= t
  <2>1. CASE t = s  BY <2>1
  <2>2. CASE <<t, s>> \in R  BY <2>2
  <2>. QED  BY <2>1, <2>2, <1>2
<1>. QED  BY <1>3 DEF Max

\* The images of a finite set are finitely many.
LEMMA ImageFinite ==
    ASSUME NEW S, IsFiniteSet(S), NEW f
    PROVE  IsFiniteSet({f[x] : x \in S})
<1> DEFINE T == {f[x] : x \in S}
           g == [x \in S |-> f[x]]
<1>1. g \in Surjection(S, T)  BY DEF Surjection
<1> HIDE DEF g, T
<1>2. IsFiniteSet(T)  BY <1>1, FS_Surjection
<1>. QED  BY <1>2 DEF T

\* Codes in their order are a sequence of codes.
LEMMA AscendingTyped ==
    ASSUME NEW S, IsFiniteSet(S), S \subseteq Int
    PROVE  Ascending(S) \in Seq(S)
<1> DEFINE R == {p \in S \X S : p[1] < p[2]}
<1>1. Orders(R, S)  BY DEF Orders
<1>2. \A s \in S : Under(R, S, s) = {o \in S : o < s}  BY DEF Under
<1> HIDE DEF R
<1>3. ASSUME NEW i \in 1..Cardinality(S)
      PROVE  \E s \in S : Cardinality(Under(R, S, s)) = i - 1
  BY <1>1, RankOf
<1>4. Ascending(S) = [i \in 1..Cardinality(S) |->
                        CHOOSE s \in S : Cardinality({o \in S : o < s}) = i - 1]
  BY DEF Ascending, Sorted
<1>5. ASSUME NEW i \in 1..Cardinality(S)
      PROVE  (CHOOSE s \in S : Cardinality({o \in S : o < s}) = i - 1) \in S
  BY <1>2, <1>3
<1>6. Ascending(S) \in [1..Cardinality(S) -> S]  BY <1>4, <1>5
<1>7. Cardinality(S) \in Nat  BY FS_CardinalityType
<1>. QED  BY <1>6, <1>7

-----------------------------------------------------------------------------
(* Sums over finite sets of integers *)

\* A set with 0 and every successor of its numbers has every number.
LEMMA Induct ==
    ASSUME NEW T, 0 \in T, \A n \in Nat : n \in T => n + 1 \in T
    PROVE  Nat \subseteq T
<1> DEFINE R == OpToRel(<, Nat)
           Bad == {n \in Nat : n \notin T}
<1>1. SUFFICES ASSUME Bad # {}  PROVE FALSE  OBVIOUS
<1>2. IsWellFoundedOn(R, Nat)  BY NatLessThanWellFounded
<1>3. Bad \subseteq Nat  OBVIOUS
<1> HIDE DEF Bad, R
<1>4. PICK n \in Bad : \A m \in Bad : <<m, n>> \notin R
  BY <1>1, <1>2, <1>3, WFMin
<1> USE DEF Bad
<1>5. n \in Nat /\ n \notin T /\ n # 0  OBVIOUS
<1>6. n - 1 \in Nat /\ n - 1 < n  BY <1>5
<1>7. <<n - 1, n>> \in R  BY <1>5, <1>6 DEF R, OpToRel
<1>8. n - 1 \in T  BY <1>4, <1>6, <1>7
<1>. QED  BY <1>5, <1>6, <1>8

\* What MapThenSumSet takes out of a set first.
Pick(s) == CHOOSE x \in s : TRUE

\* One unfolding, over the sets of D, of the function MapThenSumSet is defined by.
Unfold(u, D, f) == [s \in D |-> IF s = {} THEN 0 ELSE u[Pick(s)] + f[s \ {Pick(s)}]]

\* f is that function for the subsets of S.
IsFold(u, S, f) == f = Unfold(u, SUBSET S, f)

Sum(u, S) == MapThenSumSet(LAMBDA j : u[j], S)

TheFold(u, S) == CHOOSE f : IsFold(u, S, f)

\* The sum is the value of that function at the set.
LEMMA SumIsFold == ASSUME NEW u, NEW S  PROVE Sum(u, S) = TheFold(u, S)[S]
BY DEF Sum, TheFold, IsFold, Unfold, MapThenSumSet, MapThenFoldSet, Pick

\* What is taken out of a set was in it.
LEMMA PickIn == ASSUME NEW s, s # {}  PROVE Pick(s) \in s
BY DEF Pick

\* The fold of a finite set exists: it is built up by cardinality.
LEMMA FoldExists ==
    ASSUME NEW u, NEW S, IsFiniteSet(S)
    PROVE  IsFold(u, S, TheFold(u, S))
<1> DEFINE Small(n) == {s \in SUBSET S : Cardinality(s) =< n}
           Done == {n \in Nat : \E f : f = Unfold(u, Small(n), f)}
<1>1. \A s \in SUBSET S : IsFiniteSet(s) /\ Cardinality(s) \in Nat
  BY FS_Subset, FS_CardinalityType
<1>2. 0 \in Done
  <2> DEFINE f == [s \in Small(0) |-> 0]
  <2>1. \A s \in Small(0) : s = {}
    <3>1. ASSUME NEW s \in Small(0)  PROVE s = {}
      <4>1. IsFiniteSet(s) /\ Cardinality(s) = 0  BY <1>1
      <4>. QED  BY <4>1, FS_EmptySet
    <3>. QED  BY <3>1
  <2>2. f = Unfold(u, Small(0), f)  BY <2>1 DEF Unfold
  <2>. QED  BY <2>2
<1>3. ASSUME NEW n \in Nat, n \in Done  PROVE n + 1 \in Done
  <2>1. PICK f : f = Unfold(u, Small(n), f)  BY <1>3
  <2> DEFINE g == Unfold(u, Small(n + 1), f)
  <2>2. \A s \in Small(n) : s \in Small(n + 1) /\ g[s] = f[s]
    <3>1. ASSUME NEW s \in Small(n)  PROVE s \in Small(n + 1)  BY <1>1
    <3>. QED  BY <3>1, <2>1 DEF Unfold
  <2>3. ASSUME NEW s \in Small(n + 1), s # {}  PROVE s \ {Pick(s)} \in Small(n)
    <3>1. Pick(s) \in s  BY <2>3, PickIn
    <3>2. Cardinality(s \ {Pick(s)}) = Cardinality(s) - 1
      BY <3>1, <1>1, FS_RemoveElement
    <3>. QED  BY <3>2, <1>1
  <2>4. g = Unfold(u, Small(n + 1), g)
    <3> HIDE DEF Small
    <3>. QED  BY <2>2, <2>3 DEF Unfold
  <2>5. n + 1 \in Nat  OBVIOUS
  <2> HIDE DEF g, Small
  <2>. QED  BY <2>4, <2>5
<1>4. Nat \subseteq Done
  <2> HIDE DEF Done
  <2>. QED  BY <1>2, <1>3, Induct
<1>5. Cardinality(S) \in Done  BY <1>1, <1>4
<1>6. Small(Cardinality(S)) = SUBSET S  BY FS_Subset
<1>7. \E f : IsFold(u, S, f)  BY <1>5, <1>6 DEF IsFold
<1>. QED  BY <1>7 DEF TheFold

\* A sum of integers is one.
LEMMA SumTyped ==
    ASSUME NEW S, IsFiniteSet(S), NEW u, \A x \in S : u[x] \in Int
    PROVE  Sum(u, S) \in Int
<1> DEFINE f == TheFold(u, S)
           Done == {n \in Nat : \A s \in SUBSET S : Cardinality(s) = n => f[s] \in Int}
<1>1. IsFold(u, S, f)  BY FoldExists
<1>2. \A s \in SUBSET S : IsFiniteSet(s) /\ Cardinality(s) \in Nat
  BY FS_Subset, FS_CardinalityType
<1> HIDE DEF f
<1>3. 0 \in Done
  <2>1. ASSUME NEW s \in SUBSET S, Cardinality(s) = 0  PROVE f[s] \in Int
    <3>1. s = {}  BY <2>1, <1>2, FS_EmptySet
    <3>. QED  BY <3>1, <1>1 DEF IsFold, Unfold
  <2>. QED  BY <2>1
<1>4. ASSUME NEW n \in Nat, n \in Done  PROVE n + 1 \in Done
  <2>1. ASSUME NEW s \in SUBSET S, Cardinality(s) = n + 1  PROVE f[s] \in Int
    <3>1. s # {}
      <4>1. n + 1 # 0  OBVIOUS
      <4>. QED  BY <4>1, <2>1, FS_EmptySet
    <3>2. Pick(s) \in s  BY <3>1, PickIn
    <3>3. Cardinality(s \ {Pick(s)}) = n
      <4>1. Cardinality(s \ {Pick(s)}) = Cardinality(s) - 1
        BY <3>2, <1>2, FS_RemoveElement
      <4>. QED  BY <4>1, <2>1
    <3>4. f[s \ {Pick(s)}] \in Int  BY <3>3, <1>4
    <3>5. f[s] = u[Pick(s)] + f[s \ {Pick(s)}]  BY <3>1, <1>1 DEF IsFold, Unfold
    <3>. QED  BY <3>2, <3>4, <3>5
  <2>. QED  BY <2>1
<1>5. Nat \subseteq Done
  <2> HIDE DEF Done
  <2>. QED  BY <1>3, <1>4, Induct
<1>6. f[S] \in Int  BY <1>2, <1>5
<1>. QED  BY <1>6, SumIsFold DEF f

\* What a portfolio of numbers carries in any names is a number.
LEMMA OverlapTyped ==
    ASSUME NEW portfolio, NEW matching, IsFiniteSet(DOMAIN portfolio),
           \A s \in DOMAIN portfolio : portfolio[s] \in Int
    PROVE  OverlapWith(portfolio, matching).weight \in Int
<1> DEFINE names == DOMAIN portfolio \cap matching
<1>1. IsFiniteSet(names) /\ \A s \in names : portfolio[s] \in Int  BY FS_Subset
<1> HIDE DEF names
<1>2. Sum(portfolio, names) \in Int  BY <1>1, SumTyped
<1>. QED  BY <1>2 DEF Sum, OverlapWith, names

-----------------------------------------------------------------------------
(* The series *)

\* Finitely many rows, one per key, date and stamp.
Stamped(rows) ==
    /\ IsFiniteSet(rows)
    /\ \A r \in rows : r.as_of \in Int /\ r.fetched_at \in Int
    /\ \A r, s \in rows :
         r.key = s.key /\ r.as_of = s.as_of /\ r.fetched_at = s.fetched_at => r = s

\* An append keeps a series that way when the batch is.
LEMMA AppendStamped ==
    ASSUME NEW rows, NEW batch, Stamped(rows), Stamped(batch)
    PROVE  Stamped(AppendTo(rows, batch))
<1> DEFINE new == {r \in batch : Accepts(rows, r)}
<1>1. IsFiniteSet(new)  BY FS_Subset DEF Stamped
<1>2. IsFiniteSet(rows \cup new)  BY <1>1, FS_Union DEF Stamped
<1>3. ASSUME NEW r \in rows, NEW s \in new, r.key = s.key, r.as_of = s.as_of
      PROVE  r.fetched_at # s.fetched_at
  BY <1>3 DEF Accepts, Revisions, SameFact
<1>4. ASSUME NEW r \in rows \cup new, NEW s \in rows \cup new,
             r.key = s.key, r.as_of = s.as_of, r.fetched_at = s.fetched_at
      PROVE  r = s
  BY <1>3, <1>4 DEF Stamped
<1>. QED  BY <1>2, <1>4 DEF Stamped, AppendTo

\* What is read as of a date is one stored row per key, and not of a later date.
LEMMA OneRead ==
    ASSUME NEW rows, Stamped(rows), NEW asOf
    PROVE  /\ \A r \in ReadAsOf(rows, asOf) : r \in rows /\ r.as_of =< asOf
           /\ \A r, s \in ReadAsOf(rows, asOf) : r.key = s.key => r = s
           /\ IsFiniteSet(ReadAsOf(rows, asOf))
<1>1. ReadAsOf(rows, asOf) \in SUBSET rows  BY DEF ReadAsOf
<1>2. IsFiniteSet(ReadAsOf(rows, asOf))  BY <1>1, FS_Subset DEF Stamped
<1>3. \A r, s \in ReadAsOf(rows, asOf) : r.key = s.key => r = s
  BY DEF Stamped, ReadAsOf, NotBefore
<1>. QED  BY <1>2, <1>3 DEF ReadAsOf

\* A fund with a row of the date reads one of the date.
LEMMA ReadOfDate ==
    ASSUME NEW rows, Stamped(rows), NEW r \in rows
    PROVE  \E s \in ReadAsOf(rows, r.as_of) : s.key = r.key /\ s.as_of = r.as_of
<1> DEFINE S == {s \in rows : s.key = r.key /\ s.as_of = r.as_of}
           R == {p \in S \X S : p[1].fetched_at < p[2].fetched_at}
<1>1. IsFiniteSet(S) /\ S # {}  BY FS_Subset DEF Stamped
<1>2. Orders(R, S)  BY DEF Orders, Stamped
<1>3. PICK s \in S : \A t \in S : t = s \/ <<t, s>> \in R
  <2> HIDE DEF R, S
  <2>. QED  BY <1>1, <1>2, LastOf
<1>4. ASSUME NEW t \in S  PROVE t.fetched_at =< s.fetched_at
  <2>1. CASE t = s  BY <2>1 DEF Stamped
  <2>2. CASE <<t, s>> \in R  BY <2>2 DEF Stamped
  <2>. QED  BY <2>1, <2>2, <1>3
<1>5. s \in ReadAsOf(rows, r.as_of)  BY <1>4 DEF ReadAsOf, NotBefore, Stamped
<1>. QED  BY <1>5

-----------------------------------------------------------------------------
(* The greedy pass *)

Places == TopN + NearMissN

\* One read of the pass, after those that gave `kept`.
Extend(kept, s) ==
    IF Len(kept) = Places \/ Redundant(s, kept) THEN kept ELSE Append(kept, s)

\* One unfolding, up to N, of the function Keep is defined by.
UpTo(q, N, f) == [n \in 0..N |-> IF n = 0 THEN <<>> ELSE Extend(f[n - 1], q[n])]

\* The function itself.
TheUpTo(q) == CHOOSE f : f = UpTo(q, Len(q), f)

\* What is kept is its value at the end of the sequence.
LEMMA KeepIs == ASSUME NEW q  PROVE Keep(q) = TheUpTo(q)[Len(q)]
BY DEF Keep, TheUpTo, UpTo, Extend, Places

\* The function exists, one position after the other.
LEMMA UpToExists ==
    ASSUME NEW q, Len(q) \in Nat
    PROVE  TheUpTo(q) = UpTo(q, Len(q), TheUpTo(q))
<1> DEFINE Done == {N \in Nat : \E f : f = UpTo(q, N, f)}
<1>1. 0 \in Done
  <2> DEFINE f == [n \in 0..0 |-> <<>>]
  <2>1. f = UpTo(q, 0, f)  BY DEF UpTo
  <2>. QED  BY <2>1
<1>2. ASSUME NEW N \in Nat, N \in Done  PROVE N + 1 \in Done
  <2>1. PICK f : f = UpTo(q, N, f)  BY <1>2
  <2> DEFINE g == UpTo(q, N + 1, f)
  <2>2. \A n \in 0..N : g[n] = f[n]
    <3>1. ASSUME NEW n \in 0..N  PROVE g[n] = f[n]
      <4>1. n \in 0..(N + 1)  OBVIOUS
      <4>2. UpTo(q, N, f)[n] = UpTo(q, N + 1, f)[n]  BY <4>1 DEF UpTo
      <4>. QED  BY <2>1, <4>2
    <3>. QED  BY <3>1
  <2> HIDE DEF g
  <2>3. \A n \in 0..(N + 1) : n # 0 => g[n - 1] = f[n - 1]
    <3>1. \A n \in 0..(N + 1) : n # 0 => n - 1 \in 0..N  OBVIOUS
    <3>. QED  BY <2>2, <3>1
  <2>4. UpTo(q, N + 1, f) = UpTo(q, N + 1, g)
    <3>1. ASSUME NEW n \in 0..(N + 1)
          PROVE  UpTo(q, N + 1, f)[n] = UpTo(q, N + 1, g)[n]
      BY <2>3 DEF UpTo
    <3>. QED  BY <3>1 DEF UpTo
  <2>5. g = UpTo(q, N + 1, g)  BY <2>4 DEF g
  <2>. QED  BY <2>5
<1>3. Nat \subseteq Done
  <2> HIDE DEF Done
  <2>. QED  BY <1>1, <1>2, Induct
<1>4. Len(q) \in Done  BY <1>3
<1>. QED  BY <1>4 DEF TheUpTo

\* After n reads of q the kept ones are some of them, in the order of q; and each read is
\* kept, or re-buys what a kept one does, or found the places taken by reads before it.
Passed(q, R, S, n, kept) ==
    /\ kept \in Seq(S) /\ Len(kept) =< Places
    /\ \A i \in DOMAIN kept : \E m \in 1..n : kept[i] = q[m]
    /\ \A i, j \in DOMAIN kept : i < j => <<kept[i], kept[j]>> \in R
    /\ \A m \in 1..n :
         \/ \E i \in DOMAIN kept : kept[i] = q[m]
         \/ \E i \in DOMAIN kept : Repeats(q[m], kept[i])
         \/ Len(kept) = Places /\ \A i \in DOMAIN kept : <<kept[i], q[m]>> \in R

\* One more read keeps it that way.
LEMMA ExtendPasses ==
    ASSUME NEW S, NEW R, NEW q \in Seq(S),
           \A i, j \in DOMAIN q : i < j => <<q[i], q[j]>> \in R,
           NEW n \in Nat, n + 1 \in 1..Len(q), NEW kept, Passed(q, R, S, n, kept)
    PROVE  Passed(q, R, S, n + 1, Extend(kept, q[n + 1]))
<1> DEFINE s == q[n + 1]
           longer == Append(kept, s)
<1>0. Len(q) \in Nat /\ DOMAIN q = 1..Len(q)  OBVIOUS
<1>1. s \in S  OBVIOUS
<1>2. /\ kept \in Seq(S) /\ Len(kept) \in Nat /\ DOMAIN kept = 1..Len(kept)
      /\ Len(kept) =< Places /\ Places \in Nat
  BY FunnelAssumption DEF Passed, Places
<1>3. \A i \in DOMAIN kept : <<kept[i], s>> \in R
  <2>1. ASSUME NEW i \in DOMAIN kept  PROVE <<kept[i], s>> \in R
    <3>1. PICK m \in 1..n : kept[i] = q[m]  BY DEF Passed
    <3>2. m \in DOMAIN q /\ n + 1 \in DOMAIN q /\ m < n + 1  BY <1>0
    <3>. QED  BY <3>1, <3>2
  <2>. QED  BY <2>1
<1>4. CASE Len(kept) = Places \/ Redundant(s, kept)
  <2>1. Extend(kept, s) = kept  BY <1>4 DEF Extend
  <2>2. ASSUME NEW m \in 1..(n + 1)
        PROVE  \/ \E i \in DOMAIN kept : kept[i] = q[m]
               \/ \E i \in DOMAIN kept : Repeats(q[m], kept[i])
               \/ Len(kept) = Places /\ \A i \in DOMAIN kept : <<kept[i], q[m]>> \in R
    <3>1. CASE m = n + 1  BY <3>1, <1>3, <1>4 DEF Redundant, Repeats
    <3>2. CASE m # n + 1
      <4>1. m \in 1..n  BY <3>2
      <4>. QED  BY <4>1 DEF Passed
    <3>. QED  BY <3>1, <3>2
  <2>3. \A i \in DOMAIN kept : \E m \in 1..(n + 1) : kept[i] = q[m]
    <3>1. 1..n \subseteq 1..(n + 1)  OBVIOUS
    <3>. QED  BY <3>1 DEF Passed
  <2> HIDE DEF s
  <2>4. Passed(q, R, S, n + 1, kept)  BY <2>2, <2>3 DEF Passed
  <2>. QED  BY <2>1, <2>4 DEF s
<1>5. CASE Len(kept) # Places /\ ~Redundant(s, kept)
  <2>1. Extend(kept, s) = longer  BY <1>5 DEF Extend
  <2>2. /\ longer \in Seq(S) /\ Len(longer) = Len(kept) + 1
        /\ DOMAIN longer = 1..(Len(kept) + 1) /\ longer[Len(kept) + 1] = s
        /\ \A i \in 1..Len(kept) : longer[i] = kept[i]
    BY <1>1, <1>2
  <2> HIDE DEF longer, s
  <2>3. Len(longer) =< Places
    <3>1. Len(kept) # Places  BY <1>5
    <3>2. Len(kept) + 1 =< Places
      <4>1. Len(kept) \in Nat /\ Places \in Nat /\ Len(kept) =< Places  BY <1>2
      <4>. QED  BY <4>1, <3>1
    <3>3. Len(longer) = Len(kept) + 1  BY <2>2
    <3>. QED  BY <3>2, <3>3
  <2>4. \A i \in DOMAIN longer : i \in DOMAIN kept \/ i = Len(kept) + 1  BY <1>2, <2>2
  <2>5. ASSUME NEW i \in DOMAIN longer  PROVE \E m \in 1..(n + 1) : longer[i] = q[m]
    <3>1. CASE i \in DOMAIN kept
      <4>1. PICK m \in 1..n : kept[i] = q[m]  BY <3>1 DEF Passed
      <4>2. m \in 1..(n + 1) /\ longer[i] = q[m]  BY <4>1, <3>1, <1>2, <2>2
      <4>. QED  BY <4>2
    <3>2. CASE i = Len(kept) + 1
      <4>1. n + 1 \in 1..(n + 1) /\ longer[i] = q[n + 1]  BY <3>2, <2>2 DEF s
      <4>. QED  BY <4>1
    <3>. QED  BY <3>1, <3>2, <2>4
  <2>6. ASSUME NEW i \in DOMAIN longer, NEW j \in DOMAIN longer, i < j
        PROVE  <<longer[i], longer[j]>> \in R
    <3>1. i \in DOMAIN kept  BY <2>6, <2>2, <1>2
    <3>2. CASE j \in DOMAIN kept
      <4>1. longer[i] = kept[i] /\ longer[j] = kept[j]  BY <3>1, <3>2, <2>2, <1>2
      <4>. QED  BY <4>1, <3>1, <3>2, <2>6 DEF Passed
    <3>3. CASE j = Len(kept) + 1
      <4>1. longer[i] = kept[i] /\ longer[j] = s  BY <3>1, <3>3, <2>2, <1>2
      <4>. QED  BY <4>1, <3>1, <1>3
    <3>. QED  BY <3>2, <3>3, <2>4
  <2>7. ASSUME NEW m \in 1..(n + 1)
        PROVE  \/ \E i \in DOMAIN longer : longer[i] = q[m]
               \/ \E i \in DOMAIN longer : Repeats(q[m], longer[i])
    <3>1. CASE m = n + 1
      <4>1. Len(kept) + 1 \in DOMAIN longer /\ longer[Len(kept) + 1] = q[m]
        BY <3>1, <2>2, <1>2 DEF s
      <4>. QED  BY <4>1
    <3>2. CASE m # n + 1
      <4>1. m \in 1..n  BY <3>2
      <4>2. \A i \in DOMAIN kept : i \in DOMAIN longer /\ longer[i] = kept[i]
        BY <1>2, <2>2
      <4>. QED  BY <4>1, <4>2, <1>5 DEF Passed
    <3>. QED  BY <3>1, <3>2
  <2>8. Passed(q, R, S, n + 1, longer)  BY <2>2, <2>3, <2>5, <2>6, <2>7 DEF Passed
  <2>. QED  BY <2>1, <2>8 DEF s
<1>. QED  BY <1>4, <1>5

\* And so for the whole sequence.
LEMMA KeepPasses ==
    ASSUME NEW S, NEW R, NEW q \in Seq(S),
           \A i, j \in DOMAIN q : i < j => <<q[i], q[j]>> \in R
    PROVE  Passed(q, R, S, Len(q), Keep(q))
<1> DEFINE f == TheUpTo(q)
           Done == {n \in Nat : n =< Len(q) => Passed(q, R, S, n, f[n])}
<1>0. Len(q) \in Nat  OBVIOUS
<1>1. f = UpTo(q, Len(q), f)  BY <1>0, UpToExists
<1> HIDE DEF f
<1>2. 0 \in Done
  <2>1. f[0] = <<>>  BY <1>0, <1>1 DEF UpTo
  <2>2. Places \in Nat  BY FunnelAssumption DEF Places
  <2>3. Passed(q, R, S, 0, <<>>)  BY <2>2 DEF Passed
  <2>. QED  BY <2>1, <2>3
<1>3. ASSUME NEW n \in Nat, n \in Done  PROVE n + 1 \in Done
  <2>1. SUFFICES ASSUME n + 1 =< Len(q)  PROVE Passed(q, R, S, n + 1, f[n + 1])
    OBVIOUS
  <2>2. n + 1 \in 0..Len(q) /\ n + 1 # 0 /\ (n + 1) - 1 = n  BY <2>1, <1>0
  <2>3. f[n + 1] = Extend(f[n], q[n + 1])  BY <1>1, <2>2 DEF UpTo
  <2>4. Passed(q, R, S, n, f[n])  BY <1>3, <2>1, <1>0
  <2>5. n + 1 \in 1..Len(q)  BY <2>1, <1>0
  <2>6. Passed(q, R, S, n + 1, Extend(f[n], q[n + 1]))  BY <2>4, <2>5, ExtendPasses
  <2>. QED  BY <2>3, <2>6
<1>4. Nat \subseteq Done
  <2> HIDE DEF Done
  <2>. QED  BY <1>2, <1>3, Induct
<1>5. Passed(q, R, S, Len(q), f[Len(q)])  BY <1>0, <1>4
<1>. QED  BY <1>5, KeepIs DEF f

-----------------------------------------------------------------------------
(* The funnel *)

\* Finitely many scores in whole numbers, one per fund.
Scored(S) ==
    /\ IsFiniteSet(S)
    /\ \A s \in S : s.total \in Int /\ s.candidate.code \in Fund
    /\ \A s, t \in S : s.candidate.code = t.candidate.code => s = t

\* The finalists are scores.
LEMMA ScreenTyped ==
    ASSUME NEW S, Scored(S)
    PROVE  ScreenFunds(S) \in Seq(S)
<1> DEFINE R == {p \in S \X S : Better(p[1], p[2])}
           q == Sorted(S, Better)
<1>1. Fund \subseteq Int  BY EmergingAssumption
<1>2. Orders(R, S)
  <2>0. \A s \in S : s.total \in Int /\ s.candidate.code \in Int  BY <1>1 DEF Scored
  <2>1. \A s \in S : ~Better(s, s)  BY <2>0 DEF Better
  <2>2. ASSUME NEW s \in S, NEW t \in S, NEW u \in S, Better(s, t), Better(t, u)
        PROVE  Better(s, u)
    BY <2>0, <2>2 DEF Better
  <2>3. ASSUME NEW s \in S, NEW t \in S, s # t  PROVE Better(s, t) \/ Better(t, s)
    <3>1. s.candidate.code # t.candidate.code  BY <2>3 DEF Scored
    <3>. QED  BY <3>1, <2>0 DEF Better
  <2>. QED  BY <2>1, <2>2, <2>3 DEF Orders
<1>3. \A s \in S : Under(R, S, s) = {o \in S : Better(o, s)}  BY DEF Under
<1>4. IsFiniteSet(S)  BY DEF Scored
<1>5. Cardinality(S) \in Nat  BY <1>4, FS_CardinalityType
<1> HIDE DEF R
<1>6. ASSUME NEW i \in 1..Cardinality(S)
      PROVE  (CHOOSE s \in S : Cardinality({o \in S : Better(o, s)}) = i - 1) \in S
  <2>1. PICK s \in S : Cardinality(Under(R, S, s)) = i - 1  BY <1>2, <1>4, RankOf
  <2>2. Cardinality({o \in S : Better(o, s)}) = i - 1  BY <2>1, <1>3
  <2>. QED  BY <2>2
<1>7. q \in Seq(S)
  <2>1. q = [i \in 1..Cardinality(S) |->
               CHOOSE s \in S : Cardinality({o \in S : Better(o, s)}) = i - 1]
    BY DEF Sorted
  <2>2. q \in [1..Cardinality(S) -> S]  BY <2>1, <1>6
  <2>. QED  BY <2>2, <1>5
<1> HIDE DEF q
<1>8. AtMost(Finalists, Len(q)) \in 0..Len(q)  BY <1>7, FunnelAssumption DEF AtMost
<1>9. \A i \in 1..AtMost(Finalists, Len(q)) : q[i] \in S  BY <1>7, <1>8
<1>10. SubSeq(q, 1, AtMost(Finalists, Len(q))) \in Seq(S)  BY <1>8, <1>9, SubSeqProperties
<1>. QED  BY <1>10 DEF ScreenFunds, q

\* A bucket lies within half a band of its totals.
LEMMA BucketNear ==
    ASSUME NEW x \in Int
    PROVE  /\ TieBucket(x) \in Int
           /\ 2 * x =< 2 * TieBand * TieBucket(x) + TieBand
           /\ 2 * TieBand * TieBucket(x) =< 2 * x + TieBand
<1>1. TieBand = 40000  BY DEF TieBand, SCALE
<1>2. /\ x \div 40000 \in Int /\ x % 40000 \in 0..39999
      /\ x = 40000 * (x \div 40000) + (x % 40000)
  OBVIOUS
<1>. QED  BY <1>1, <1>2 DEF TieBucket

\* What comes first in the sort is not behind by more than a band.
LEMMA BeforeNear ==
    ASSUME NEW s, NEW o, NEW pref, s.total \in Int, o.total \in Int, Before(s, o, pref)
    PROVE  o.total =< s.total + TieBand
<1> DEFINE b == TieBucket(s.total)
           d == TieBucket(o.total)
<1>1. b >= d /\ b \in Int /\ d \in Int  BY BucketNear DEF Before
<1>2. /\ 2 * o.total =< 2 * TieBand * d + TieBand
      /\ 2 * TieBand * b =< 2 * s.total + TieBand
  BY BucketNear
<1>3. TieBand = 40000  BY DEF TieBand, SCALE
<1> HIDE DEF b, d
<1>. QED  BY <1>1, <1>2, <1>3

\* The reads of a date that are shown, each not behind a later one by more than a band,
\* and what happened to each fresh finalist.
SpineHolds(ranked, screened, asOf) ==
    /\ \A i, j \in DOMAIN ranked : i < j => ranked[j].total =< ranked[i].total + TieBand
    /\ \A i \in DOMAIN screened :
         LET s == screened[i]
         IN  IsFresh(s, asOf) =>
               \/ \E m \in DOMAIN ranked : ranked[m] = s
               \/ \E m \in DOMAIN ranked : Repeats(s, ranked[m])
               \/ /\ Len(ranked) = Places
                  /\ \A m \in DOMAIN ranked : s.total =< ranked[m].total + TieBand

\* The re-rank of finalists keeps the spine.
LEMMA RerankHolds ==
    ASSUME NEW S, Scored(S), NEW q \in Seq(S), NEW asOf, NEW pref \in [Fund -> Int]
    PROVE  /\ Rerank(q, asOf, pref) \in Seq(S)
           /\ SpineHolds(Rerank(q, asOf, pref), q, asOf)
<1> DEFINE F == {s \in Range(q) : IsFresh(s, asOf)}
           R == {p \in F \X F : Before(p[1], p[2], pref)}
           u == [i \in 1..Cardinality(F) |->
                   CHOOSE s \in F : Cardinality({o \in F : Before(o, s, pref)}) = i - 1]
           k == Keep(u)
<1>1. F \in SUBSET S  BY DEF Range
<1>2. Scored(F)
  <2>1. IsFiniteSet(F)  BY <1>1, FS_Subset DEF Scored
  <2> HIDE DEF F
  <2>. QED  BY <1>1, <2>1 DEF Scored
<1>3. Rerank(q, asOf, pref) = k  BY DEF Rerank, Sorted
<1>4. \A i \in DOMAIN q : IsFresh(q[i], asOf) => q[i] \in F  BY DEF Range
<1> HIDE DEF F
<1>5. Orders(R, F)
  <2>0. ASSUME NEW s \in F
        PROVE  /\ s.candidate.code \in Int /\ pref[s.candidate.code] \in Int
               /\ TieBucket(s.total) \in Int
    <3>1. s.candidate.code \in Fund /\ s.total \in Int  BY <1>2 DEF Scored
    <3>2. Fund \subseteq Int  BY EmergingAssumption
    <3>. QED  BY <3>1, <3>2, BucketNear
  <2>1. \A s \in F : ~Before(s, s, pref)  BY <2>0 DEF Before
  <2>2. ASSUME NEW s \in F, NEW t \in F, NEW v \in F, Before(s, t, pref), Before(t, v, pref)
        PROVE  Before(s, v, pref)
    BY <2>0, <2>2 DEF Before
  <2>3. ASSUME NEW s \in F, NEW t \in F, s # t
        PROVE  Before(s, t, pref) \/ Before(t, s, pref)
    <3>1. s.candidate.code # t.candidate.code  BY <1>2, <2>3 DEF Scored
    <3>. QED  BY <3>1, <2>0 DEF Before
  <2>. QED  BY <2>1, <2>2, <2>3 DEF Orders
<1>6. \A s \in F : Under(R, F, s) = {o \in F : Before(o, s, pref)}  BY DEF Under
<1>7. \A s, t \in F : <<s, t>> \in R => t.total =< s.total + TieBand
  <2>1. ASSUME NEW s \in F, NEW t \in F, <<s, t>> \in R  PROVE t.total =< s.total + TieBand
    <3>1. Before(s, t, pref)  BY <2>1
    <3>. QED  BY <3>1, <1>2, BeforeNear DEF Scored
  <2>. QED  BY <2>1
<1> HIDE DEF R
<1>8. IsFiniteSet(F) /\ Cardinality(F) \in Nat  BY <1>2, FS_CardinalityType DEF Scored
<1>9. ASSUME NEW i \in 1..Cardinality(F)
      PROVE  u[i] \in F /\ Cardinality(Under(R, F, u[i])) = i - 1
  <2>1. PICK s \in F : Cardinality(Under(R, F, s)) = i - 1  BY <1>5, <1>8, RankOf
  <2>2. Cardinality({o \in F : Before(o, s, pref)}) = i - 1  BY <2>1, <1>6
  <2>3. u[i] \in F /\ Cardinality({o \in F : Before(o, u[i], pref)}) = i - 1  BY <2>2
  <2>. QED  BY <2>3, <1>6
<1>10. u \in [1..Cardinality(F) -> F]  BY <1>9
<1> HIDE DEF u, k
<1>11. Lists(u, R, F)  BY <1>5, <1>8, <1>9, <1>10, RankedLists
<1>12. Passed(u, R, F, Len(u), k)
  <2>1. u \in Seq(F) /\ \A i, j \in DOMAIN u : i < j => <<u[i], u[j]>> \in R
    BY <1>11 DEF Lists
  <2>. QED  BY <2>1, KeepPasses DEF k
<1>13. k \in Seq(F) /\ k \in Seq(S)  BY <1>12, <1>1 DEF Passed
<1>14. ASSUME NEW i \in DOMAIN k, NEW j \in DOMAIN k, i < j
       PROVE  k[j].total =< k[i].total + TieBand
  <2>1. k[i] \in F /\ k[j] \in F  BY <1>13
  <2>. QED  BY <2>1, <1>7, <1>12, <1>14 DEF Passed
<1>15. ASSUME NEW i \in DOMAIN q, IsFresh(q[i], asOf)
       PROVE  \/ \E m \in DOMAIN k : k[m] = q[i]
              \/ \E m \in DOMAIN k : Repeats(q[i], k[m])
              \/ /\ Len(k) = Places
                 /\ \A m \in DOMAIN k : q[i].total =< k[m].total + TieBand
  <2>1. q[i] \in F  BY <1>4, <1>15
  <2>2. PICK n \in DOMAIN u : u[n] = q[i]  BY <2>1, <1>11 DEF Lists
  <2>3. n \in 1..Len(u)  BY <1>11 DEF Lists
  <2>4. \/ \E m \in DOMAIN k : k[m] = u[n]
        \/ \E m \in DOMAIN k : Repeats(u[n], k[m])
        \/ Len(k) = Places /\ \A m \in DOMAIN k : <<k[m], u[n]>> \in R
    BY <2>3, <1>12 DEF Passed
  <2>5. \A m \in DOMAIN k : k[m] \in F  BY <1>13
  <2>. QED  BY <2>1, <2>2, <2>4, <2>5, <1>7
<1>. QED  BY <1>3, <1>13, <1>14, <1>15 DEF SpineHolds

\* What the scorecard reads of a candidate is numbers.
Rated(c) ==
    /\ c.code \in Fund /\ c.methodology \in Int /\ c.aum \in Int /\ c.crowding \in Int
    /\ c.fee \in Int /\ c.tracking_error \in Int /\ c.top10_weight \in Int

\* A total is a whole number.
LEMMA ScoreTyped ==
    ASSUME NEW c, Rated(c), NEW core, core.weight \in Int
    PROVE  ScoreFund(c, core).total \in Int /\ ScoreFund(c, core).candidate = c
<1>1. \A b, x \in Int : AtMost(b, x) \in Int  BY DEF AtMost
<1>2. SCALE \in Int /\ SCALE = 20000  BY DEF SCALE
<1>3. /\ Clamp(c.methodology) \in Int
      /\ Clamp(200 * c.crowding) \in Int
      /\ Clamp(SCALE - 200 * c.top10_weight) \in Int
  BY <1>2 DEF Clamp, AtMost, Rated
<1>4. (SCALE * core.weight) \div OverlapCap \in Int  BY <1>2 DEF OverlapCap
<1>5. (SCALE * c.aum) \div AumRef \in Int  BY <1>2 DEF AumRef, Rated
<1>6. AtMost(SCALE, (SCALE * core.weight) \div OverlapCap) \in Int  BY <1>1, <1>2, <1>4
<1>7. AtMost(SCALE, (SCALE * c.aum) \div AumRef) \in Int  BY <1>1, <1>2, <1>5
<1>8. 200 * c.fee \in Int /\ 200 * c.tracking_error \in Int  BY DEF Rated
<1>9. AtMost(SCALE, 200 * c.fee) \in Int /\ AtMost(SCALE, 200 * c.tracking_error) \in Int
  BY <1>2, <1>8 DEF AtMost
<1>. QED  BY <1>2, <1>3, <1>6, <1>7, <1>9 DEF ScoreFund, Rated

\* One candidate per theme and fund, finitely many.
Candidates(cs) ==
    /\ IsFiniteSet(cs) /\ \A c \in cs : Rated(c)
    /\ \A c, d \in cs : c.theme = d.theme /\ c.code = d.code => c = d

\* A theme's shortlist is of candidates of its date, and keeps the spine.
LEMMA ShortlistHolds ==
    ASSUME NEW t, NEW cs, Candidates(cs), NEW asOf, NEW pref \in [Fund -> Int],
           NEW core, \A f \in Fund : core[f].weight \in Int,
           NEW l \in Shortlist(t, cs, asOf, core, pref)
    PROVE  /\ \A i \in DOMAIN l.funds : l.funds[i].candidate \in cs
           /\ \E S : l.funds \o l.near_misses \in Seq(S) /\ l.screened \in Seq(S)
           /\ SpineHolds(l.funds \o l.near_misses, l.screened, asOf)
<1> DEFINE own == CoarseFilter({c \in cs : c.theme = t.key})
           kept == own \ Vetoed(own, asOf)
           score == [c \in kept |-> ScoreFund(c, core[c.code])]
           S == {ScoreFund(c, core[c.code]) : c \in kept}
           screened == ScreenFunds(S)
           ranked == Rerank(screened, asOf, pref)
           cut == AtMost(TopN, Len(ranked))
<1>1. kept \in SUBSET cs /\ \A c \in kept : c.theme = t.key  BY DEF CoarseFilter, Vetoed
<1>2. IsFiniteSet(kept) /\ \A c \in kept : Rated(c)  BY <1>1, FS_Subset DEF Candidates
<1>3. \A c, d \in kept : c.code = d.code => c = d  BY <1>1 DEF Candidates
<1>4. /\ l.funds = SubSeq(ranked, 1, cut) /\ l.screened = screened
      /\ l.near_misses = SubSeq(ranked, cut + 1, Len(ranked))
  <2> DEFINE vetoed == {c.code : c \in Vetoed(own, asOf)}
             above == SubSeq(ranked, 1, cut)
             below == SubSeq(ranked, cut + 1, Len(ranked))
  <2>1. l = [theme |-> t.key, as_of |-> t.as_of, screened |-> screened,
             n_candidates |-> Cardinality(kept), vetoed |-> vetoed,
             funds |-> above, near_misses |-> below]
    BY Zenon DEF Shortlist
  <2> HIDE DEF vetoed, above, below, screened, kept, ranked, cut
  <2>2. l.funds = above /\ l.screened = screened /\ l.near_misses = below  BY <2>1
  <2>. QED  BY <2>2 DEF above, below
<1> HIDE DEF kept
<1>5. \A s \in S : \E c \in kept : s.candidate = c /\ s.total \in Int
                                 /\ s = ScoreFund(c, core[c.code])
  BY <1>2, ScoreTyped DEF Rated
<1>6. Scored(S)
  <2>1. S = {score[c] : c \in kept}  OBVIOUS
  <2>2. IsFiniteSet(S)
    <3> HIDE DEF S, score
    <3>. QED  BY <1>2, <2>1, ImageFinite
  <2>3. \A s \in S : s.total \in Int /\ s.candidate.code \in Fund
    <3> HIDE DEF S
    <3>. QED  BY <1>2, <1>5 DEF Rated
  <2>4. ASSUME NEW s \in S, NEW u \in S, s.candidate.code = u.candidate.code  PROVE s = u
    <3>1. PICK c \in kept : s.candidate = c /\ s = ScoreFund(c, core[c.code])  BY <1>5
    <3>2. PICK d \in kept : u.candidate = d /\ u = ScoreFund(d, core[d.code])  BY <1>5
    <3>3. c = d  BY <1>3, <2>4, <3>1, <3>2
    <3>. QED  BY <3>1, <3>2, <3>3
  <2> HIDE DEF S
  <2>. QED  BY <2>2, <2>3, <2>4 DEF Scored
<1> HIDE DEF S
<1>7. screened \in Seq(S)  BY <1>6, ScreenTyped
<1> HIDE DEF screened
<1>8. ranked \in Seq(S) /\ SpineHolds(ranked, screened, asOf)  BY <1>6, <1>7, RerankHolds
<1> HIDE DEF ranked
<1>9. cut \in 0..Len(ranked) /\ Len(ranked) \in Nat  BY <1>8, FunnelAssumption DEF AtMost
<1> HIDE DEF cut
<1>10. l.funds \o l.near_misses = ranked
  <2>1. SubSeq(ranked, 1, cut) \o SubSeq(ranked, cut + 1, Len(ranked))
          = SubSeq(ranked, 1, Len(ranked))
    <3>1. 1 \in 1..(Len(ranked) + 1) /\ cut \in (1 - 1)..Len(ranked)
          /\ Len(ranked) \in cut..Len(ranked)
      BY <1>9
    <3>. QED  BY <1>8, <3>1, ConcatAdjacentSubSeq
  <2>2. SubSeq(ranked, 1, Len(ranked)) = ranked  BY <1>8, SubSeqFull
  <2>. QED  BY <1>4, <2>1, <2>2
<1>11. l.funds \in Seq(S)
  <2>1. \A i \in 1..cut : ranked[i] \in S  BY <1>8, <1>9
  <2>2. cut \in Int /\ 1 \in Int  BY <1>9
  <2>3. SubSeq(ranked, 1, cut) \in Seq(S)  BY <2>1, <2>2, SubSeqProperties
  <2>. QED  BY <1>4, <2>3
<1>12. \A i \in DOMAIN l.funds : l.funds[i].candidate \in cs  BY <1>11, <1>5, <1>1
<1>13. l.funds \o l.near_misses \in Seq(S) /\ l.screened \in Seq(S)
  BY <1>4, <1>7, <1>8, <1>10
<1>. QED  BY <1>4, <1>8, <1>10, <1>12, <1>13

-----------------------------------------------------------------------------
(* What the series hold *)

UniverseRow ==
    [key : Fund, as_of : Int, fetched_at : Int,
     payload : [delisting : Int, inception : Int, valid : BOOLEAN]]

\* An end is none, the one the feed announced, or the day the fund was found dropped.
UniverseHolds(w, rows) ==
    /\ Stamped(rows) /\ rows \subseteq UniverseRow
    /\ \A r \in rows : r.payload.delisting \in {0, w.ends[r.key], r.as_of}

ScaleHolds(rows) ==
    Stamped(rows) /\ \A r \in rows : r.key \in Fund /\ r.payload.aum \in Int

Numbers(p) == IsFiniteSet(DOMAIN p) /\ \A s \in DOMAIN p : p[s] \in Int

HoldingsHold(rows) ==
    \A r \in rows : r.key \in Fund /\ r.as_of \in 0..MaxDay /\ Numbers(r.payload)

ThemesHold(rows) == Stamped(rows) /\ \A r \in rows : r.payload.crowding \in Int

\* A mapping row is of its theme and its fund, and stamped with its own date.
MappingHolds(rows) ==
    /\ Stamped(rows)
    /\ \A r \in rows :
         /\ r.key = <<r.payload.theme, r.payload.code>> /\ r.payload.code \in Fund
         /\ r.fetched_at = DerivedStamp(r.as_of)
         /\ r.payload.methodology \in Int /\ r.payload.aum \in Int
         /\ r.payload.crowding \in Int

Holds(w, db) ==
    /\ DOMAIN db = SeriesName
    /\ UniverseHolds(w, db["universe"]) /\ ScaleHolds(db["scale"])
    /\ HoldingsHold(db["holdings"]) /\ ThemesHold(db["themes"])
    /\ MappingHolds(db["mapping"])

\* The inductive invariant: the calendar is within its bound, and every series a run reads
\* has one row per key, date and stamp, of the shape the funnel asks for.
EInv ==
    /\ world \in Worlds /\ clock \in Nat /\ Today \in Day
    /\ Holds(world, store)

\* The behaviour's disclosures are what the adapters parse.
LEMMA WorldParsed == ASSUME world \in Worlds  PROVE Parsed(world)
BY EmergingAssumption

\* An appended series has the rows it had and some of the batch.
LEMMA AppendAdds ==
    ASSUME NEW rows, NEW batch
    PROVE  /\ rows \subseteq AppendTo(rows, batch)
           /\ AppendTo(rows, batch) \subseteq rows \cup batch
BY DEF AppendTo

\* Each series keeps its shape under an append of a batch that has it: the universe,
LEMMA UniverseAppend ==
    ASSUME NEW w, NEW rows, NEW batch, UniverseHolds(w, rows), UniverseHolds(w, batch)
    PROVE  UniverseHolds(w, AppendTo(rows, batch))
<1>1. Stamped(AppendTo(rows, batch))  BY AppendStamped DEF UniverseHolds
<1>. QED  BY <1>1, AppendAdds DEF UniverseHolds

\* the sizes,
LEMMA ScaleAppend ==
    ASSUME NEW rows, NEW batch, ScaleHolds(rows), ScaleHolds(batch)
    PROVE  ScaleHolds(AppendTo(rows, batch))
<1>1. Stamped(AppendTo(rows, batch))  BY AppendStamped DEF ScaleHolds
<1>. QED  BY <1>1, AppendAdds DEF ScaleHolds

\* the filings,
LEMMA HoldingsAppend ==
    ASSUME NEW rows, NEW batch, HoldingsHold(rows), HoldingsHold(batch)
    PROVE  HoldingsHold(AppendTo(rows, batch))
BY AppendAdds DEF HoldingsHold

\* the themes,
LEMMA ThemesAppend ==
    ASSUME NEW rows, NEW batch, ThemesHold(rows), ThemesHold(batch)
    PROVE  ThemesHold(AppendTo(rows, batch))
<1>1. Stamped(AppendTo(rows, batch))  BY AppendStamped DEF ThemesHold
<1>. QED  BY <1>1, AppendAdds DEF ThemesHold

\* and the mapping.
LEMMA MappingAppend ==
    ASSUME NEW rows, NEW batch, MappingHolds(rows), MappingHolds(batch)
    PROVE  MappingHolds(AppendTo(rows, batch))
<1>1. Stamped(AppendTo(rows, batch))  BY AppendStamped DEF MappingHolds
<1>. QED  BY <1>1, AppendAdds DEF MappingHolds

-----------------------------------------------------------------------------
(* What an ingest pulls *)

\* The rows of the pulled list.
LEMMA PulledUniverse ==
    ASSUME world \in Worlds, NEW listed \in SUBSET Fund, NEW asOf \in Int, NEW stamp \in Int
    PROVE  UniverseHolds(world, UniverseRows(listed, asOf, stamp))
<1> DEFINE row == [f \in listed |->
                     Row(f, asOf, stamp, [delisting |-> world.ends[f],
                                          inception |-> world.inception[f],
                                          valid |-> world.source = "fixtures"])]
           rows == UniverseRows(listed, asOf, stamp)
<1>1. rows = {row[f] : f \in listed}  BY DEF UniverseRows
<1>2. IsFiniteSet(listed)  BY FS_Subset, EmergingAssumption
<1>3. IsFiniteSet(rows)
  <2> HIDE DEF row, rows
  <2>. QED  BY <1>1, <1>2, ImageFinite
<1>4. world.ends \in [Fund -> Nat] /\ world.inception \in [Fund -> Int]
  BY WorldParsed DEF Parsed
<1>5. ASSUME NEW f \in listed
      PROVE  /\ row[f] \in UniverseRow /\ row[f].key = f
             /\ row[f].as_of = asOf /\ row[f].fetched_at = stamp
             /\ row[f].payload.delisting = world.ends[f]
  BY <1>4 DEF Row, UniverseRow
<1> HIDE DEF row, rows
<1>6. \A r \in rows : \E f \in listed : r = row[f]  BY <1>1
<1>7. Stamped(rows)  BY <1>3, <1>5, <1>6 DEF Stamped
<1>8. \A r \in rows : r \in UniverseRow /\ r.payload.delisting = world.ends[r.key]
  BY <1>5, <1>6
<1>9. UniverseHolds(world, rows)  BY <1>7, <1>8 DEF UniverseHolds
<1>. QED  BY <1>9 DEF rows

\* The sizes of the board.
LEMMA PulledScale ==
    ASSUME world \in Worlds, Today \in Day, NEW stamp \in Int
    PROVE  ScaleHolds(ScaleRows(stamp))
<1> DEFINE row == [f \in world.exchange |-> Row(f, Today, stamp, Size(f, Today))]
           rows == ScaleRows(stamp)
<1>1. rows = {row[f] : f \in world.exchange}  BY DEF ScaleRows
<1>2. world.exchange \in SUBSET Fund /\ world.aum \in [Fund -> [0..MaxDay -> Int]]
  BY WorldParsed DEF Parsed
<1>3. IsFiniteSet(rows)
  <2>1. IsFiniteSet(world.exchange)  BY <1>2, FS_Subset, EmergingAssumption
  <2> HIDE DEF row, rows
  <2>. QED  BY <1>1, <2>1, ImageFinite
<1>4. Today \in Int /\ Today \in 0..MaxDay  BY EmergingAssumption DEF Day
<1>5. ASSUME NEW f \in world.exchange
      PROVE  /\ row[f].key = f /\ f \in Fund /\ row[f].as_of = Today
             /\ row[f].fetched_at = stamp /\ row[f].payload.aum \in Int
  BY <1>2, <1>4 DEF Row, Size
<1> HIDE DEF row, rows
<1>6. \A r \in rows : \E f \in world.exchange : r = row[f]  BY <1>1
<1>7. Stamped(rows)  BY <1>3, <1>4, <1>5, <1>6 DEF Stamped
<1>8. \A r \in rows : r.key \in Fund /\ r.payload.aum \in Int  BY <1>5, <1>6
<1>9. ScaleHolds(rows)  BY <1>7, <1>8 DEF ScaleHolds
<1>. QED  BY <1>9 DEF rows

\* A floor is a stored date, or below them all.
LEMMA FloorTyped ==
    ASSUME Holds(world, store), NEW f, NEW asOf
    PROVE  FloorOf("holdings", f, asOf) \in -1..MaxDay
<1> DEFINE D == {-1} \cup {r.as_of : r \in {r \in ReadAsOf(store["holdings"], asOf) : r.key = f}}
<1>1. MaxDay \in Nat  BY EmergingAssumption
<1>2. D \in SUBSET (-1..MaxDay) /\ D # {}  BY <1>1 DEF Holds, HoldingsHold, ReadAsOf
<1>3. IsFiniteSet(-1..MaxDay)  BY <1>1, FS_Interval
<1> HIDE DEF D
<1>4. IsFiniteSet(D)  BY <1>2, <1>3, FS_Subset
<1>5. Max(D) \in D
  <2>1. D \subseteq Int  BY <1>1, <1>2
  <2>. QED  BY <2>1, <1>2, <1>4, MaxIn
<1>. QED  BY <1>2, <1>5 DEF FloorOf, D

\* The funds the gather loops get to are of the universe.
LEMMA DeepFunds ==
    ASSUME NEW listed \in SUBSET Fund, NEW reached, NEW asOf
    PROVE  Deep(listed, reached, asOf) \subseteq Fund
<1> DEFINE tier == TierOf(listed, asOf)
           book == DOMAIN Book
           alive == {f \in DOMAIN tier : tier[f] # "dead"}
           core == {f \in alive : f \in book \/ tier[f] = "core"} \cup (book \ DOMAIN tier)
<1>1. Fund \subseteq Int /\ IsFiniteSet(Fund) /\ book \subseteq Fund  BY EmergingAssumption
<1>2. DOMAIN tier \subseteq Fund  BY DEF TierOf
<1> HIDE DEF tier
<1>3. core \in SUBSET Fund /\ alive \ core \in SUBSET Fund  BY <1>1, <1>2
<1>4. Fetched(listed, asOf) = Ascending(core) \o Ascending(alive \ core)
  BY DEF Fetched, FetchCodes, tier
<1> HIDE DEF core, alive
<1>5. IsFiniteSet(core) /\ IsFiniteSet(alive \ core)  BY <1>1, <1>3, FS_Subset
<1>6. Ascending(core) \in Seq(core) /\ Ascending(alive \ core) \in Seq(alive \ core)
  BY <1>1, <1>3, <1>5, AscendingTyped
<1>7. Ascending(core) \in Seq(Fund) /\ Ascending(alive \ core) \in Seq(Fund)
  BY <1>3, <1>6
<1>8. Fetched(listed, asOf) \in Seq(Fund)  BY <1>4, <1>7
<1>. QED  BY <1>8 DEF Deep, First

\* The filings that come in.
LEMMA PulledHoldings ==
    ASSUME world \in Worlds, Today \in Day, Holds(world, store),
           NEW fs \in SUBSET Fund, NEW asOf, NEW stamp
    PROVE  HoldingsHold(HoldingRows(fs, asOf, stamp))
<1>1. \A f \in Fund, d \in 0..MaxDay : Numbers(world.filings[f][d])
  BY WorldParsed DEF Parsed, Numbers
<1>2. ASSUME NEW r \in HoldingRows(fs, asOf, stamp)
      PROVE  r.key \in Fund /\ r.as_of \in 0..MaxDay /\ Numbers(r.payload)
  <2>0. PICK f \in fs : \E d \in (FloorOf("holdings", f, asOf) + 1)..Today :
          r = Row(f, d, stamp, world.filings[f][d])
    BY DEF HoldingRows
  <2>1. PICK d \in (FloorOf("holdings", f, asOf) + 1)..Today :
          r = Row(f, d, stamp, world.filings[f][d])
    BY <2>0
  <2>2. FloorOf("holdings", f, asOf) \in -1..MaxDay  BY FloorTyped
  <2>3. MaxDay \in Nat  BY EmergingAssumption
  <2>4. d \in 0..MaxDay  BY <2>2, <2>3 DEF Day
  <2>5. Numbers(world.filings[f][d])  BY <1>1, <2>4
  <2>. QED  BY <2>1, <2>4, <2>5 DEF Row
<1>. QED  BY <1>2 DEF HoldingsHold

\* The bundled themes.
LEMMA PulledThemes ==
    ASSUME world \in Worlds, NEW stamp \in Int
    PROVE  ThemesHold({Row(t.key, t.as_of, stamp, t.payload) : t \in world.bundled})
<1> DEFINE row == [t \in world.bundled |-> Row(t.key, t.as_of, stamp, t.payload)]
           rows == {Row(t.key, t.as_of, stamp, t.payload) : t \in world.bundled}
<1>1. rows = {row[t] : t \in world.bundled}  OBVIOUS
<1>2. /\ IsFiniteSet(world.bundled)
      /\ \A t \in world.bundled : t.as_of \in Int /\ t.payload.crowding \in Int
      /\ \A t, u \in world.bundled : t.key = u.key /\ t.as_of = u.as_of => t = u
  BY WorldParsed DEF Parsed
<1>3. IsFiniteSet(rows)
  <2> HIDE DEF row, rows
  <2>. QED  BY <1>1, <1>2, ImageFinite
<1>4. \A t \in world.bundled :
        /\ row[t].key = t.key /\ row[t].as_of = t.as_of /\ row[t].fetched_at = stamp
        /\ row[t].payload = t.payload
  BY DEF Row
<1> HIDE DEF row, rows
<1>5. \A r \in rows : \E t \in world.bundled : r = row[t]  BY <1>1
<1>6. \A r \in rows : r.as_of \in Int /\ r.fetched_at \in Int /\ r.payload.crowding \in Int
  BY <1>2, <1>4, <1>5
<1>7. ASSUME NEW r \in rows, NEW s \in rows, r.key = s.key, r.as_of = s.as_of  PROVE r = s
  BY <1>2, <1>4, <1>5, <1>7
<1>8. Stamped(rows)  BY <1>3, <1>6, <1>7 DEF Stamped
<1>9. ThemesHold(rows)  BY <1>6, <1>8 DEF ThemesHold
<1>. QED  BY <1>9 DEF rows

\* What the feed dropped is disclosed once per fund.
LEMMA DisclosuresHold ==
    ASSUME NEW w, NEW rows, UniverseHolds(w, rows), NEW asOf \in Int, NEW stamp \in Int
    PROVE  UniverseHolds(w, Disclosures(ReadAsOf(rows, asOf), asOf, stamp))
<1> DEFINE dropped == Dropped(ReadAsOf(rows, asOf), asOf)
           mark == [r \in dropped |-> [r EXCEPT !.as_of = asOf, !.fetched_at = stamp,
                                               !.payload.delisting = asOf]]
           marks == Disclosures(ReadAsOf(rows, asOf), asOf, stamp)
<1>1. marks = {mark[r] : r \in dropped}  BY DEF Disclosures
<1>2. dropped \in SUBSET ReadAsOf(rows, asOf)  BY DEF Dropped
<1> HIDE DEF dropped
<1>3. /\ IsFiniteSet(dropped) /\ dropped \subseteq UniverseRow
      /\ \A r, s \in dropped : r.key = s.key => r = s
  <2>1. /\ IsFiniteSet(ReadAsOf(rows, asOf)) /\ ReadAsOf(rows, asOf) \subseteq rows
        /\ \A r, s \in ReadAsOf(rows, asOf) : r.key = s.key => r = s
    BY OneRead DEF UniverseHolds
  <2>. QED  BY <2>1, <1>2, FS_Subset DEF UniverseHolds
<1>4. IsFiniteSet(marks)
  <2> HIDE DEF mark, marks
  <2>. QED  BY <1>1, <1>3, ImageFinite
<1>5. ASSUME NEW r \in dropped
      PROVE  /\ mark[r] \in UniverseRow /\ mark[r].key = r.key
             /\ mark[r].as_of = asOf /\ mark[r].fetched_at = stamp
             /\ mark[r].payload.delisting = asOf
  BY <1>3 DEF UniverseRow
<1> HIDE DEF mark, marks
<1>6. \A m \in marks : \E r \in dropped : m = mark[r]  BY <1>1
<1>7. Stamped(marks)  BY <1>3, <1>4, <1>5, <1>6 DEF Stamped
<1>8. \A m \in marks : m \in UniverseRow /\ m.payload.delisting = m.as_of  BY <1>5, <1>6
<1>9. UniverseHolds(w, marks)  BY <1>7, <1>8 DEF UniverseHolds
<1>. QED  BY <1>9 DEF marks

-----------------------------------------------------------------------------
(* What a research job writes *)

\* A share of a count is a whole number of percent.
LEMMA PercentTyped ==
    ASSUME NEW n \in Int, NEW d \in Nat \ {0}
    PROVE  Percent(n, d) \in Int
<1>1. 100 * n \in Int  OBVIOUS
<1>2. (100 * n) \div d \in Int  BY <1>1
<1>. QED  BY <1>2 DEF Percent

\* A theme per label.
LEMMA FoundThemes ==
    ASSUME world \in Worlds, NEW docs \in SUBSET world.docs, NEW assessed,
           NEW asOf \in Int, NEW stamp \in Int
    PROVE  ThemesHold(DiscoverThemes(docs, assessed, asOf, stamp))
<1> DEFINE loud == {t \in Topics(docs) : t.signal # "noise"}
           Ahead(t) == {o \in loud : Precedes(docs, o.label, t.label)}
           near == {t \in loud : Cardinality(Ahead(t)) < assessed}
           row == [t \in near |-> [key |-> t.label, as_of |-> asOf, fetched_at |-> stamp,
                                   payload |-> ThemePayload(t, Assess(t))]]
           rows == DiscoverThemes(docs, assessed, asOf, stamp)
           spread == {w \in Labels(docs) : Claimed(docs, w) # {}}
           topic == [w \in spread |-> Trajectory(w, Claimed(docs, w))]
<1>1. IsFiniteSet(docs) /\ \A d \in docs : IsFiniteSet(d.words)
  <2>1. IsFiniteSet(world.docs) /\ \A d \in world.docs : IsFiniteSet(d.words)
    BY WorldParsed DEF Parsed
  <2>. QED  BY <2>1, FS_Subset
<1>2. IsFiniteSet(spread)
  <2> DEFINE words == [d \in docs |-> d.words]
             all == {words[d] : d \in docs}
  <2>1. IsFiniteSet(all)
    <3> HIDE DEF words
    <3>. QED  BY <1>1, ImageFinite
  <2>2. \A x \in all : IsFiniteSet(x)  BY <1>1
  <2>3. spread \in SUBSET UNION all  BY DEF Labels
  <2> HIDE DEF all, spread
  <2>4. IsFiniteSet(UNION all)  BY <2>1, <2>2, FS_UNION
  <2>. QED  BY <2>3, <2>4, FS_Subset
<1>3. Topics(docs) = {topic[w] : w \in spread}  BY DEF Topics
<1>4. ASSUME NEW w \in spread
      PROVE  topic[w].label = w /\ topic[w].crowding \in Int
  <2> DEFINE mine == Claimed(docs, w)
             source == [d \in mine |-> d.source]
             total == Cardinality(mine)
             names == {d.source : d \in mine}
             sources == Cardinality(names)
  <2>1. mine \in SUBSET docs /\ mine # {}  BY DEF Claimed
  <2>2. topic[w].label = w /\ topic[w].crowding = Percent(total - sources, total)
    BY DEF Trajectory
  <2>3. names = {source[d] : d \in mine}  OBVIOUS
  <2> HIDE DEF mine, source, names
  <2>4. IsFiniteSet(mine)  BY <1>1, <2>1, FS_Subset
  <2>5. total \in Nat /\ total # 0  BY <2>1, <2>4, FS_CardinalityType, FS_EmptySet
  <2>6. IsFiniteSet(names)  BY <2>3, <2>4, ImageFinite
  <2>7. total - sources \in Int  BY <2>5, <2>6, FS_CardinalityType
  <2>8. Percent(total - sources, total) \in Int  BY <2>5, <2>7, PercentTyped
  <2>. QED  BY <2>2, <2>8
<1>5. IsFiniteSet(near)
  <2>1. IsFiniteSet(Topics(docs))
    <3> HIDE DEF topic, spread
    <3>. QED  BY <1>2, <1>3, ImageFinite
  <2>. QED  BY <2>1, FS_Subset
<1>6. \A t \in near : \E w \in spread : t = topic[w]
  <2>1. near \subseteq Topics(docs)  OBVIOUS
  <2> HIDE DEF near, spread, topic
  <2>. QED  BY <1>3, <2>1
<1>7. rows = {row[t] : t \in near}  BY DEF DiscoverThemes
<1>8. \A t \in near : /\ row[t].key = t.label /\ row[t].as_of = asOf
                      /\ row[t].fetched_at = stamp /\ row[t].payload.crowding = t.crowding
  <2> HIDE DEF near
  <2>. QED  BY DEF ThemePayload
<1> HIDE DEF near, row, rows, spread, topic
<1>9. IsFiniteSet(rows)  BY <1>5, <1>7, ImageFinite
<1>10. \A t \in near : t.crowding \in Int  BY <1>4, <1>6
<1>11. \A t, u \in near : t.label = u.label => t = u  BY <1>4, <1>6
<1>12. \A r \in rows : \E t \in near : r = row[t]  BY <1>7
<1>13. Stamped(rows)  BY <1>8, <1>9, <1>11, <1>12 DEF Stamped
<1>14. \A r \in rows : r.payload.crowding \in Int  BY <1>8, <1>10, <1>12
<1>15. ThemesHold(rows)  BY <1>13, <1>14 DEF ThemesHold
<1>. QED  BY <1>15 DEF rows

\* The corpus is partitioned by its topics: no document is in two of them, and one that
\* carries any recurring word is in one (topics.py:170-171 "so the corpus
\* partitions deterministically").
THEOREM TopicsPartition ==
    ASSUME NEW docs, IsFiniteSet(docs),
           \A d \in docs : IsFiniteSet(d.words) /\ d.words \subseteq Int
    PROVE  /\ \A t, u \in Topics(docs) : t # u => t.docs \cap u.docs = {}
           /\ UNION {t.docs : t \in Topics(docs)} =
                {d \in docs : Labels(docs) \cap d.words # {}}
<1>1. ASSUME NEW w  PROVE Frequency(docs, w) \in Nat
  <2>1. IsFiniteSet({d \in docs : w \in d.words})  BY FS_Subset
  <2>. QED  BY <2>1, FS_CardinalityType DEF Frequency
<1>2. ASSUME NEW t \in Topics(docs)
      PROVE  \E w \in Labels(docs) : t = Trajectory(w, Claimed(docs, w))
                                     /\ t.docs = Claimed(docs, w)
  <2>1. PICK w \in Labels(docs) : t = Trajectory(w, Claimed(docs, w))  BY DEF Topics
  <2>2. t.docs = Claimed(docs, w)
    <3>1. Trajectory(w, Claimed(docs, w)).docs = Claimed(docs, w)  BY DEF Trajectory
    <3>. QED  BY <2>1, <3>1
  <2>. QED  BY <2>1, <2>2
<1>3. ASSUME NEW t \in Topics(docs), NEW u \in Topics(docs),
             NEW d \in t.docs, d \in u.docs
      PROVE  t = u
  <2>1. PICK w \in Labels(docs) : t = Trajectory(w, Claimed(docs, w))
                                 /\ t.docs = Claimed(docs, w)
    BY <1>2
  <2>2. PICK v \in Labels(docs) : u = Trajectory(v, Claimed(docs, v))
                                 /\ u.docs = Claimed(docs, v)
    BY <1>2
  <2>3. /\ d \in docs /\ w \in d.words /\ v \in d.words
        /\ ~Precedes(docs, w, v) /\ ~Precedes(docs, v, w)
    BY <1>3, <2>1, <2>2 DEF Claimed
  <2>4. w \in Int /\ v \in Int  BY <2>3
  <2>5. w = v  BY <1>1, <2>3, <2>4 DEF Precedes
  <2>. QED  BY <2>1, <2>2, <2>5
<1>4. ASSUME NEW d \in docs, Labels(docs) \cap d.words # {}
      PROVE  \E t \in Topics(docs) : d \in t.docs
  <2> DEFINE S == Labels(docs) \cap d.words
             R == {p \in S \X S : Precedes(docs, p[2], p[1])}
  <2>1. IsFiniteSet(S) /\ S \subseteq Int /\ S # {}  BY <1>4, FS_Subset
  <2>2. \A v, w \in S : <<v, w>> \in R <=> Precedes(docs, w, v)  OBVIOUS
  <2> HIDE DEF S, R
  <2>3. Orders(R, S)  BY <1>1, <2>1, <2>2 DEF Orders, Precedes
  <2>4. PICK w \in S : \A v \in S : v = w \/ <<v, w>> \in R  BY <2>1, <2>3, LastOf
  <2>5. \A v \in S : ~Precedes(docs, v, w)
    <3>1. ASSUME NEW v \in S, Precedes(docs, v, w)  PROVE FALSE
      <4>1. <<w, v>> \in R  BY <2>2, <3>1
      <4>. QED  BY <2>3, <2>4, <4>1 DEF Orders
    <3>. QED  BY <3>1
  <2>6. w \in Labels(docs) /\ d \in Claimed(docs, w)  BY <2>4, <2>5 DEF S, Claimed
  <2>7. Trajectory(w, Claimed(docs, w)) \in Topics(docs)  BY <2>6 DEF Topics
  <2>8. d \in Trajectory(w, Claimed(docs, w)).docs  BY <2>6 DEF Trajectory
  <2>. QED  BY <2>7, <2>8
<1>5. ASSUME NEW t \in Topics(docs), NEW d \in t.docs
      PROVE  d \in docs /\ Labels(docs) \cap d.words # {}
  BY <1>2 DEF Claimed
<1>. QED  BY <1>3, <1>4, <1>5

-----------------------------------------------------------------------------
(* The mapping *)

\* The portfolio of a fund is of numbers, when it has filed none too.
LEMMA PortfolioTyped ==
    ASSUME NEW db, HoldingsHold(db["holdings"]), NEW f, NEW asOf
    PROVE  Numbers(Portfolio(db, f, asOf))
<1> DEFINE rows == {r \in ReadAsOf(db["holdings"], asOf) : r.key = f}
<1>1. \A r \in rows : Numbers(r.payload)  BY DEF HoldingsHold, ReadAsOf
<1>2. CASE rows = {}
  <2>1. DOMAIN <<>> = {}  OBVIOUS
  <2>2. Numbers(<<>>)  BY <2>1, FS_EmptySet DEF Numbers
  <2>. QED  BY <1>2, <2>2 DEF Portfolio
<1>3. CASE rows # {}
  <2>1. Portfolio(db, f, asOf) = (CHOOSE r \in rows : TRUE).payload  BY <1>3 DEF Portfolio
  <2> HIDE DEF rows
  <2>2. (CHOOSE r \in rows : TRUE) \in rows  BY <1>3
  <2>. QED  BY <1>1, <2>1, <2>2
<1>. QED  BY <1>2, <1>3

\* The mapping row of a theme and a sized fund.
LinkRow(db, t, u, z, asOf) ==
    Row(<<t.key, u.key>>, asOf, DerivedStamp(asOf),
        [theme |-> t.key, code |-> u.key, aum |-> z.payload.aum,
         methodology |->
            LinkScore(OverlapWith(Portfolio(db, u.key, asOf), t.payload.constituents).weight,
                      world.corr[u.key]),
         crowding |-> t.payload.crowding, inception |-> u.payload.inception,
         run_up |-> RunUp(Navs(db, u.key, asOf), RunUpMin, RunUpWindow),
         pe_pctile |-> PePercentile(u.key)])

LinkedTo(db, t, asOf) ==
    {p \in {r \in ListedAt(db, asOf) : r.payload.valid} \X ReadAsOf(db["scale"], asOf) :
        p[1].key = p[2].key
        /\ OverlapWith(Portfolio(db, p[1].key, asOf), t.payload.constituents).weight
              >= MinOverlap}

\* The links of a theme are the mapping rows of those funds.
LEMMA LinksAre ==
    ASSUME NEW db, NEW t, NEW asOf
    PROVE  Links(db, t, asOf) = {LinkRow(db, t, p[1], p[2], asOf) : p \in LinkedTo(db, t, asOf)}
BY DEF Links, LinkRow, LinkedTo

\* What is mapped as of a date is one row per theme and fund, stamped with the date.
LEMMA LinksHold ==
    ASSUME world \in Worlds, NEW db, Holds(world, db), NEW asOf \in Int
    PROVE  MappingHolds(UNION {Links(db, t, asOf) : t \in ReadAsOf(db["themes"], asOf)})
<1> DEFINE T == ReadAsOf(db["themes"], asOf)
           U == ReadAsOf(db["universe"], asOf)
           Z == ReadAsOf(db["scale"], asOf)
           links == [t \in T |-> Links(db, t, asOf)]
           rows == UNION {Links(db, t, asOf) : t \in T}
<1>1. /\ IsFiniteSet(T) /\ \A t, v \in T : t.key = v.key => t = v
      /\ \A t \in T : t.payload.crowding \in Int
  BY OneRead DEF Holds, ThemesHold
<1>2. /\ IsFiniteSet(U) /\ \A t, v \in U : t.key = v.key => t = v
      /\ \A u \in U : u.key \in Fund
  <2>1. Stamped(db["universe"])  BY DEF Holds, UniverseHolds
  <2>2. \A u \in db["universe"] : u.key \in Fund  BY DEF Holds, UniverseHolds, UniverseRow
  <2>. QED  BY <2>1, <2>2, OneRead
<1>3. /\ IsFiniteSet(Z) /\ \A t, v \in Z : t.key = v.key => t = v
      /\ \A z \in Z : z.payload.aum \in Int
  BY OneRead DEF Holds, ScaleHolds
<1>4. ASSUME NEW t \in T
      PROVE  /\ IsFiniteSet(Links(db, t, asOf))
             /\ \A r \in Links(db, t, asOf) :
                  \E u \in U, z \in Z : u.key = z.key /\ r = LinkRow(db, t, u, z, asOf)
  <2> DEFINE P == LinkedTo(db, t, asOf)
             link == [p \in P |-> LinkRow(db, t, p[1], p[2], asOf)]
  <2>1. P \in SUBSET (U \X Z) /\ \A p \in P : p[1].key = p[2].key
    BY DEF LinkedTo, ListedAt
  <2> HIDE DEF P, U, Z
  <2>2. IsFiniteSet(P)  BY <1>2, <1>3, <2>1, FS_Product, FS_Subset
  <2>3. Links(db, t, asOf) = {link[p] : p \in P}  BY LinksAre DEF P
  <2>4. \A r \in Links(db, t, asOf) :
          \E u \in U, z \in Z : u.key = z.key /\ r = LinkRow(db, t, u, z, asOf)
    BY <2>1, <2>3
  <2> HIDE DEF link
  <2>5. IsFiniteSet(Links(db, t, asOf))  BY <2>2, <2>3, ImageFinite
  <2>. QED  BY <2>4, <2>5
<1> HIDE DEF T, U, Z
<1>5. IsFiniteSet(rows)
  <2> DEFINE all == {Links(db, t, asOf) : t \in T}
  <2>1. all = {links[t] : t \in T} /\ rows = UNION all  OBVIOUS
  <2>2. \A x \in all : IsFiniteSet(x)  BY <1>4
  <2> HIDE DEF all, links, rows
  <2>3. IsFiniteSet(all)  BY <1>1, <2>1, ImageFinite
  <2>. QED  BY <2>1, <2>2, <2>3, FS_UNION
<1>6. ASSUME NEW r \in rows
      PROVE  \E t \in T, u \in U, z \in Z : u.key = z.key /\ r = LinkRow(db, t, u, z, asOf)
  <2>1. PICK t \in T : r \in Links(db, t, asOf)  OBVIOUS
  <2>. QED  BY <2>1, <1>4
<1> HIDE DEF rows
<1>7. ASSUME NEW t \in T, NEW u \in U, NEW z \in Z
      PROVE  LET r == LinkRow(db, t, u, z, asOf)
             IN  /\ r.key = <<t.key, u.key>> /\ r.as_of = asOf
                 /\ r.fetched_at = DerivedStamp(asOf)
                 /\ r.payload.theme = t.key /\ r.payload.code = u.key
                 /\ r.payload.methodology \in Int /\ r.payload.aum \in Int
                 /\ r.payload.crowding \in Int
  <2> DEFINE over == OverlapWith(Portfolio(db, u.key, asOf), t.payload.constituents).weight
             corr == world.corr[u.key]
  <2>1. Numbers(Portfolio(db, u.key, asOf))  BY PortfolioTyped DEF Holds
  <2>2. over \in Int  BY <2>1, OverlapTyped DEF Numbers
  <2>3. corr \in Int  BY <1>2, WorldParsed DEF Parsed
  <2> HIDE DEF over, corr
  <2>4. LinkScore(over, corr) \in Int  BY <2>2, <2>3 DEF LinkScore
  <2>. QED  BY <1>1, <1>3, <2>4 DEF LinkRow, Row, over, corr
<1>8. DerivedStamp(asOf) \in Int  BY DEF DerivedStamp
<1>9. \A r \in rows : /\ r.as_of = asOf /\ r.fetched_at = DerivedStamp(asOf)
                      /\ r.key = <<r.payload.theme, r.payload.code>>
                      /\ r.payload.code \in Fund /\ r.payload.methodology \in Int
                      /\ r.payload.aum \in Int /\ r.payload.crowding \in Int
  BY <1>2, <1>6, <1>7
<1>10. ASSUME NEW r \in rows, NEW s \in rows, r.key = s.key  PROVE r = s
  <2>1. PICK t \in T, u \in U, z \in Z : u.key = z.key /\ r = LinkRow(db, t, u, z, asOf)
    BY <1>6
  <2>2. PICK v \in T, x \in U, y \in Z : x.key = y.key /\ s = LinkRow(db, v, x, y, asOf)
    BY <1>6
  <2>3. r.key = <<t.key, u.key>> /\ s.key = <<v.key, x.key>>  BY <1>7, <2>1, <2>2
  <2>4. t.key = v.key /\ u.key = x.key /\ z.key = y.key  BY <1>10, <2>1, <2>2, <2>3
  <2>5. t = v /\ u = x /\ z = y  BY <1>1, <1>2, <1>3, <2>4
  <2>. QED  BY <2>1, <2>2, <2>5
<1>11. Stamped(rows)  BY <1>5, <1>8, <1>9, <1>10 DEF Stamped
<1>12. MappingHolds(rows)  BY <1>9, <1>11 DEF MappingHolds
<1>. QED  BY <1>12 DEF rows, T

-----------------------------------------------------------------------------
(* The inductive invariant *)

\* Each series after a gather.
LEMMA GatheredIs ==
    ASSUME DOMAIN store = SeriesName, NEW listed, NEW reached, NEW asOf
    PROVE  LET db == Gathered(listed, reached, asOf)
               stamp == GatherStamp(asOf)
           IN  /\ DOMAIN db = SeriesName
               /\ db["universe"] = AppendTo(store["universe"], UniverseRows(listed, asOf, stamp))
               /\ db["scale"] = AppendTo(store["scale"], ScaleRows(stamp))
               /\ db["holdings"] = AppendTo(store["holdings"],
                                     HoldingRows(Deep(listed, reached, asOf), asOf, stamp))
               /\ db["themes"] = AppendTo(store["themes"],
                                   {Row(t.key, t.as_of, stamp, t.payload) : t \in world.bundled})
               /\ db["mapping"] = store["mapping"]
BY DEF Gathered, SeriesName

\* A gather keeps the store's shape,
LEMMA GatheredHolds ==
    ASSUME world \in Worlds, clock \in Nat, Today \in Day, Holds(world, store),
           NEW listed \in SUBSET Fund, NEW reached, NEW asOf \in Int
    PROVE  Holds(world, Gathered(listed, reached, asOf))
<1> DEFINE db == Gathered(listed, reached, asOf)
           stamp == GatherStamp(asOf)
<1>1. stamp \in Int  BY DEF GatherStamp, DerivedStamp
<1>2. DOMAIN store = SeriesName  BY DEF Holds
<1> HIDE DEF db, stamp
<1>3. DOMAIN db = SeriesName  BY <1>2, GatheredIs DEF db, stamp
<1>4. UniverseHolds(world, db["universe"])
  <2>1. db["universe"] = AppendTo(store["universe"], UniverseRows(listed, asOf, stamp))
    BY <1>2, GatheredIs DEF db, stamp
  <2>2. UniverseHolds(world, UniverseRows(listed, asOf, stamp))  BY <1>1, PulledUniverse
  <2>. QED  BY <2>1, <2>2, UniverseAppend DEF Holds
<1>5. ScaleHolds(db["scale"])
  <2>1. db["scale"] = AppendTo(store["scale"], ScaleRows(stamp))
    BY <1>2, GatheredIs DEF db, stamp
  <2>. QED  BY <1>1, <2>1, PulledScale, ScaleAppend DEF Holds
<1>6. HoldingsHold(db["holdings"])
  <2> DEFINE batch == HoldingRows(Deep(listed, reached, asOf), asOf, stamp)
  <2>1. db["holdings"] = AppendTo(store["holdings"], batch)
    BY <1>2, GatheredIs DEF db, stamp
  <2>2. HoldingsHold(batch)  BY DeepFunds, PulledHoldings
  <2> HIDE DEF batch
  <2>. QED  BY <2>1, <2>2, HoldingsAppend DEF Holds
<1>7. ThemesHold(db["themes"])
  <2> DEFINE batch == {Row(t.key, t.as_of, stamp, t.payload) : t \in world.bundled}
  <2>1. db["themes"] = AppendTo(store["themes"], batch)  BY <1>2, GatheredIs DEF db, stamp
  <2>2. ThemesHold(batch)  BY <1>1, PulledThemes
  <2> HIDE DEF batch
  <2>. QED  BY <2>1, <2>2, ThemesAppend DEF Holds
<1>8. MappingHolds(db["mapping"])
  <2>1. db["mapping"] = store["mapping"]  BY <1>2, GatheredIs DEF db, stamp
  <2>. QED  BY <2>1 DEF Holds
<1>9. Holds(world, db)  BY <1>3, <1>4, <1>5, <1>6, <1>7, <1>8 DEF Holds
<1>. QED  BY <1>9 DEF db

\* so does the disclosure of the dropped funds, which touches the universe alone,
LEMMA DisclosedHolds ==
    ASSUME NEW w, NEW db, Holds(w, db), NEW asOf \in Int
    PROVE  /\ Holds(w, Disclosed(db, asOf))
           /\ Disclosed(db, asOf)["mapping"] = db["mapping"]
           /\ Disclosed(db, asOf)["universe"] =
                AppendTo(db["universe"], Disclosures(ReadAsOf(db["universe"], asOf), asOf,
                                                     DerivedStamp(asOf)))
<1> DEFINE rows == db["universe"]
           new == AppendTo(rows, Disclosures(ReadAsOf(rows, asOf), asOf, DerivedStamp(asOf)))
           after == Disclosed(db, asOf)
<1>1. DerivedStamp(asOf) \in Int  BY DEF DerivedStamp
<1>2. UniverseHolds(w, rows)  BY DEF Holds
<1>3. DOMAIN db = SeriesName  BY DEF Holds
<1>4. /\ DOMAIN after = SeriesName /\ after["universe"] = new
      /\ \A x \in SeriesName \ {"universe"} : after[x] = db[x]
  BY <1>3 DEF Disclosed, SeriesName
<1> HIDE DEF rows, after
<1>5. UniverseHolds(w, new)  BY <1>1, <1>2, DisclosuresHold, UniverseAppend
<1> HIDE DEF new
<1>6. Holds(w, after) /\ after["mapping"] = db["mapping"]
  BY <1>4, <1>5 DEF Holds, SeriesName
<1>. QED  BY <1>4, <1>6 DEF after, new, rows

\* and the mapping of a date, which only adds to the mapping.
LEMMA MaterialisedHolds ==
    ASSUME world \in Worlds, NEW db, Holds(world, db), NEW asOf \in Int
    PROVE  /\ Holds(world, Materialised(db, asOf))
           /\ db["mapping"] \subseteq Materialised(db, asOf)["mapping"]
           /\ Materialised(db, asOf)["universe"] = db["universe"]
<1> DEFINE rows == UNION {Links(db, t, asOf) : t \in ReadAsOf(db["themes"], asOf)}
           after == Materialised(db, asOf)
<1>1. MappingHolds(rows)  BY LinksHold
<1>2. /\ DOMAIN after = SeriesName /\ after["mapping"] = AppendTo(db["mapping"], rows)
      /\ \A x \in SeriesName \ {"mapping"} : after[x] = db[x]
  BY DEF Materialised, SeriesName, Holds
<1> HIDE DEF rows, after
<1>3. MappingHolds(after["mapping"])  BY <1>1, <1>2, MappingAppend DEF Holds
<1>4. Holds(world, after) /\ after["universe"] = db["universe"]
  BY <1>2, <1>3 DEF Holds, SeriesName
<1>5. db["mapping"] \subseteq after["mapping"]  BY <1>2, AppendAdds
<1>. QED  BY <1>4, <1>5 DEF after

\* The empty store has that shape.
LEMMA EInvInit == Init => EInv
<1>. SUFFICES ASSUME Init  PROVE EInv  OBVIOUS
<1>1. \A x \in SeriesName : store[x] = {}  BY DEF Init
<1>2. DOMAIN store = SeriesName  BY DEF Init
<1>3. IsFiniteSet({})  BY FS_EmptySet
<1>4. Stamped({})  BY <1>3 DEF Stamped
<1>5. Holds(world, store)
  BY <1>1, <1>2, <1>4 DEF Holds, SeriesName, UniverseHolds, ScaleHolds, HoldingsHold,
                          ThemesHold, MappingHolds
<1>6. world \in Worlds /\ clock = 3  BY DEF Init
<1>7. Today \in Day  BY <1>6, EmergingAssumption DEF Today, Day
<1>. QED  BY <1>5, <1>6, <1>7 DEF EInv

\* What an ingest leaves, and what it adds to the universe.
LEMMA IngestKeeps ==
    ASSUME EInv, NEW asOf \in Day, NEW listed \in Listings, NEW reached,
           Ingest(asOf, listed, reached)
    PROVE  /\ Holds(world, store') /\ store["mapping"] \subseteq store'["mapping"]
           /\ LET pulled == AppendTo(store["universe"],
                                     UniverseRows(listed, asOf, GatherStamp(asOf)))
              IN  /\ UniverseHolds(world, pulled)
                  /\ store'["universe"] =
                        AppendTo(pulled, Disclosures(ReadAsOf(pulled, asOf), asOf,
                                                     DerivedStamp(asOf)))
<1> DEFINE pulled == Gathered(listed, reached, asOf)
           dropped == Disclosed(pulled, asOf)
           mapped == Materialised(dropped, asOf)
<1>1. store' = mapped  BY DEF Ingest
<1>2. asOf \in Int /\ listed \in SUBSET Fund  BY EmergingAssumption DEF Day
<1>3. DOMAIN store = SeriesName  BY DEF EInv, Holds
<1> HIDE DEF pulled, dropped, mapped
<1>4. Holds(world, pulled)  BY <1>2, GatheredHolds DEF EInv, pulled
<1>5. /\ pulled["mapping"] = store["mapping"]
      /\ pulled["universe"] = AppendTo(store["universe"],
                                UniverseRows(listed, asOf, GatherStamp(asOf)))
  BY <1>3, GatheredIs DEF pulled
<1>6. /\ Holds(world, dropped) /\ dropped["mapping"] = pulled["mapping"]
      /\ dropped["universe"] =
           AppendTo(pulled["universe"], Disclosures(ReadAsOf(pulled["universe"], asOf), asOf,
                                                    DerivedStamp(asOf)))
  BY <1>2, <1>4, DisclosedHolds DEF dropped
<1>7. /\ Holds(world, mapped) /\ dropped["mapping"] \subseteq mapped["mapping"]
      /\ mapped["universe"] = dropped["universe"]
  BY <1>2, <1>6, MaterialisedHolds DEF EInv, mapped
<1>. QED  BY <1>1, <1>4, <1>5, <1>6, <1>7 DEF Holds

\* A research job writes themes, and nothing else.
LEMMA DiscoverKeeps ==
    ASSUME EInv, NEW asOf \in Day, NEW assessed, Discover(asOf, assessed)
    PROVE  /\ Holds(world, store') /\ store'["mapping"] = store["mapping"]
           /\ store'["universe"] = store["universe"]
<1> DEFINE docs == {d \in world.docs : d.as_of =< asOf}
           found == DiscoverThemes(docs, assessed, asOf, DerivedStamp(asOf))
<1>1. asOf \in Int /\ DerivedStamp(asOf) \in Int  BY DEF Day, DerivedStamp
<1>2. DOMAIN store = SeriesName  BY DEF EInv, Holds
<1>3. /\ DOMAIN store' = SeriesName /\ store'["themes"] = AppendTo(store["themes"], found)
      /\ \A x \in SeriesName \ {"themes"} : store'[x] = store[x]
  BY <1>2 DEF Discover, SeriesName
<1>4. docs \in SUBSET world.docs  OBVIOUS
<1> HIDE DEF docs
<1>5. ThemesHold(found)  BY <1>1, <1>4, FoundThemes DEF EInv
<1> HIDE DEF found
<1>6. ThemesHold(store'["themes"])  BY <1>3, <1>5, ThemesAppend DEF EInv, Holds
<1>. QED  BY <1>3, <1>6 DEF EInv, Holds, SeriesName

\* Every step keeps it.
LEMMA EInvStep == EInv /\ [Next]_vars => EInv'
<1>. SUFFICES ASSUME EInv, [Next]_vars  PROVE EInv'  OBVIOUS
<1>1. ASSUME NEW asOf \in Day, NEW listed \in Listings, NEW reached \in Reaches,
             Ingest(asOf, listed, reached)
      PROVE  EInv'
  <2>1. Holds(world, store')  BY <1>1, IngestKeeps
  <2>2. world' = world /\ clock' = clock  BY <1>1 DEF Ingest
  <2>. QED  BY <2>1, <2>2 DEF EInv, Today
<1>2. ASSUME NEW asOf \in Day, NEW assessed, Discover(asOf, assessed)  PROVE EInv'
  <2>1. Holds(world, store')  BY <1>2, DiscoverKeeps
  <2>2. world' = world /\ clock' = clock  BY <1>2 DEF Discover
  <2>. QED  BY <2>1, <2>2 DEF EInv, Today
<1>3. ASSUME NEW asOf \in Day, RunMaps(asOf)  PROVE EInv'
  <2>1. asOf \in Int  BY DEF Day
  <2>2. store' = Materialised(store, asOf) /\ world' = world /\ clock' = clock
    BY <1>3 DEF RunMaps
  <2>3. Holds(world, store')  BY <2>1, <2>2, MaterialisedHolds DEF EInv
  <2>. QED  BY <2>2, <2>3 DEF EInv, Today
<1>4. ASSUME TimePasses  PROVE EInv'
  <2>1. store' = store /\ world' = world  BY <1>4 DEF TimePasses
  <2>2. clock \in Nat /\ clock \div 3 \in 1..MaxDay /\ clock \div 3 < MaxDay
        /\ MaxDay \in Nat
    BY <1>4, EmergingAssumption DEF EInv, Today, Day, TimePasses
  <2>3. \/ clock' = clock + 2 /\ clock % 3 = 0
        \/ clock' = 3 * (clock \div 3 + 1)
    BY <1>4 DEF TimePasses, Today
  <2>4. clock' \in Nat /\ clock' \div 3 \in 1..MaxDay  BY <2>2, <2>3
  <2>. QED  BY <2>1, <2>4 DEF EInv, Today, Day
<1>5. ASSUME UNCHANGED vars  PROVE EInv'
  BY <1>5 DEF EInv, Today, vars
<1>. QED  BY <1>1, <1>2, <1>3, <1>4, <1>5 DEF Next

\* In every state a run can meet, the series it reads back are one row per key, date and
\* stamp, a mapping row is of its own theme, fund and date, and an end is none, the
\* announced one, or the day the fund was found dropped.
THEOREM EmergingInvariant == Spec => []EInv
BY EInvInit, EInvStep, PTL DEF Spec

-----------------------------------------------------------------------------
(* The frozen mapping *)

\* Whatever an ingest or a run appends, what the mapping said as of a date stands.
THEOREM FrozenStands == Spec => FrozenMappingStands
<1> DEFINE Stands(old, new) ==
             \A r \in old : r \in ReadAsOf(old, r.as_of) => r \in ReadAsOf(new, r.as_of)
<1>1. ASSUME EInv, EInv', [Next]_vars  PROVE Stands(store["mapping"], store'["mapping"])
  <2>1. store["mapping"] \subseteq store'["mapping"]
    <3>1. ASSUME NEW asOf \in Day, NEW listed \in Listings, NEW reached \in Reaches,
                 Ingest(asOf, listed, reached)
          PROVE  store["mapping"] \subseteq store'["mapping"]
      BY <1>1, <3>1, IngestKeeps
    <3>2. ASSUME NEW asOf \in Day, NEW assessed, Discover(asOf, assessed)
          PROVE  store["mapping"] \subseteq store'["mapping"]
      BY <1>1, <3>2, DiscoverKeeps
    <3>3. ASSUME NEW asOf \in Day, RunMaps(asOf)
          PROVE  store["mapping"] \subseteq store'["mapping"]
      <4>1. asOf \in Int /\ store' = Materialised(store, asOf)  BY <3>3 DEF RunMaps, Day
      <4>. QED  BY <1>1, <4>1, MaterialisedHolds DEF EInv
    <3>4. TimePasses \/ UNCHANGED vars => store' = store  BY DEF TimePasses, vars
    <3>. QED  BY <1>1, <3>1, <3>2, <3>3, <3>4 DEF Next
  <2> DEFINE new == store'["mapping"]
  <2>2. \A r \in new : r.as_of \in Int /\ r.fetched_at = DerivedStamp(r.as_of)
    BY <1>1 DEF EInv, Holds, MappingHolds, Stamped
  <2> HIDE DEF new
  <2>3. ASSUME NEW r \in new  PROVE r \in ReadAsOf(new, r.as_of)
    <3>1. ASSUME NEW s \in new, s.as_of =< r.as_of  PROVE NotBefore(s, r)
      <4>1. r.as_of \in Int /\ s.as_of \in Int  BY <2>2
      <4>2. CASE s.as_of = r.as_of
        <5>1. s.fetched_at = r.fetched_at /\ s.fetched_at \in Int
          BY <2>2, <4>1, <4>2 DEF DerivedStamp
        <5>. QED  BY <4>2, <5>1 DEF NotBefore
      <4>3. CASE s.as_of # r.as_of  BY <3>1, <4>1, <4>3 DEF NotBefore
      <4>. QED  BY <4>2, <4>3
    <3>2. r.as_of =< r.as_of  BY <2>2
    <3>. QED  BY <3>1, <3>2 DEF ReadAsOf
  <2>. QED  BY <2>1, <2>3 DEF new
<1>2. EInv /\ EInv' /\ [Next]_vars =>
        \A r \in store["mapping"] : r \in ReadAsOf(store["mapping"], r.as_of)
           => r \in ReadAsOf(store'["mapping"], r.as_of)
  BY <1>1
<1>. QED  BY <1>2, EmergingInvariant, PTL DEF Spec, FrozenMappingStands

-----------------------------------------------------------------------------
(* The list *)

\* A candidate has the theme, the fund and the numbers of its mapping row.
LEMMA CandidateTyped ==
    ASSUME world \in Worlds, NEW db, Holds(world, db), NEW asOf \in Int
    PROVE  /\ Candidates({Candidate(r) : r \in CandidateRows(db, asOf)})
           /\ \A r \in CandidateRows(db, asOf) : Candidate(r).code = r.payload.code
<1> DEFINE rows == CandidateRows(db, asOf)
           candidate == [r \in rows |-> Candidate(r)]
           cs == {Candidate(r) : r \in CandidateRows(db, asOf)}
           read == ReadAsOf(db["mapping"], asOf)
<1>1. /\ IsFiniteSet(read) /\ read \subseteq db["mapping"]
      /\ \A r, s \in read : r.key = s.key => r = s
  BY OneRead DEF Holds, MappingHolds
<1>2. rows \in SUBSET read  BY DEF CandidateRows
<1> HIDE DEF rows, read
<1>3. IsFiniteSet(rows)  BY <1>1, <1>2, FS_Subset
<1>4. \A r \in rows : /\ r.key = <<r.payload.theme, r.payload.code>> /\ r.payload.code \in Fund
                      /\ r.payload.methodology \in Int /\ r.payload.aum \in Int
                      /\ r.payload.crowding \in Int
  BY <1>1, <1>2 DEF Holds, MappingHolds
<1>5. world.sheet \in [Fund -> [fee : Int, tracking_error : Int, top10_weight : Int]]
  BY WorldParsed DEF Parsed
<1>6. ASSUME NEW r \in rows
      PROVE  /\ Rated(Candidate(r))
             /\ Candidate(r).theme = r.payload.theme /\ Candidate(r).code = r.payload.code
  <2>1. world.sheet[r.payload.code] \in [fee : Int, tracking_error : Int, top10_weight : Int]
    BY <1>4, <1>5
  <2>. QED  BY <1>4, <2>1 DEF Candidate, Rated
<1>7. cs = {candidate[r] : r \in rows}  BY DEF rows
<1>8. \A c \in cs : \E r \in rows : c = Candidate(r)  BY DEF rows
<1> HIDE DEF candidate, cs
<1>9. IsFiniteSet(cs)  BY <1>3, <1>7, ImageFinite
<1>10. ASSUME NEW c \in cs, NEW d \in cs, c.theme = d.theme, c.code = d.code  PROVE c = d
  <2>1. PICK r \in rows : c = Candidate(r)  BY <1>8
  <2>2. PICK s \in rows : d = Candidate(s)  BY <1>8
  <2>3. r.key = s.key  BY <1>4, <1>6, <1>10, <2>1, <2>2
  <2>4. r = s  BY <1>1, <1>2, <2>3
  <2>. QED  BY <2>1, <2>2, <2>4
<1>11. Candidates(cs)  BY <1>6, <1>8, <1>9, <1>10 DEF Candidates
<1>. QED  BY <1>6, <1>11 DEF cs, rows

\* What surfaces of a date is mapped and listed at it, and keeps the spine.
LEMMA ShortlistsHold ==
    ASSUME world \in Worlds, NEW db, Holds(world, db), NEW asOf \in Int,
           NEW pref \in [Fund -> Int], NEW l \in Shortlists(db, asOf, pref)
    PROVE  /\ \A i \in DOMAIN l.funds :
                \E u \in ListedAt(db, asOf) : u.key = l.funds[i].candidate.code
           /\ \E S : l.funds \o l.near_misses \in Seq(S) /\ l.screened \in Seq(S)
           /\ SpineHolds(l.funds \o l.near_misses, l.screened, asOf)
<1> DEFINE cs == {Candidate(r) : r \in CandidateRows(db, asOf)}
           owned == Owned(BuildBook(db, asOf))
           core == [f \in Fund |-> OverlapWithCore(Portfolio(db, f, asOf), owned)]
<1>1. PICK t \in ReadAsOf(db["themes"], asOf) : l \in Shortlist(t, cs, asOf, core, pref)
  BY Zenon DEF Shortlists
<1>2. Candidates(cs)  BY CandidateTyped
<1>3. ASSUME NEW f \in Fund  PROVE core[f].weight \in Int
  <2> HIDE DEF owned
  <2>1. Numbers(Portfolio(db, f, asOf))  BY PortfolioTyped DEF Holds
  <2>2. OverlapWith(Portfolio(db, f, asOf), owned).weight \in Int
    BY <2>1, OverlapTyped DEF Numbers
  <2>. QED  BY <2>2 DEF OverlapWithCore
<1>4. \A c \in cs : \E u \in ListedAt(db, asOf) : u.key = c.code
  <2>1. ASSUME NEW r \in CandidateRows(db, asOf)
        PROVE  \E u \in ListedAt(db, asOf) : u.key = Candidate(r).code
    <3>1. Candidate(r).code = r.payload.code  BY CandidateTyped
    <3>2. r.payload.code \in {u.key : u \in ListedAt(db, asOf)}  BY DEF CandidateRows
    <3>. QED  BY <3>1, <3>2
  <2>. QED  BY <2>1
<1> HIDE DEF cs, core
<1>. QED  BY <1>1, <1>2, <1>3, <1>4, ShortlistHolds

\* The spine of the scorecard is never turned, whatever the cheap reads say.
THEOREM SpineStands == Spec => []SpineIsNeverTurned
<1>1. ASSUME EInv  PROVE SpineIsNeverTurned
  <2>1. ASSUME NEW d \in 1..Today, NEW pref \in Prefs, NEW l \in Shortlists(store, d, pref)
        PROVE  LET ranked == l.funds \o l.near_misses
                   shown  == {ranked[i] : i \in DOMAIN ranked}
               IN  /\ \A i, j \in DOMAIN ranked :
                        i < j => ranked[j].total =< ranked[i].total + TieBand
                   /\ \A i \in DOMAIN l.screened :
                        LET s == l.screened[i]
                        IN  IsFresh(s, d) /\ s \notin shown =>
                              \/ \E o \in shown : Repeats(s, o)
                              \/ /\ Len(ranked) = TopN + NearMissN
                                 /\ \A o \in shown : s.total =< o.total + TieBand
    <3> DEFINE ranked == l.funds \o l.near_misses
               shown == {ranked[i] : i \in DOMAIN ranked}
    <3>1. d \in Int /\ pref \in [Fund -> Int]  BY EmergingAssumption
    <3>2. SpineHolds(ranked, l.screened, d)  BY <1>1, <3>1, ShortlistsHold DEF EInv
    <3> HIDE DEF ranked
    <3>3. \A i, j \in DOMAIN ranked : i < j => ranked[j].total =< ranked[i].total + TieBand
      BY <3>2 DEF SpineHolds
    <3>4. ASSUME NEW i \in DOMAIN l.screened,
                 IsFresh(l.screened[i], d), l.screened[i] \notin shown
          PROVE  \/ \E o \in shown : Repeats(l.screened[i], o)
                 \/ /\ Len(ranked) = TopN + NearMissN
                    /\ \A o \in shown : l.screened[i].total =< o.total + TieBand
      <4>1. \A m \in DOMAIN ranked : ranked[m] \in shown  OBVIOUS
      <4>2. \A o \in shown : \E m \in DOMAIN ranked : o = ranked[m]  OBVIOUS
      <4> HIDE DEF shown
      <4>. QED  BY <3>2, <3>4, <4>1, <4>2 DEF SpineHolds, Places
    <3>. QED  BY <3>3, <3>4 DEF ranked
  <2>. QED  BY <2>1 DEF SpineIsNeverTurned
<1>. QED  BY <1>1, EmergingInvariant, PTL

\* A fund read as listed as of a date on which a pull brought anything was brought by a
\* pull of that date, or has announced a later end: had the pull of the date left it out,
\* its last row, of an earlier date and with no end, would have been disclosed.
LEMMA ListedSurvives ==
    ASSUME NEW w, NEW pulled, UniverseHolds(w, pulled), NEW d \in Nat, d # 0,
           NEW after, UniverseHolds(w, after),
           after = AppendTo(pulled, Disclosures(ReadAsOf(pulled, d), d, DerivedStamp(d))),
           NEW n \in after, n.as_of = d,
           NEW u \in ReadAsOf(after, d), StillListed(u.payload.delisting, d)
    PROVE  /\ u \in after /\ u.key \in Fund
           /\ (u.as_of = d /\ u.payload.delisting # d) \/ w.ends[u.key] > d
<1> DEFINE latest == ReadAsOf(pulled, d)
           marks == Disclosures(latest, d, DerivedStamp(d))
<1>1. /\ u \in after /\ u.key \in Fund /\ u.as_of \in Int /\ u.as_of =< d
      /\ u.payload.delisting \in Int /\ u.payload.delisting \in {0, w.ends[u.key], u.as_of}
  BY DEF ReadAsOf, UniverseHolds, UniverseRow
<1>2. CASE u.as_of = d
  <2>1. u.payload.delisting # d  BY <1>1 DEF StillListed
  <2>. QED  BY <1>1, <1>2, <2>1
<1>3. CASE u.as_of # d /\ u.payload.delisting # 0
  <2>1. u.payload.delisting > d  BY <1>3 DEF StillListed
  <2>2. u.payload.delisting = w.ends[u.key]  BY <1>1, <1>3, <2>1
  <2>. QED  BY <1>1, <2>1, <2>2
<1>4. CASE u.as_of # d /\ u.payload.delisting = 0
  <2>0. u.as_of < d  BY <1>1, <1>4
  <2>1. \A m \in after : m.key = u.key /\ m.as_of = d => FALSE
    BY <1>1, <2>0 DEF ReadAsOf, NotBefore, UniverseHolds, UniverseRow
  <2>2. /\ pulled \subseteq after /\ after \subseteq pulled \cup marks
        /\ \A m \in marks : Accepts(pulled, m) => m \in after
    BY DEF AppendTo
  <2>3. ASSUME NEW m \in marks
        PROVE  m.as_of = d /\ \E r \in Dropped(latest, d) : m.key = r.key
    <3>1. PICK r \in Dropped(latest, d) :
            m = [r EXCEPT !.as_of = d, !.fetched_at = DerivedStamp(d), !.payload.delisting = d]
      BY DEF Disclosures
    <3>2. r \in UniverseRow  BY DEF Dropped, ReadAsOf, UniverseHolds
    <3>. QED  BY <3>1, <3>2 DEF UniverseRow
  <2>4. u \in pulled
    <3>1. u \notin marks  BY <2>0, <2>3
    <3>. QED  BY <1>1, <2>2, <3>1
  <2>5. u \in latest  BY <2>2, <2>4, <1>1 DEF ReadAsOf
  <2>6. \E r \in latest : r.as_of = d
    <3>1. CASE n \in pulled  BY <3>1, ReadOfDate DEF UniverseHolds
    <3>2. CASE n \in marks
      <4>1. Dropped(latest, d) # {}  BY <3>2, <2>3
      <4>. QED  BY <4>1 DEF Dropped
    <3>. QED  BY <3>1, <3>2, <2>2
  <2>7. u \in Dropped(latest, d)  BY <2>0, <2>5, <2>6, <1>4 DEF Dropped
  <2> DEFINE m == [u EXCEPT !.as_of = d, !.fetched_at = DerivedStamp(d),
                            !.payload.delisting = d]
  <2>8. m \in marks  BY <2>7 DEF Disclosures
  <2>9. m.key = u.key /\ m.as_of = d
    <3>1. u \in UniverseRow  BY <1>1 DEF UniverseHolds
    <3>. QED  BY <3>1 DEF UniverseRow
  <2> HIDE DEF m, marks, latest
  <2>10. Accepts(pulled, m)
    <3>1. Revisions(pulled, m) = {}  BY <2>1, <2>2, <2>9 DEF Revisions, SameFact
    <3>. QED  BY <3>1 DEF Accepts
  <2>11. m \in after  BY <2>2, <2>8, <2>10
  <2>. QED  BY <2>1, <2>9, <2>11
<1>. QED  BY <1>2, <1>3, <1>4

\* A stale mapping row never brings back a fund the feed has stopped listing.
THEOREM OnlyListedSurface == Spec => OnlyListedFundsSurface
<1>1. ASSUME EInv, EInv', [Next]_vars, NEW d \in Day, NEW pref \in Prefs,
             NEW n \in store'["universe"] \ store["universe"], n.as_of = d,
             NEW e \in EmergingList(store', d, pref)
      PROVE  \/ e.code \in {r.key : r \in {r \in store'["universe"] :
                                           r.as_of = d /\ r.payload.delisting # d}}
             \/ e.code \in {f \in Fund : world.ends[f] > d}
  <2> DEFINE after == store'["universe"]
  <2>1. PICK asOf \in Day, listed \in Listings, reached \in Reaches :
          Ingest(asOf, listed, reached)
    <3>1. ASSUME NEW asOf \in Day, NEW assessed, Discover(asOf, assessed)  PROVE FALSE
      BY <1>1, <3>1, DiscoverKeeps
    <3>2. ASSUME NEW asOf \in Day, RunMaps(asOf)  PROVE FALSE
      <4>1. asOf \in Int /\ store' = Materialised(store, asOf)  BY <3>2 DEF RunMaps, Day
      <4>. QED  BY <1>1, <4>1, MaterialisedHolds DEF EInv
    <3>3. TimePasses \/ UNCHANGED vars => store' = store  BY DEF TimePasses, vars
    <3>. QED  BY <1>1, <3>1, <3>2, <3>3 DEF Next
  <2> DEFINE pulled == AppendTo(store["universe"],
                                UniverseRows(listed, asOf, GatherStamp(asOf)))
             marks == Disclosures(ReadAsOf(pulled, asOf), asOf, DerivedStamp(asOf))
  <2>2. /\ Holds(world, store') /\ UniverseHolds(world, pulled)
        /\ after = AppendTo(pulled, marks)
    BY <1>1, <2>1, IngestKeeps
  <2>3. asOf = d
    <3>1. \A r \in UniverseRows(listed, asOf, GatherStamp(asOf)) : r.as_of = asOf
      BY DEF UniverseRows, Row
    <3>2. \A r \in marks : r.as_of = asOf
      <4>1. pulled \subseteq UniverseRow  BY <2>2 DEF UniverseHolds
      <4> HIDE DEF pulled
      <4>2. Dropped(ReadAsOf(pulled, asOf), asOf) \subseteq UniverseRow
        BY <4>1 DEF Dropped, ReadAsOf
      <4>. QED  BY <4>2 DEF Disclosures, UniverseRow
    <3>3. n \in store["universe"] \cup UniverseRows(listed, asOf, GatherStamp(asOf)) \cup marks
      BY <2>2, <1>1 DEF AppendTo
    <3>. QED  BY <1>1, <3>1, <3>2, <3>3
  <2> HIDE DEF pulled
  <2>4. d \in Int /\ d \in Nat /\ d # 0 /\ pref \in [Fund -> Int]
    BY EmergingAssumption DEF Day
  <2>5. PICK l \in Shortlists(store', d, pref) :
          \E i \in DOMAIN l.funds : e.code = l.funds[i].candidate.code
    BY DEF EmergingList
  <2>6. PICK u \in ListedAt(store', d) : u.key = e.code
    BY <1>1, <2>2, <2>4, <2>5, ShortlistsHold DEF EInv
  <2>7. u \in ReadAsOf(after, d) /\ StillListed(u.payload.delisting, d)  BY DEF ListedAt
  <2>8. UniverseHolds(world, after)  BY <2>2 DEF Holds
  <2>9. n \in after  OBVIOUS
  <2> HIDE DEF after
  <2>10. /\ u \in after /\ u.key \in Fund
         /\ (u.as_of = d /\ u.payload.delisting # d) \/ world.ends[u.key] > d
    BY <1>1, <2>2, <2>3, <2>4, <2>7, <2>8, <2>9, ListedSurvives
  <2>. QED  BY <2>6, <2>10 DEF after
<1>2. EInv /\ EInv' /\ [Next]_vars =>
        \A db \in {store'}, d \in Day, pref \in Prefs :
         (\E r \in db["universe"] \ store["universe"] : r.as_of = d) =>
            {e.code : e \in EmergingList(db, d, pref)} \subseteq
                {r.key : r \in {r \in db["universe"] :
                                  r.as_of = d /\ r.payload.delisting # d}}
                \cup {f \in Fund : world.ends[f] > d}
  BY <1>1
<1>. QED  BY <1>2, EmergingInvariant, PTL DEF Spec, OnlyListedFundsSurface
=============================================================================
