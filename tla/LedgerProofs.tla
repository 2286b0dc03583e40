---------------------------- MODULE LedgerProofs ----------------------------
(***************************************************************************)
(* How far a month can pass its ceiling, for any jobs, prices, ceiling and  *)
(* months, whoever dies when.                                               *)
(*                                                                         *)
(* BudgetGuard is a copy of the ledger, not the ledger. What makes a bound  *)
(* of it is that nothing is metered without the store: while a job holds it *)
(* its guard and what it has not charged yet cover the month (Covered), so  *)
(* a debate it starts starts under the ceiling (Allowed), and one debate is *)
(* all it has not charged (Uncharged).                                      *)
(*                                                                         *)
(* That the ledger is the sum of what the finished jobs metered needs facts *)
(* on MapThenSumSet, a fold over a finite set: that the fold exists, that   *)
(* any element may be taken out first, and that it depends on the elements  *)
(* only. They are proved by cardinality (Induct, with a set in the place of *)
(* the predicate).                                                          *)
(***************************************************************************)
EXTENDS Ledger, TLAPS, WellFoundedInduction, FiniteSetTheorems

\* A seeded job knows the month's spend, but for what its seed missed.
Covered ==
    \A j \in Job : pc[j] \in {"seats", "assess"}
        => metered[month[j]] =< spent[j] + fresh[j] + blind[month[j]]

\* What is not charged is the debate under way, a turn at a time.
Uncharged ==
    \A j \in Job : /\ turn[j] = Idle => fresh[j] = 0
                   /\ turn[j] # Idle => fresh[j] =< turn[j] * MaxCost

\* A debate under way started under the ceiling.
Allowed == \A j \in Job : turn[j] # Idle => spent[j] < Limit

\* What a nightly read of the ledger, and what it adds to it, is on the ledger.
PriorHolds ==
    \A j \in Job : /\ pc[j] = "read" => prior[j] =< ledger[month[j]]
                   /\ pc[j] = "booked" => prior[j] + usages[j] =< ledger[month[j]]

\* The debate under way is one of those left.
Ahead == \A j \in Job : turn[j] # Idle => left[j] > 0

IInv ==
    /\ TypeOK /\ Ahead /\ Covered /\ Uncharged /\ Allowed /\ PriorHolds
    /\ CeilingAccounted /\ RecordNeverAboveLedger

-----------------------------------------------------------------------------
(* TypeOK in five parts, each a leaf of its own. *)

Placed ==
    /\ pc \in [Job -> {"idle", "rerank", "seats", "assess", "closed", "read", "booked",
                       "done", "dead", "unlogged"}]
    /\ kind \in [Job -> Kinds] /\ month \in [Job -> Month]
    /\ holder \in Job \cup {NoJob}
Counted ==
    /\ left \in [Job -> Nat] /\ turn \in [Job -> -1..4] /\ broken \in [Job -> BOOLEAN]
    /\ usages \in [Job -> Nat] /\ fresh \in [Job -> Nat] /\ spent \in [Job -> Nat]
    /\ prior \in [Job -> Nat] /\ record \in [Job -> Nat]
Accounts ==
    /\ ledger \in [Month -> Nat] /\ metered \in [Month -> Nat]
    /\ reranked \in [Month -> Nat] /\ blind \in [Month -> Nat]
Holding == \A j \in Job : pc[j] \in {"rerank", "seats", "assess"} <=> holder = j
Turning == \A j \in Job : turn[j] # Idle => pc[j] \in {"seats", "assess"}

\* The type invariant is its parts.
LEMMA TypeParts == TypeOK <=> Placed /\ Counted /\ Accounts /\ Holding /\ Turning
BY DEF TypeOK, Placed, Counted, Accounts, Holding, Turning

\* A turn more may cost MaxCost more.
LEMMA OneTurnMore ==
    ASSUME NEW t \in 0..3, NEW f \in Nat, f =< t * MaxCost, NEW c \in Cost
    PROVE  f + c =< (t + 1) * MaxCost /\ f + c \in Nat
BY LedgerAssumption DEF Cost

\* A debate costs four turns at most.
LEMMA DebateCost ==
    ASSUME NEW t \in 0..4, NEW f \in Nat, f =< t * MaxCost
    PROVE  f =< Debate
<1>1. MaxCost \in Nat  BY LedgerAssumption
<1>2. t \in {0, 1, 2, 3, 4}  OBVIOUS
<1>. QED  BY <1>1, <1>2 DEF Debate

\* An answer comes in a debate that started under the ceiling.
LEMMA AnswerUnderCeiling ==
    ASSUME IInv, NEW j \in Job, Answer(j), pc[j] \in {"seats", "assess"},
           turn[j] \in 0..3, Covered', Uncharged'
    PROVE  CeilingAccounted'
<1>. Placed /\ Counted /\ Accounts /\ CeilingAccounted /\ Allowed
  BY TypeParts DEF IInv
<1> DEFINE n == month[j]
<1>1. n \in Month /\ month' = month /\ reranked' = reranked /\ blind' = blind
      /\ spent' = spent /\ pc' = pc
  BY DEF Placed, Answer, Meter
<1>2. PICK c \in Cost : /\ metered' = [metered EXCEPT ![n] = @ + c]
                        /\ fresh' = [fresh EXCEPT ![j] = @ + c]
  BY DEF Answer, Meter
<1>3. turn'[j] = turn[j] + 1  BY DEF Answer, Counted
<1>4. fresh'[j] \in Nat /\ fresh'[j] =< turn'[j] * MaxCost
  BY <1>2, <1>3, LedgerAssumption DEF Counted, Cost, Uncharged, Idle
<1>5. fresh'[j] =< Debate  BY <1>3, <1>4, DebateCost
<1>6. metered'[n] =< spent[j] + fresh'[j] + blind[n]  BY <1>1 DEF Covered
<1>7. spent[j] =< Limit - 1  BY LedgerAssumption DEF Allowed, Counted, Idle
<1>8. metered'[n] =< Larger(Limit - 1, 0) + Debate + reranked[n] + blind[n]
  BY <1>1, <1>2, <1>4, <1>5, <1>6, <1>7, LedgerAssumption
     DEF Larger, Counted, Accounts, Debate, Cost
<1>9. ASSUME NEW m \in Month, m # n
      PROVE  metered'[m] =< Larger(Limit - 1, 0) + Debate + reranked[m] + blind[m]
  BY <1>2, <1>9 DEF Accounts, CeilingAccounted
<1>. QED  BY <1>1, <1>8, <1>9 DEF CeilingAccounted

\* Every action keeps the types, and the store with the job that spends.
LEMMA TypeStep ==
    ASSUME TypeOK, Ahead, NEW j \in Job, Step(j)
    PROVE  TypeOK' /\ Ahead'
<1>. Placed /\ Counted /\ Accounts /\ Holding /\ Turning  BY TypeParts
<1>1. CASE OpenBuild(j)
  <2>1. Placed'  BY <1>1 DEF OpenBuild, Placed
  <2>2. Counted'  BY <1>1 DEF OpenBuild, Counted
  <2>3. Accounts'  BY <1>1 DEF OpenBuild, Accounts
  <2>4. Holding'  BY <1>1, LedgerAssumption DEF OpenBuild, Placed, Holding
  <2>5. Turning'  BY <1>1 DEF OpenBuild, Turning
  <2>6. Ahead'  BY <1>1 DEF OpenBuild, Turning, Ahead
  <2>. QED  BY <2>1, <2>2, <2>3, <2>4, <2>5, <2>6
       DEF TypeOK, Placed, Counted, Accounts, Holding, Turning
<1>2. CASE RerankRead(j)
  <2>1. Placed'  BY <1>2 DEF RerankRead, Placed
  <2>2. Counted'  BY <1>2 DEF RerankRead, Meter, Cost, Counted
  <2>3. Accounts'  BY <1>2 DEF RerankRead, Meter, Cost, Placed, Accounts
  <2>4. Holding'  BY <1>2 DEF RerankRead, Holding
  <2>5. Turning'  BY <1>2 DEF RerankRead, Turning
  <2>6. Ahead'  BY <1>2 DEF RerankRead, Turning, Ahead
  <2>. QED  BY <2>1, <2>2, <2>3, <2>4, <2>5, <2>6
       DEF TypeOK, Placed, Counted, Accounts, Holding, Turning
<1>3. CASE SeedSeats(j)
  <2>1. Placed'  BY <1>3 DEF SeedSeats, Placed
  <2>2. Counted'  BY <1>3 DEF SeedSeats, Seed, MonthToDate, Placed, Counted, Accounts
  <2>3. Accounts'  BY <1>3 DEF SeedSeats, Seed, Larger, Placed, Counted, Accounts
  <2>4. Holding'  BY <1>3 DEF SeedSeats, Holding
  <2>5. Turning'  BY <1>3 DEF SeedSeats, Turning
  <2>6. Ahead'  BY <1>3 DEF SeedSeats, Ahead
  <2>. QED  BY <2>1, <2>2, <2>3, <2>4, <2>5, <2>6
       DEF TypeOK, Placed, Counted, Accounts, Holding, Turning
<1>4. CASE OpenDiscovery(j)
  <2>1. Placed'  BY <1>4 DEF OpenDiscovery, Placed
  <2>2. Counted'  BY <1>4 DEF OpenDiscovery, Seed, MonthToDate, Placed, Counted, Accounts
  <2>3. Accounts'  BY <1>4 DEF OpenDiscovery, Seed, Larger, Placed, Accounts
  <2>4. Holding'  BY <1>4, LedgerAssumption DEF OpenDiscovery, Placed, Holding
  <2>5. Turning'  BY <1>4 DEF OpenDiscovery, Turning
  <2>6. Ahead'  BY <1>4 DEF OpenDiscovery, Turning, Ahead
  <2>. QED  BY <2>1, <2>2, <2>3, <2>4, <2>5, <2>6
       DEF TypeOK, Placed, Counted, Accounts, Holding, Turning
<1>5. CASE Start(j)
  <2>1. Placed'  BY <1>5 DEF Start, Placed
  <2>2. Counted'  BY <1>5 DEF Start, Counted
  <2>3. Accounts'  BY <1>5 DEF Start, Accounts
  <2>4. Holding'  BY <1>5 DEF Start, Holding
  <2>5. Turning'  BY <1>5 DEF Start, Turning
  <2>6. Ahead'  BY <1>5 DEF Start, Ahead
  <2>. QED  BY <2>1, <2>2, <2>3, <2>4, <2>5, <2>6
       DEF TypeOK, Placed, Counted, Accounts, Holding, Turning
<1>6. CASE Throttle(j)
  <2>1. Placed'  BY <1>6 DEF Throttle, Placed
  <2>2. Counted'  BY <1>6 DEF Throttle, Counted
  <2>3. Accounts'  BY <1>6 DEF Throttle, Accounts
  <2>4. Holding'  BY <1>6 DEF Throttle, Holding
  <2>5. Turning'  BY <1>6 DEF Throttle, Turning
  <2>6. Ahead'  BY <1>6 DEF Throttle, Ahead
  <2>. QED  BY <2>1, <2>2, <2>3, <2>4, <2>5, <2>6
       DEF TypeOK, Placed, Counted, Accounts, Holding, Turning
<1>7. CASE SeatAnswers(j)
  <2>1. Placed'  BY <1>7 DEF SeatAnswers, Answer, Placed
  <2>2. Counted'  BY <1>7 DEF SeatAnswers, Answer, Meter, Cost, Counted
  <2>3. Accounts'  BY <1>7 DEF SeatAnswers, Answer, Meter, Cost, Placed, Accounts
  <2>4. Holding'  BY <1>7 DEF SeatAnswers, Answer, Holding
  <2>5. Turning'  BY <1>7 DEF SeatAnswers, Answer, Turning
  <2>6. Ahead'  BY <1>7 DEF SeatAnswers, Answer, Ahead, Idle
  <2>. QED  BY <2>1, <2>2, <2>3, <2>4, <2>5, <2>6
       DEF TypeOK, Placed, Counted, Accounts, Holding, Turning
<1>8. CASE SeatRaises(j)
  <2>1. Placed'  BY <1>8 DEF SeatRaises, Raise, Placed
  <2>2. Counted'  BY <1>8 DEF SeatRaises, Raise, Counted
  <2>3. Accounts'  BY <1>8 DEF SeatRaises, Raise, Accounts
  <2>4. Holding'  BY <1>8 DEF SeatRaises, Raise, Holding
  <2>5. Turning'  BY <1>8 DEF SeatRaises, Raise, Turning
  <2>6. Ahead'  BY <1>8 DEF SeatRaises, Raise, Ahead, Idle
  <2>. QED  BY <2>1, <2>2, <2>3, <2>4, <2>5, <2>6
       DEF TypeOK, Placed, Counted, Accounts, Holding, Turning
<1>9. CASE SynthesisAnswers(j)
  <2>1. Placed'  BY <1>9 DEF SynthesisAnswers, Answer, Placed
  <2>2. Counted'  BY <1>9 DEF SynthesisAnswers, Answer, Meter, Cost, Counted
  <2>3. Accounts'  BY <1>9 DEF SynthesisAnswers, Answer, Meter, Cost, Placed, Accounts
  <2>4. Holding'  BY <1>9 DEF SynthesisAnswers, Answer, Holding
  <2>5. Turning'  BY <1>9 DEF SynthesisAnswers, Answer, Turning
  <2>6. Ahead'  BY <1>9 DEF SynthesisAnswers, Answer, Ahead, Idle
  <2>. QED  BY <2>1, <2>2, <2>3, <2>4, <2>5, <2>6
       DEF TypeOK, Placed, Counted, Accounts, Holding, Turning
<1>10. CASE SynthesisRaises(j)
  <2>1. Placed'  BY <1>10 DEF SynthesisRaises, Raise, Placed
  <2>2. Counted'  BY <1>10 DEF SynthesisRaises, Raise, Counted
  <2>3. Accounts'  BY <1>10 DEF SynthesisRaises, Raise, Accounts
  <2>4. Holding'  BY <1>10 DEF SynthesisRaises, Raise, Holding
  <2>5. Turning'  BY <1>10 DEF SynthesisRaises, Raise, Turning
  <2>6. Ahead'  BY <1>10 DEF SynthesisRaises, Raise, Ahead, Idle
  <2>. QED  BY <2>1, <2>2, <2>3, <2>4, <2>5, <2>6
       DEF TypeOK, Placed, Counted, Accounts, Holding, Turning
<1>11. CASE AssessorAnswers(j)
  <2>1. Placed'  BY <1>11 DEF AssessorAnswers, Answer, Placed
  <2>2. Counted'  BY <1>11 DEF AssessorAnswers, Answer, Meter, Cost, Counted
  <2>3. Accounts'  BY <1>11 DEF AssessorAnswers, Answer, Meter, Cost, Placed, Accounts
  <2>4. Holding'  BY <1>11 DEF AssessorAnswers, Answer, Holding
  <2>5. Turning'  BY <1>11 DEF AssessorAnswers, Answer, Turning
  <2>6. Ahead'  BY <1>11 DEF AssessorAnswers, Answer, Ahead, Idle
  <2>. QED  BY <2>1, <2>2, <2>3, <2>4, <2>5, <2>6
       DEF TypeOK, Placed, Counted, Accounts, Holding, Turning
<1>12. CASE Charge(j)
  <2>1. Placed'  BY <1>12 DEF Charge, Placed
  <2>2. Counted'  BY <1>12 DEF Charge, Counted, Idle, Ahead
  <2>3. Accounts'  BY <1>12 DEF Charge, Accounts
  <2>4. Holding'  BY <1>12 DEF Charge, Holding
  <2>5. Turning'  BY <1>12 DEF Charge, Turning
  <2>6. Ahead'  BY <1>12 DEF Charge, Counted, Ahead
  <2>. QED  BY <2>1, <2>2, <2>3, <2>4, <2>5, <2>6
       DEF TypeOK, Placed, Counted, Accounts, Holding, Turning
<1>13. CASE BookDiscovery(j)
  <2>1. Placed'  BY <1>13 DEF BookDiscovery, Placed
  <2>2. Counted'  BY <1>13 DEF BookDiscovery, Counted
  <2>3. Accounts'  BY <1>13 DEF BookDiscovery, Booked, Placed, Counted, Accounts
  <2>4. Holding'  BY <1>13, LedgerAssumption DEF BookDiscovery, Placed, Holding
  <2>5. Turning'  BY <1>13 DEF BookDiscovery, Turning
  <2>6. Ahead'  BY <1>13 DEF BookDiscovery, Ahead
  <2>. QED  BY <2>1, <2>2, <2>3, <2>4, <2>5, <2>6
       DEF TypeOK, Placed, Counted, Accounts, Holding, Turning
<1>14. CASE CloseBuild(j)
  <2>1. Placed'  BY <1>14 DEF CloseBuild, Placed
  <2>2. Counted'  BY <1>14 DEF CloseBuild, Counted
  <2>3. Accounts'  BY <1>14 DEF CloseBuild, Accounts
  <2>4. Holding'  BY <1>14, LedgerAssumption DEF CloseBuild, Placed, Holding
  <2>5. Turning'  BY <1>14 DEF CloseBuild, Turning
  <2>6. Ahead'  BY <1>14 DEF CloseBuild, Ahead
  <2>. QED  BY <2>1, <2>2, <2>3, <2>4, <2>5, <2>6
       DEF TypeOK, Placed, Counted, Accounts, Holding, Turning
<1>15. CASE ReadPrior(j)
  <2>1. Placed'  BY <1>15 DEF ReadPrior, Placed
  <2>2. Counted'  BY <1>15 DEF ReadPrior, MonthToDate, Placed, Counted, Accounts
  <2>3. Accounts'  BY <1>15 DEF ReadPrior, Accounts
  <2>4. Holding'  BY <1>15 DEF ReadPrior, Holding
  <2>5. Turning'  BY <1>15 DEF ReadPrior, Turning
  <2>6. Ahead'  BY <1>15 DEF ReadPrior, Ahead
  <2>. QED  BY <2>1, <2>2, <2>3, <2>4, <2>5, <2>6
       DEF TypeOK, Placed, Counted, Accounts, Holding, Turning
<1>16. CASE BookNightly(j)
  <2>1. Placed'  BY <1>16 DEF BookNightly, Placed
  <2>2. Counted'  BY <1>16 DEF BookNightly, Counted
  <2>3. Accounts'  BY <1>16 DEF BookNightly, Booked, Placed, Counted, Accounts
  <2>4. Holding'  BY <1>16 DEF BookNightly, Holding
  <2>5. Turning'  BY <1>16 DEF BookNightly, Turning
  <2>6. Ahead'  BY <1>16 DEF BookNightly, Ahead
  <2>. QED  BY <2>1, <2>2, <2>3, <2>4, <2>5, <2>6
       DEF TypeOK, Placed, Counted, Accounts, Holding, Turning
<1>17. CASE AppendRecord(j)
  <2>1. Placed'  BY <1>17 DEF AppendRecord, Placed
  <2>2. Counted'  BY <1>17 DEF AppendRecord, Counted
  <2>3. Accounts'  BY <1>17 DEF AppendRecord, Accounts
  <2>4. Holding'  BY <1>17 DEF AppendRecord, Holding
  <2>5. Turning'  BY <1>17 DEF AppendRecord, Turning
  <2>6. Ahead'  BY <1>17 DEF AppendRecord, Ahead
  <2>. QED  BY <2>1, <2>2, <2>3, <2>4, <2>5, <2>6
       DEF TypeOK, Placed, Counted, Accounts, Holding, Turning
<1>18. CASE Abort(j)
  <2>1. Placed'  BY <1>18 DEF Abort, Placed
  <2>2. Counted'  BY <1>18 DEF Abort, Counted, Idle
  <2>3. Accounts'  BY <1>18 DEF Abort, Accounts
  <2>4. Holding'  BY <1>18, LedgerAssumption DEF Abort, Placed, Holding
  <2>5. Turning'  BY <1>18 DEF Abort, Counted, Turning
  <2>6. Ahead'  BY <1>18 DEF Abort, Counted, Ahead
  <2>. QED  BY <2>1, <2>2, <2>3, <2>4, <2>5, <2>6
       DEF TypeOK, Placed, Counted, Accounts, Holding, Turning
<1>. QED  BY <1>1, <1>2, <1>3, <1>4, <1>5, <1>6, <1>7, <1>8, <1>9, <1>10, <1>11, <1>12,
             <1>13, <1>14, <1>15, <1>16, <1>17, <1>18
     DEF Step

\* Every action keeps the accounts.
LEMMA AccountStep ==
    ASSUME IInv, NEW j \in Job, Step(j)
    PROVE  Covered' /\ Uncharged' /\ Allowed' /\ PriorHolds'
           /\ CeilingAccounted' /\ RecordNeverAboveLedger'
<1>. Placed /\ Counted /\ Accounts /\ Holding /\ Turning  BY TypeParts DEF IInv
<1>. Ahead /\ Covered /\ Uncharged /\ Allowed /\ PriorHolds /\ CeilingAccounted
     /\ RecordNeverAboveLedger
  BY DEF IInv
<1>1. CASE OpenBuild(j)
  <2>1. Covered'  BY <1>1 DEF OpenBuild, Covered
  <2>2. (Uncharged /\ Allowed)'  BY <1>1 DEF OpenBuild, Uncharged, Allowed
  <2>3. CeilingAccounted'  BY <1>1 DEF OpenBuild, CeilingAccounted
  <2>4. (PriorHolds /\ RecordNeverAboveLedger)'  BY <1>1
       DEF OpenBuild, PriorHolds, RecordNeverAboveLedger
  <2>. QED  BY <2>1, <2>2, <2>3, <2>4
<1>2. CASE RerankRead(j)
  <2>1. Covered'  BY <1>2 DEF RerankRead, Holding, Covered
  <2>2. (Uncharged /\ Allowed)'  BY <1>2 DEF RerankRead, Uncharged, Allowed
  <2>3. CeilingAccounted'  BY <1>2, LedgerAssumption
       DEF RerankRead, Meter, Cost, Accounts, CeilingAccounted, Larger, Debate
  <2>4. (PriorHolds /\ RecordNeverAboveLedger)'  BY <1>2
       DEF RerankRead, Meter, PriorHolds, RecordNeverAboveLedger
  <2>. QED  BY <2>1, <2>2, <2>3, <2>4
<1>3. CASE SeedSeats(j)
  <2>1. Covered'  BY <1>3
       DEF SeedSeats, Seed, MonthToDate, Larger, Placed, Counted, Accounts, Covered
  <2>2. (Uncharged /\ Allowed)'  BY <1>3 DEF SeedSeats, Seed, Uncharged, Allowed, Turning
  <2>3. CeilingAccounted'  BY <1>3, LedgerAssumption
       DEF SeedSeats, Seed, Larger, Counted, Accounts, CeilingAccounted, Debate
  <2>4. (PriorHolds /\ RecordNeverAboveLedger)'  BY <1>3
       DEF SeedSeats, PriorHolds, RecordNeverAboveLedger
  <2>. QED  BY <2>1, <2>2, <2>3, <2>4
<1>4. CASE OpenDiscovery(j)
  <2>1. Covered'  BY <1>4
       DEF OpenDiscovery, Seed, MonthToDate, Larger, Placed, Counted, Accounts, Covered
  <2>2. (Uncharged /\ Allowed)'  BY <1>4
       DEF OpenDiscovery, Seed, Uncharged, Allowed, Turning
  <2>3. CeilingAccounted'  BY <1>4, LedgerAssumption
       DEF OpenDiscovery, Seed, Larger, Accounts, CeilingAccounted, Debate
  <2>4. (PriorHolds /\ RecordNeverAboveLedger)'  BY <1>4
       DEF OpenDiscovery, PriorHolds, RecordNeverAboveLedger
  <2>. QED  BY <2>1, <2>2, <2>3, <2>4
<1>5. CASE Start(j)
  <2>1. Covered'  BY <1>5 DEF Start, Covered
  <2>2. (Uncharged /\ Allowed)'  BY <1>5, LedgerAssumption
       DEF Start, Affordable, Uncharged, Allowed
  <2>3. CeilingAccounted'  BY <1>5 DEF Start, CeilingAccounted
  <2>4. (PriorHolds /\ RecordNeverAboveLedger)'  BY <1>5
       DEF Start, PriorHolds, RecordNeverAboveLedger
  <2>. QED  BY <2>1, <2>2, <2>3, <2>4
<1>6. CASE Throttle(j)
  <2>1. Covered'  BY <1>6 DEF Throttle, Covered
  <2>2. (Uncharged /\ Allowed)'  BY <1>6 DEF Throttle, Uncharged, Allowed
  <2>3. CeilingAccounted'  BY <1>6 DEF Throttle, CeilingAccounted
  <2>4. (PriorHolds /\ RecordNeverAboveLedger)'  BY <1>6
       DEF Throttle, PriorHolds, RecordNeverAboveLedger
  <2>. QED  BY <2>1, <2>2, <2>3, <2>4
<1>7. CASE SeatAnswers(j)
  <2>1. Covered'  BY <1>7
       DEF SeatAnswers, Answer, Meter, Cost, Placed, Counted, Accounts, Holding,
           Covered
  <2>2. (Uncharged /\ Allowed)'  BY <1>7, OneTurnMore
       DEF SeatAnswers, Answer, Counted, Uncharged, Allowed, Idle
  <2>3. CeilingAccounted'  BY <1>7, <2>1, <2>2, AnswerUnderCeiling DEF SeatAnswers
  <2>4. (PriorHolds /\ RecordNeverAboveLedger)'  BY <1>7
       DEF SeatAnswers, Answer, Meter, PriorHolds, RecordNeverAboveLedger
  <2>. QED  BY <2>1, <2>2, <2>3, <2>4
<1>8. CASE SeatRaises(j)
  <2>1. Covered'  BY <1>8 DEF SeatRaises, Raise, Covered
  <2>2. (Uncharged /\ Allowed)'  BY <1>8, LedgerAssumption
       DEF SeatRaises, Raise, Counted, Uncharged, Allowed, Idle
  <2>3. CeilingAccounted'  BY <1>8 DEF SeatRaises, Raise, CeilingAccounted
  <2>4. (PriorHolds /\ RecordNeverAboveLedger)'  BY <1>8
       DEF SeatRaises, Raise, PriorHolds, RecordNeverAboveLedger
  <2>. QED  BY <2>1, <2>2, <2>3, <2>4
<1>9. CASE SynthesisAnswers(j)
  <2>1. Covered'  BY <1>9
       DEF SynthesisAnswers, Answer, Meter, Cost, Placed, Counted, Accounts, Holding,
           Covered
  <2>2. (Uncharged /\ Allowed)'  BY <1>9, OneTurnMore
       DEF SynthesisAnswers, Answer, Counted, Uncharged, Allowed, Idle
  <2>3. CeilingAccounted'  BY <1>9, <2>1, <2>2, AnswerUnderCeiling DEF SynthesisAnswers
  <2>4. (PriorHolds /\ RecordNeverAboveLedger)'  BY <1>9
       DEF SynthesisAnswers, Answer, Meter, PriorHolds, RecordNeverAboveLedger
  <2>. QED  BY <2>1, <2>2, <2>3, <2>4
<1>10. CASE SynthesisRaises(j)
  <2>1. Covered'  BY <1>10 DEF SynthesisRaises, Raise, Covered
  <2>2. (Uncharged /\ Allowed)'  BY <1>10, LedgerAssumption
       DEF SynthesisRaises, Raise, Counted, Uncharged, Allowed, Idle
  <2>3. CeilingAccounted'  BY <1>10 DEF SynthesisRaises, Raise, CeilingAccounted
  <2>4. (PriorHolds /\ RecordNeverAboveLedger)'  BY <1>10
       DEF SynthesisRaises, Raise, PriorHolds, RecordNeverAboveLedger
  <2>. QED  BY <2>1, <2>2, <2>3, <2>4
<1>11. CASE AssessorAnswers(j)
  <2>1. Covered'  BY <1>11
       DEF AssessorAnswers, Answer, Meter, Cost, Placed, Counted, Accounts, Holding,
           Covered
  <2>2. (Uncharged /\ Allowed)'  BY <1>11, OneTurnMore
       DEF AssessorAnswers, Answer, Counted, Uncharged, Allowed, Idle
  <2>3. CeilingAccounted'  BY <1>11, <2>1, <2>2, AnswerUnderCeiling DEF AssessorAnswers
  <2>4. (PriorHolds /\ RecordNeverAboveLedger)'  BY <1>11
       DEF AssessorAnswers, Answer, Meter, PriorHolds, RecordNeverAboveLedger
  <2>. QED  BY <2>1, <2>2, <2>3, <2>4
<1>12. CASE Charge(j)
  <2>1. Covered'  BY <1>12 DEF Charge, Counted, Covered
  <2>2. (Uncharged /\ Allowed)'  BY <1>12 DEF Charge, Counted, Uncharged, Allowed
  <2>3. CeilingAccounted'  BY <1>12 DEF Charge, CeilingAccounted
  <2>4. (PriorHolds /\ RecordNeverAboveLedger)'  BY <1>12
       DEF Charge, PriorHolds, RecordNeverAboveLedger
  <2>. QED  BY <2>1, <2>2, <2>3, <2>4
<1>13. CASE BookDiscovery(j)
  <2>1. Covered'  BY <1>13 DEF BookDiscovery, Covered
  <2>2. (Uncharged /\ Allowed)'  BY <1>13 DEF BookDiscovery, Uncharged, Allowed
  <2>3. CeilingAccounted'  BY <1>13 DEF BookDiscovery, CeilingAccounted
  <2>4. (PriorHolds /\ RecordNeverAboveLedger)'  BY <1>13
       DEF BookDiscovery, Booked, Counted, Accounts, PriorHolds, RecordNeverAboveLedger
  <2>. QED  BY <2>1, <2>2, <2>3, <2>4
<1>14. CASE CloseBuild(j)
  <2>1. Covered'  BY <1>14 DEF CloseBuild, Covered
  <2>2. (Uncharged /\ Allowed)'  BY <1>14 DEF CloseBuild, Uncharged, Allowed
  <2>3. CeilingAccounted'  BY <1>14 DEF CloseBuild, CeilingAccounted
  <2>4. (PriorHolds /\ RecordNeverAboveLedger)'  BY <1>14
       DEF CloseBuild, PriorHolds, RecordNeverAboveLedger
  <2>. QED  BY <2>1, <2>2, <2>3, <2>4
<1>15. CASE ReadPrior(j)
  <2>1. Covered'  BY <1>15 DEF ReadPrior, Covered
  <2>2. (Uncharged /\ Allowed)'  BY <1>15 DEF ReadPrior, Uncharged, Allowed
  <2>3. CeilingAccounted'  BY <1>15 DEF ReadPrior, CeilingAccounted
  <2>4. (PriorHolds /\ RecordNeverAboveLedger)'  BY <1>15
       DEF ReadPrior, MonthToDate, Placed, Counted, Accounts, PriorHolds,
           RecordNeverAboveLedger
  <2>. QED  BY <2>1, <2>2, <2>3, <2>4
<1>16. CASE BookNightly(j)
  <2>1. Covered'  BY <1>16 DEF BookNightly, Covered
  <2>2. (Uncharged /\ Allowed)'  BY <1>16 DEF BookNightly, Uncharged, Allowed
  <2>3. CeilingAccounted'  BY <1>16 DEF BookNightly, CeilingAccounted
  <2>4. (PriorHolds /\ RecordNeverAboveLedger)'  BY <1>16
       DEF BookNightly, Booked, Placed, Counted, Accounts, PriorHolds,
           RecordNeverAboveLedger
  <2>. QED  BY <2>1, <2>2, <2>3, <2>4
<1>17. CASE AppendRecord(j)
  <2>1. Covered'  BY <1>17 DEF AppendRecord, Covered
  <2>2. (Uncharged /\ Allowed)'  BY <1>17 DEF AppendRecord, Uncharged, Allowed
  <2>3. CeilingAccounted'  BY <1>17 DEF AppendRecord, CeilingAccounted
  <2>4. (PriorHolds /\ RecordNeverAboveLedger)'  BY <1>17
       DEF AppendRecord, PriorHolds, RecordNeverAboveLedger
  <2>. QED  BY <2>1, <2>2, <2>3, <2>4
<1>18. CASE Abort(j)
  <2>1. Covered'  BY <1>18 DEF Abort, Placed, Covered
  <2>2. (Uncharged /\ Allowed)'  BY <1>18 DEF Abort, Counted, Uncharged, Allowed
  <2>3. CeilingAccounted'  BY <1>18 DEF Abort, CeilingAccounted
  <2>4. (PriorHolds /\ RecordNeverAboveLedger)'  BY <1>18
       DEF Abort, PriorHolds, RecordNeverAboveLedger
  <2>. QED  BY <2>1, <2>2, <2>3, <2>4
<1>. QED  BY <1>1, <1>2, <1>3, <1>4, <1>5, <1>6, <1>7, <1>8, <1>9, <1>10, <1>11, <1>12,
             <1>13, <1>14, <1>15, <1>16, <1>17, <1>18
     DEF Step

-----------------------------------------------------------------------------

\* The initial state satisfies the invariant.
LEMMA InitHolds == Init => IInv
<1>. SUFFICES ASSUME Init  PROVE IInv  OBVIOUS
<1>1. TypeOK  BY LedgerAssumption DEF Init, TypeOK, Idle
<1>2. CeilingAccounted  BY LedgerAssumption DEF Init, CeilingAccounted, Larger, Debate
<1>. QED
  BY <1>1, <1>2
     DEF Init, IInv, Ahead, Covered, Uncharged, Allowed, PriorHolds, RecordNeverAboveLedger

\* Every step keeps it.
LEMMA Inductive == IInv /\ [Next]_vars => IInv'
<1>. SUFFICES ASSUME IInv, [Next]_vars  PROVE IInv'  OBVIOUS
<1>1. CASE Next
  <2>1. PICK j \in Job : Step(j)  BY <1>1 DEF Next
  <2>. QED  BY <2>1, TypeStep, AccountStep DEF IInv
<1>2. CASE UNCHANGED vars
  BY <1>2 DEF vars, jobVars, IInv, TypeOK, Ahead, Covered, Uncharged, Allowed, PriorHolds,
              CeilingAccounted, RecordNeverAboveLedger
<1>. QED  BY <1>1, <1>2

-----------------------------------------------------------------------------
(* Sums over finite sets: what MapThenSumSet, defined by recursion, computes. *)

\* A set with 0 and every successor of its numbers has every number.
LEMMA Induct ==
    ASSUME NEW T, 0 \in T, \A n \in Nat : n \in T => n + 1 \in T
    PROVE  Nat \subseteq T
<1> DEFINE R == OpToRel(<, Nat)
           Bad == {n \in Nat : n \notin T}
<1>1. SUFFICES ASSUME Bad # {}  PROVE FALSE  OBVIOUS
<1>2. IsWellFoundedOn(R, Nat)  BY NatLessThanWellFounded
<1>3. Bad \subseteq Nat  OBVIOUS
<1> HIDE DEF Bad, R
<1>4. PICK n \in Bad : \A m \in Bad : <<m, n>> \notin R
  BY <1>1, <1>2, <1>3, WFMin
<1> USE DEF Bad
<1>5. n \in Nat /\ n \notin T /\ n # 0  OBVIOUS
<1>6. n - 1 \in Nat /\ n - 1 < n  BY <1>5
<1>7. <<n - 1, n>> \in R  BY <1>5, <1>6 DEF R, OpToRel
<1>8. n - 1 \in T  BY <1>4, <1>6, <1>7
<1>. QED  BY <1>5, <1>6, <1>8

\* What MapThenSumSet takes out of a set first.
Pick(s) == CHOOSE x \in s : TRUE

\* One unfolding, over the sets of D, of the function MapThenSumSet is defined by.
Unfold(u, D, f) == [s \in D |-> IF s = {} THEN 0 ELSE u[Pick(s)] + f[s \ {Pick(s)}]]

\* Every element of a set may be taken out of its sum first.
AnyFirst(u, S, f) ==
    \A s \in SUBSET S : /\ f[s] \in Int
                        /\ \A x \in s : f[s] = u[x] + f[s \ {x}]

\* f is that function for the subsets of S.
IsFold(u, S, f) == f = Unfold(u, SUBSET S, f)

Sum(u, S) == MapThenSumSet(LAMBDA j : u[j], S)

TheFold(u, S) == CHOOSE f : IsFold(u, S, f)

\* The sum is the value of that function at the set.
LEMMA SumIsFold == ASSUME NEW u, NEW S  PROVE Sum(u, S) = TheFold(u, S)[S]
BY DEF Sum, TheFold, IsFold, Unfold, MapThenSumSet, MapThenFoldSet, Pick

\* What is taken out of a set was in it.
LEMMA PickIn == ASSUME NEW s, s # {}  PROVE Pick(s) \in s
BY DEF Pick

\* The fold of a finite set exists: it is built up by cardinality.
LEMMA FoldExists ==
    ASSUME NEW u, NEW S, IsFiniteSet(S)
    PROVE  IsFold(u, S, TheFold(u, S))
<1> DEFINE Small(n) == {s \in SUBSET S : Cardinality(s) =< n}
           Done == {n \in Nat : \E f : f = Unfold(u, Small(n), f)}
<1>1. \A s \in SUBSET S : IsFiniteSet(s) /\ Cardinality(s) \in Nat
  BY FS_Subset, FS_CardinalityType
<1>2. 0 \in Done
  <2> DEFINE f == [s \in Small(0) |-> 0]
  <2>1. \A s \in Small(0) : s = {}
    <3>1. ASSUME NEW s \in Small(0)  PROVE s = {}
      <4>1. IsFiniteSet(s) /\ Cardinality(s) = 0  BY <1>1
      <4>. QED  BY <4>1, FS_EmptySet
    <3>. QED  BY <3>1
  <2>2. f = Unfold(u, Small(0), f)  BY <2>1 DEF Unfold
  <2>. QED  BY <2>2
<1>3. ASSUME NEW n \in Nat, n \in Done  PROVE n + 1 \in Done
  <2>1. PICK f : f = Unfold(u, Small(n), f)  BY <1>3
  <2> DEFINE g == Unfold(u, Small(n + 1), f)
  <2>2. \A s \in Small(n) : s \in Small(n + 1) /\ g[s] = f[s]
    <3>1. ASSUME NEW s \in Small(n)  PROVE s \in Small(n + 1)  BY <1>1
    <3>. QED  BY <3>1, <2>1 DEF Unfold
  <2>3. ASSUME NEW s \in Small(n + 1), s # {}  PROVE s \ {Pick(s)} \in Small(n)
    <3>1. Pick(s) \in s  BY <2>3, PickIn
    <3>2. Cardinality(s \ {Pick(s)}) = Cardinality(s) - 1
      BY <3>1, <1>1, FS_RemoveElement
    <3>. QED  BY <3>2, <1>1
  <2>4. g = Unfold(u, Small(n + 1), g)
    <3> HIDE DEF Small
    <3>. QED  BY <2>2, <2>3 DEF Unfold
  <2>5. n + 1 \in Nat  OBVIOUS
  <2> HIDE DEF g, Small
  <2>. QED  BY <2>4, <2>5
<1>4. Nat \subseteq Done
  <2> HIDE DEF Done
  <2>. QED  BY <1>2, <1>3, Induct
<1>5. Cardinality(S) \in Done  BY <1>1, <1>4
<1>6. Small(Cardinality(S)) = SUBSET S  BY FS_Subset
<1>7. \E f : IsFold(u, S, f)  BY <1>5, <1>6 DEF IsFold
<1>. QED  BY <1>7 DEF TheFold

\* Two folds of equal values agree on the finite sets that both are about.
LEMMA FoldsAgree ==
    ASSUME NEW u, NEW v, NEW S, IsFiniteSet(S), NEW T \in SUBSET S,
           \A x \in T : u[x] = v[x],
           NEW f, IsFold(u, S, f), NEW g, IsFold(v, T, g)
    PROVE  f[T] = g[T]
<1> DEFINE Done == {n \in Nat : \A s \in SUBSET T : Cardinality(s) = n => f[s] = g[s]}
<1>1. \A s \in SUBSET T : /\ s \in SUBSET S /\ IsFiniteSet(s) /\ Cardinality(s) \in Nat
  BY FS_Subset, FS_CardinalityType
<1>2. 0 \in Done
  <2>1. ASSUME NEW s \in SUBSET T, Cardinality(s) = 0  PROVE f[s] = g[s]
    <3>1. s = {}  BY <2>1, <1>1, FS_EmptySet
    <3>. QED  BY <3>1 DEF IsFold, Unfold
  <2>. QED  BY <2>1
<1>3. ASSUME NEW n \in Nat, n \in Done  PROVE n + 1 \in Done
  <2>1. ASSUME NEW s \in SUBSET T, Cardinality(s) = n + 1  PROVE f[s] = g[s]
    <3>1. s # {}
      <4>1. n + 1 # 0  OBVIOUS
      <4>. QED  BY <4>1, <2>1, FS_EmptySet
    <3>2. Pick(s) \in s  BY <3>1, PickIn
    <3>3. Cardinality(s \ {Pick(s)}) = n
      <4>1. Cardinality(s \ {Pick(s)}) = Cardinality(s) - 1
        BY <3>2, <1>1, FS_RemoveElement
      <4>. QED  BY <4>1, <2>1
    <3>4. f[s \ {Pick(s)}] = g[s \ {Pick(s)}]  BY <3>3, <1>3
    <3>5. f[s] = u[Pick(s)] + f[s \ {Pick(s)}]  BY <3>1, <1>1 DEF IsFold, Unfold
    <3>6. g[s] = v[Pick(s)] + g[s \ {Pick(s)}]  BY <3>1 DEF IsFold, Unfold
    <3>. QED  BY <3>2, <3>4, <3>5, <3>6
  <2>. QED  BY <2>1
<1>4. Nat \subseteq Done
  <2> HIDE DEF Done
  <2>. QED  BY <1>2, <1>3, Induct
<1>. QED  BY <1>1, <1>4

\* In a sum of integers, any element may be taken out first.
LEMMA FoldAnyFirst ==
    ASSUME NEW S, IsFiniteSet(S), NEW u, \A x \in S : u[x] \in Int,
           NEW f, IsFold(u, S, f)
    PROVE  AnyFirst(u, S, f)
<1> DEFINE Good(s) == /\ f[s] \in Int
                      /\ \A x \in s : f[s] = u[x] + f[s \ {x}]
           Done == {n \in Nat : \A s \in SUBSET S : Cardinality(s) =< n => Good(s)}
<1>1. \A s \in SUBSET S : IsFiniteSet(s) /\ Cardinality(s) \in Nat
  BY FS_Subset, FS_CardinalityType
<1>2. 0 \in Done
  <2>1. ASSUME NEW s \in SUBSET S, Cardinality(s) =< 0  PROVE Good(s)
    <3>1. s = {}
      <4>1. Cardinality(s) = 0  BY <2>1, <1>1
      <4>. QED  BY <4>1, <1>1, FS_EmptySet
    <3>2. f[s] = 0  BY <3>1 DEF IsFold, Unfold
    <3>. QED  BY <3>1, <3>2
  <2>. QED  BY <2>1
<1>3. ASSUME NEW n \in Nat, n \in Done  PROVE n + 1 \in Done
  <2>1. ASSUME NEW s \in SUBSET S, Cardinality(s) =< n + 1, s # {}  PROVE Good(s)
    <3>1. Pick(s) \in s /\ u[Pick(s)] \in Int  BY <2>1, PickIn
    <3>2. ASSUME NEW t \in SUBSET s, NEW x \in s, x \notin t  PROVE Good(t)
      <4>1. Cardinality(s \ {x}) = Cardinality(s) - 1  BY <1>1, FS_RemoveElement
      <4>2. Cardinality(t) =< Cardinality(s \ {x})
        <5>1. t \in SUBSET (s \ {x}) /\ IsFiniteSet(s \ {x})  BY <3>2, <1>1
        <5>. QED  BY <5>1, FS_Subset
      <4>3. Cardinality(t) =< n  BY <4>1, <4>2, <2>1, <1>1
      <4>4. t \in SUBSET S  OBVIOUS
      <4> HIDE DEF Good
      <4>. QED  BY <4>3, <4>4, <1>3
    <3>3. f[s] = u[Pick(s)] + f[s \ {Pick(s)}]  BY <2>1 DEF IsFold, Unfold
    <3>4. Good(s \ {Pick(s)})
      <4> HIDE DEF Good
      <4>. QED  BY <3>1, <3>2
    <3>5. ASSUME NEW x \in s  PROVE f[s] = u[x] + f[s \ {x}]
      <4>1. CASE x = Pick(s)  BY <4>1, <3>3
      <4>2. CASE x # Pick(s)
        <5> DEFINE y == Pick(s)
                   rest == (s \ {x}) \ {y}
        <5>1. (s \ {y}) \ {x} = rest /\ x \in s \ {y} /\ y \in s \ {x}  BY <4>2, <3>1
        <5>2. Good(s \ {x}) /\ Good(s \ {y}) /\ Good(rest)
          <6> HIDE DEF Good
          <6>. QED  BY <3>1, <3>2
        <5>3. f[s \ {y}] = u[x] + f[rest]  BY <5>1, <5>2
        <5>4. f[s \ {x}] = u[y] + f[rest]  BY <5>1, <5>2
        <5>5. u[x] \in Int /\ f[rest] \in Int  BY <5>2
        <5>. QED  BY <5>3, <5>4, <5>5, <3>1, <3>3
      <4>. QED  BY <4>1, <4>2
    <3>6. f[s] \in Int
      <4>1. f[s \ {Pick(s)}] \in Int  BY <3>4
      <4>. QED  BY <4>1, <3>1, <3>3
    <3>. QED  BY <3>5, <3>6
  <2>2. ASSUME NEW s \in SUBSET S, Cardinality(s) =< n + 1  PROVE Good(s)
    <3>1. CASE s = {}
      <4>1. Good({})
        <5>1. Cardinality({}) =< 0 /\ {} \in SUBSET S  BY FS_EmptySet
        <5> HIDE DEF Good
        <5>. QED  BY <5>1, <1>2
      <4>. QED  BY <3>1, <4>1
    <3>2. CASE s # {}
      <4> HIDE DEF Good
      <4>. QED  BY <2>1, <2>2, <3>2
    <3>. QED  BY <3>1, <3>2
  <2> HIDE DEF Good
  <2>. QED  BY <2>2
<1>4. Nat \subseteq Done
  <2> HIDE DEF Done
  <2>. QED  BY <1>2, <1>3, Induct
<1> HIDE DEF Good
<1>5. \A s \in SUBSET S : Good(s)  BY <1>1, <1>4
<1>. QED  BY <1>5 DEF Good, AnyFirst

\* A sum of integers is an integer, and gains what is added to its set.
LEMMA SumAdd ==
    ASSUME NEW S, IsFiniteSet(S), NEW x, x \notin S, NEW u,
           \A y \in S \cup {x} : u[y] \in Int
    PROVE  /\ Sum(u, S) \in Int
           /\ Sum(u, S \cup {x}) = Sum(u, S) + u[x]
<1> DEFINE T == S \cup {x}
           f == TheFold(u, T)
           g == TheFold(u, S)
<1>1. IsFiniteSet(T)  BY FS_AddElement
<1>2. IsFold(u, T, f) /\ IsFold(u, S, g)  BY <1>1, FoldExists
<1>3. Sum(u, T) = f[T] /\ Sum(u, S) = g[S]  BY SumIsFold
<1>4. S \in SUBSET T /\ T \in SUBSET T /\ x \in T /\ T \ {x} = S  OBVIOUS
<1>5. \A y \in T : u[y] \in Int  OBVIOUS
<1> HIDE DEF f, g, T
<1>6. f[S] = g[S]  BY <1>1, <1>2, <1>4, FoldsAgree
<1>7. f[S] \in Int /\ f[T] = u[x] + f[S]
  <2>1. AnyFirst(u, T, f)  BY <1>1, <1>2, <1>5, FoldAnyFirst
  <2>. QED  BY <2>1, <1>4 DEF AnyFirst
<1>8. u[x] \in Int  BY <1>4, <1>5
<1>9. Sum(u, T) = Sum(u, S) + u[x]  BY <1>3, <1>6, <1>7, <1>8
<1>. QED  BY <1>3, <1>6, <1>7, <1>9 DEF T

\* Equal values have equal sums.
LEMMA SumSame ==
    ASSUME NEW S, IsFiniteSet(S), NEW u, NEW v, \A x \in S : u[x] = v[x]
    PROVE  Sum(u, S) = Sum(v, S)
<1> DEFINE f == TheFold(u, S)
           g == TheFold(v, S)
<1>1. IsFold(u, S, f) /\ IsFold(v, S, g) /\ S \in SUBSET S  BY FoldExists
<1>2. f[S] = g[S]
  <2> HIDE DEF f, g
  <2>. QED  BY <1>1, FoldsAgree
<1>. QED  BY <1>2, SumIsFold

\* Nothing sums to 0.
LEMMA SumEmpty == ASSUME NEW u  PROVE Sum(u, {}) = 0
<1>1. IsFold(u, {}, TheFold(u, {}))  BY FS_EmptySet, FoldExists
<1>. QED  BY <1>1, SumIsFold DEF IsFold, Unfold

-----------------------------------------------------------------------------
(* The ledger is a sum: one job at a time is added to it. *)

\* A job that has booked, or never will.
Over == {"booked", "done", "unlogged"}

\* The jobs whose rows the ledger of a month holds.
Finished(m) ==
    {j \in Job : month[j] = m /\ kind[j] # "run" /\ pc[j] \in Over}

\* The jobs that have begun, finitely many at any time.
Begun == {j \in Job : pc[j] # "idle"}

\* Where a job is tells what kind it is.
KindFits ==
    \A j \in Job : /\ pc[j] \in {"rerank", "seats"} => kind[j] # "discovery"
                   /\ pc[j] = "assess" => kind[j] = "discovery"
                   /\ pc[j] \in {"closed", "read", "booked", "unlogged"}
                        => kind[j] = "nightly"

BInv == TypeOK /\ Ahead /\ KindFits /\ IsFiniteSet(Begun) /\ FinishedIsBookedOnce

\* The property as a sum over the finished jobs.
LEMMA BookedIsSum ==
    FinishedIsBookedOnce <=> \A m \in Month : ledger[m] = Sum(usages, Finished(m))
BY DEF FinishedIsBookedOnce, Sum, Finished, Over

\* The same of the next state.
LEMMA BookedIsSumNext ==
    FinishedIsBookedOnce' <=> \A m \in Month : ledger'[m] = Sum(usages', Finished(m)')
<1>1. (FinishedIsBookedOnce <=> \A m \in Month : ledger[m] = Sum(usages, Finished(m)))'
  BY BookedIsSum, PTL
<1>. QED  BY <1>1

\* Of the jobs that have begun, those finished are finitely many too.
LEMMA FinishedFinite ==
    ASSUME IsFiniteSet(Begun), NEW m
    PROVE  IsFiniteSet(Finished(m))
<1>1. Finished(m) \in SUBSET Begun  BY DEF Finished, Begun, Over
<1>. QED  BY <1>1, FS_Subset

\* A step of one job begins at most that job.
LEMMA BegunStaysFinite ==
    ASSUME IsFiniteSet(Begun), NEW j \in Job,
           \A k \in Job \ {j} : pc'[k] = pc[k]
    PROVE  IsFiniteSet(Begun')
<1>1. IsFiniteSet(Begun \cup {j})  BY FS_AddElement
<1>2. Begun' \in SUBSET (Begun \cup {j})  BY DEF Begun
<1>. QED  BY <1>1, <1>2, FS_Subset

\* A job that meters or moves before it is over leaves the ledger what it was.
LEMMA NotBooking ==
    ASSUME BInv, NEW j \in Job, ledger' = ledger, month' = month, kind' = kind,
           \A k \in Job \ {j} : pc'[k] = pc[k] /\ usages'[k] = usages[k],
           \/ pc'[j] \in Over /\ pc[j] \in Over /\ usages'[j] = usages[j]
           \/ pc[j] \notin Over /\ (pc'[j] \notin Over \/ kind[j] = "run")
    PROVE  FinishedIsBookedOnce'
<1>1. SUFFICES ASSUME NEW m \in Month  PROVE ledger'[m] = Sum(usages', Finished(m)')
  BY BookedIsSumNext
<1>2. Finished(m)' = Finished(m)  BY DEF Finished
<1>3. \A k \in Finished(m) : usages'[k] = usages[k]  BY DEF Finished
<1>4. IsFiniteSet(Finished(m))  BY FinishedFinite DEF BInv
<1>5. Sum(usages', Finished(m)) = Sum(usages, Finished(m))  BY <1>3, <1>4, SumSame
<1>6. ledger[m] = Sum(usages, Finished(m))  BY BookedIsSum DEF BInv
<1>. QED  BY <1>2, <1>5, <1>6

\* A job that books has not booked before, and adds what it metered.
LEMMA Booking ==
    ASSUME BInv, NEW j \in Job, ledger' = Booked(j), month' = month, kind' = kind,
           usages' = usages, \A k \in Job \ {j} : pc'[k] = pc[k],
           pc[j] \notin Over, pc'[j] \in Over, kind[j] # "run"
    PROVE  FinishedIsBookedOnce'
<1>1. SUFFICES ASSUME NEW m \in Month  PROVE ledger'[m] = Sum(usages, Finished(m)')
  BY BookedIsSumNext
<1>2. IsFiniteSet(Finished(m))  BY FinishedFinite DEF BInv
<1>3. ledger[m] = Sum(usages, Finished(m))  BY BookedIsSum DEF BInv
<1>4. usages \in [Job -> Nat] /\ ledger \in [Month -> Nat] /\ month \in [Job -> Month]
  BY DEF BInv, TypeOK
<1>5. CASE month[j] = m
  <2>1. Finished(m)' = Finished(m) \cup {j} /\ j \notin Finished(m)
    BY <1>5 DEF Finished
  <2>2. \A k \in Finished(m) \cup {j} : usages[k] \in Int
    BY <1>4 DEF Finished
  <2>3. Sum(usages, Finished(m) \cup {j}) = Sum(usages, Finished(m)) + usages[j]
    BY <1>2, <2>1, <2>2, SumAdd
  <2>4. ledger'[m] = ledger[m] + usages[j]  BY <1>4, <1>5 DEF Booked
  <2>. QED  BY <1>3, <2>1, <2>3, <2>4
<1>6. CASE month[j] # m
  <2>1. Finished(m)' = Finished(m)  BY <1>6 DEF Finished
  <2>2. ledger'[m] = ledger[m]  BY <1>4, <1>6 DEF Booked
  <2>. QED  BY <1>3, <2>1, <2>2
<1>. QED  BY <1>5, <1>6

\* Every action keeps the sum: two of them book, the others leave the ledger alone.
LEMMA BookStep ==
    ASSUME BInv, NEW j \in Job, Step(j)
    PROVE  KindFits' /\ IsFiniteSet(Begun') /\ FinishedIsBookedOnce'
<1>. Placed /\ Counted /\ KindFits  BY TypeParts DEF BInv
<1>. KindFits /\ IsFiniteSet(Begun) /\ \A k \in Job : kind[k] \in {"nightly", "run", "discovery"}
  BY LedgerAssumption DEF BInv, Placed
<1>1. CASE OpenBuild(j)
  <2>. USE <1>1 DEF OpenBuild
  <2>1. KindFits'  BY DEF KindFits, Placed
  <2>2. IsFiniteSet(Begun')  BY BegunStaysFinite DEF Placed
  <2>3. FinishedIsBookedOnce'  BY NotBooking DEF Placed, Over
  <2>. QED  BY <2>1, <2>2, <2>3
<1>2. CASE RerankRead(j)
  <2>. USE <1>2 DEF RerankRead, Meter
  <2>1. KindFits'  BY DEF KindFits, Placed
  <2>2. IsFiniteSet(Begun')  BY BegunStaysFinite DEF Placed
  <2>3. FinishedIsBookedOnce'  BY NotBooking DEF Placed, Counted, Over
  <2>. QED  BY <2>1, <2>2, <2>3
<1>3. CASE SeedSeats(j)
  <2>. USE <1>3 DEF SeedSeats
  <2>1. KindFits'  BY DEF KindFits, Placed
  <2>2. IsFiniteSet(Begun')  BY BegunStaysFinite DEF Placed
  <2>3. FinishedIsBookedOnce'  BY NotBooking DEF Placed, Counted, Over
  <2>. QED  BY <2>1, <2>2, <2>3
<1>4. CASE OpenDiscovery(j)
  <2>. USE <1>4 DEF OpenDiscovery
  <2>1. KindFits'  BY DEF KindFits, Placed
  <2>2. IsFiniteSet(Begun')  BY BegunStaysFinite DEF Placed
  <2>3. FinishedIsBookedOnce'  BY NotBooking DEF Placed, Counted, Over
  <2>. QED  BY <2>1, <2>2, <2>3
<1>5. CASE Start(j)
  <2>. USE <1>5 DEF Start
  <2>1. KindFits'  BY DEF KindFits, Placed
  <2>2. IsFiniteSet(Begun')  BY BegunStaysFinite DEF Placed
  <2>3. FinishedIsBookedOnce'  BY NotBooking DEF Placed, Counted, Over
  <2>. QED  BY <2>1, <2>2, <2>3
<1>6. CASE Throttle(j)
  <2>. USE <1>6 DEF Throttle
  <2>1. KindFits'  BY DEF KindFits, Placed
  <2>2. IsFiniteSet(Begun')  BY BegunStaysFinite DEF Placed
  <2>3. FinishedIsBookedOnce'  BY NotBooking DEF Placed, Counted, Over
  <2>. QED  BY <2>1, <2>2, <2>3
<1>7. CASE SeatAnswers(j)
  <2>. USE <1>7 DEF SeatAnswers, Answer, Meter
  <2>1. KindFits'  BY DEF KindFits, Placed
  <2>2. IsFiniteSet(Begun')  BY BegunStaysFinite DEF Placed
  <2>3. FinishedIsBookedOnce'  BY NotBooking DEF Placed, Counted, Over
  <2>. QED  BY <2>1, <2>2, <2>3
<1>8. CASE SeatRaises(j)
  <2>. USE <1>8 DEF SeatRaises, Raise
  <2>1. KindFits'  BY DEF KindFits, Placed
  <2>2. IsFiniteSet(Begun')  BY BegunStaysFinite DEF Placed
  <2>3. FinishedIsBookedOnce'  BY NotBooking DEF Placed, Counted, Over
  <2>. QED  BY <2>1, <2>2, <2>3
<1>9. CASE SynthesisAnswers(j)
  <2>. USE <1>9 DEF SynthesisAnswers, Answer, Meter
  <2>1. KindFits'  BY DEF KindFits, Placed
  <2>2. IsFiniteSet(Begun')  BY BegunStaysFinite DEF Placed
  <2>3. FinishedIsBookedOnce'  BY NotBooking DEF Placed, Counted, Over
  <2>. QED  BY <2>1, <2>2, <2>3
<1>10. CASE SynthesisRaises(j)
  <2>. USE <1>10 DEF SynthesisRaises, Raise
  <2>1. KindFits'  BY DEF KindFits, Placed
  <2>2. IsFiniteSet(Begun')  BY BegunStaysFinite DEF Placed
  <2>3. FinishedIsBookedOnce'  BY NotBooking DEF Placed, Counted, Over
  <2>. QED  BY <2>1, <2>2, <2>3
<1>11. CASE AssessorAnswers(j)
  <2>. USE <1>11 DEF AssessorAnswers, Answer, Meter
  <2>1. KindFits'  BY DEF KindFits, Placed
  <2>2. IsFiniteSet(Begun')  BY BegunStaysFinite DEF Placed
  <2>3. FinishedIsBookedOnce'  BY NotBooking DEF Placed, Counted, Over
  <2>. QED  BY <2>1, <2>2, <2>3
<1>12. CASE Charge(j)
  <2>. USE <1>12 DEF Charge
  <2>1. KindFits'  BY DEF KindFits, Placed
  <2>2. IsFiniteSet(Begun')  BY BegunStaysFinite DEF Placed
  <2>3. FinishedIsBookedOnce'  BY NotBooking DEF Placed, Counted, Over
  <2>. QED  BY <2>1, <2>2, <2>3
<1>13. CASE BookDiscovery(j)
  <2>. USE <1>13 DEF BookDiscovery
  <2>1. KindFits'  BY DEF KindFits, Placed
  <2>2. IsFiniteSet(Begun')  BY BegunStaysFinite DEF Placed
  <2>3. FinishedIsBookedOnce'  BY Booking DEF Placed, Over, KindFits
  <2>. QED  BY <2>1, <2>2, <2>3
<1>14. CASE CloseBuild(j)
  <2>. USE <1>14 DEF CloseBuild
  <2>1. KindFits'  BY DEF KindFits, Placed
  <2>2. IsFiniteSet(Begun')  BY BegunStaysFinite DEF Placed
  <2>3. FinishedIsBookedOnce'  BY NotBooking DEF Placed, Over, KindFits
  <2>. QED  BY <2>1, <2>2, <2>3
<1>15. CASE ReadPrior(j)
  <2>. USE <1>15 DEF ReadPrior
  <2>1. KindFits'  BY DEF KindFits, Placed
  <2>2. IsFiniteSet(Begun')  BY BegunStaysFinite DEF Placed
  <2>3. FinishedIsBookedOnce'  BY NotBooking DEF Placed, Counted, Over
  <2>. QED  BY <2>1, <2>2, <2>3
<1>16. CASE BookNightly(j)
  <2>. USE <1>16 DEF BookNightly
  <2>1. KindFits'  BY DEF KindFits, Placed
  <2>2. IsFiniteSet(Begun')  BY BegunStaysFinite DEF Placed
  <2>3. FinishedIsBookedOnce'  BY Booking DEF Placed, Over, KindFits
  <2>. QED  BY <2>1, <2>2, <2>3
<1>17. CASE AppendRecord(j)
  <2>. USE <1>17 DEF AppendRecord
  <2>1. KindFits'  BY DEF KindFits, Placed
  <2>2. IsFiniteSet(Begun')  BY BegunStaysFinite DEF Placed
  <2>3. FinishedIsBookedOnce'  BY NotBooking DEF Placed, Counted, Over
  <2>. QED  BY <2>1, <2>2, <2>3
<1>18. CASE Abort(j)
  <2>. USE <1>18 DEF Abort
  <2>1. KindFits'  BY DEF KindFits, Placed
  <2>2. IsFiniteSet(Begun')  BY BegunStaysFinite DEF Placed
  <2>3. FinishedIsBookedOnce'  BY NotBooking DEF Placed, Counted, Over
  <2>. QED  BY <2>1, <2>2, <2>3
<1>. QED  BY <1>1, <1>2, <1>3, <1>4, <1>5, <1>6, <1>7, <1>8, <1>9, <1>10, <1>11, <1>12,
             <1>13, <1>14, <1>15, <1>16, <1>17, <1>18
     DEF Step

\* Nothing has begun and nothing is booked.
LEMMA BookInit == Init => BInv
<1>. SUFFICES ASSUME Init  PROVE BInv  OBVIOUS
<1>1. TypeOK /\ Ahead  BY InitHolds DEF IInv
<1>2. KindFits  BY DEF Init, KindFits
<1>3. Begun = {}  BY DEF Init, Begun
<1>4. \A m \in Month : Finished(m) = {}  BY DEF Init, Finished, Over
<1>5. FinishedIsBookedOnce
  <2>1. \A m \in Month : ledger[m] = 0  BY DEF Init
  <2>. QED  BY <1>4, <2>1, SumEmpty, BookedIsSum
<1>. QED  BY <1>1, <1>2, <1>3, <1>5, FS_EmptySet DEF BInv

\* The steps of one job, and no step at all.
LEMMA BookInductive == BInv /\ [Next]_vars => BInv'
<1>. SUFFICES ASSUME BInv, [Next]_vars  PROVE BInv'  OBVIOUS
<1>1. CASE Next
  <2>1. PICK j \in Job : Step(j)  BY <1>1 DEF Next
  <2>2. TypeOK' /\ Ahead'  BY <2>1, TypeStep DEF BInv
  <2>. QED  BY <2>1, <2>2, BookStep DEF BInv
<1>2. CASE UNCHANGED vars
  <2>. USE <1>2 DEF vars, jobVars
  <2>1. TypeOK' /\ Ahead'  BY DEF BInv, TypeOK, Ahead
  <2>2. KindFits'  BY DEF BInv, KindFits
  <2>3. Begun' = Begun  BY DEF Begun
  <2>4. FinishedIsBookedOnce'
    <3>1. \A m \in Month : Finished(m)' = Finished(m)  BY DEF Finished
    <3>. QED  BY <3>1, BookedIsSum, BookedIsSumNext DEF BInv
  <2>. QED  BY <2>1, <2>2, <2>3, <2>4 DEF BInv
<1>. QED  BY <1>1, <1>2

-----------------------------------------------------------------------------

\* Seeds, charges and bookings keep the invariant, whoever overlaps, aborts or dies.
THEOREM LedgerInvariant == Spec => []IInv
BY InitHolds, Inductive, PTL DEF Spec

\* Every variable keeps its type, and what is metered is metered by the job that holds
\* the store.
THEOREM LedgerTypeCorrect == Spec => []TypeOK
<1>1. IInv => TypeOK  BY DEF IInv
<1>. QED  BY <1>1, LedgerInvariant, PTL

\* For any ceiling and any cost of a turn, a month passes its ceiling by less than one
\* debate, by its re-rank reads, and by what a guard was seeded without.
THEOREM LedgerCeiling == Spec => []CeilingAccounted
<1>1. IInv => CeilingAccounted  BY DEF IInv
<1>. QED  BY <1>1, LedgerInvariant, PTL

\* A run record never shows more of a month than the ledger holds, though jobs book
\* between its read and its own rows.
THEOREM LedgerRecord == Spec => []RecordNeverAboveLedger
<1>1. IInv => RecordNeverAboveLedger  BY DEF IInv
<1>. QED  BY <1>1, LedgerInvariant, PTL

\* Whoever overlaps, aborts or dies, the ledger of a month is the sum of what its
\* finished nightlies and discoveries metered, each counted once, for any set of jobs.
THEOREM LedgerBookedOnce == Spec => []FinishedIsBookedOnce
<1>1. BInv => FinishedIsBookedOnce  BY DEF BInv
<1>. QED  BY <1>1, BookInit, BookInductive, PTL DEF Spec
=============================================================================
