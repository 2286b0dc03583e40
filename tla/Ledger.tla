------------------------------- MODULE Ledger -------------------------------
(***************************************************************************)
(* The month's spend. Three kinds of job spend on models: the nightly and a *)
(* bare `run` (re-rank reads, then the seats' debates) and discovery (draft *)
(* and judge). Each seeds a BudgetGuard from the ledger while it holds the  *)
(* store, checks it before a debate and charges it after, and books what it *)
(* metered at its end: the nightly when it no longer holds the store,       *)
(* discovery while it still does, a bare run never.                         *)
(***************************************************************************)
EXTENDS Integers, FiniteSetsExt

CONSTANTS
    Job, NoJob,     \* runs of the program; none
    Month,          \* calendar months of an as_of
    Kinds,          \* of "nightly", "run", "discovery"
    Limit,          \* config.monthly_budget_usd
    MaxCost,        \* bound: what one model turn costs at most
    Finalists,      \* bound: re-rank reads of a run
    Fresh           \* bound: briefs that reach the guard (no cached debate, a slot
                    \* left), topics above the noise

ASSUME LedgerAssumption ==
    /\ NoJob \notin Job
    /\ Kinds \subseteq {"nightly", "run", "discovery"}
    /\ Limit \in Nat /\ MaxCost \in Nat /\ Finalists \in Nat /\ Fresh \in Nat

VARIABLES
    pc, kind, month,
    holder,     \* the job that holds the store file
    left,       \* reads, briefs or topics the job still has before it
    turn,       \* answers of the debate or assessment under way; Idle between two
    broken,     \* a seat of the debate under way raised
    usages,     \* what the job's providers metered, in total
    fresh,      \* the part of it the guard has not been charged yet
    spent,      \* BudgetGuard._spent
    prior,      \* the nightly's read of the ledger before it books
    record,     \* month_to_date_usd of its run record
    ledger,     \* what month_to_date_usd sums: the rows of each month
    metered,    \* history: all that was metered in a month
    reranked,   \* history: the part of it spent on re-rank reads
    blind       \* history: the most a guard of the month was seeded without

jobVars == <<pc, kind, month, left, turn, broken, usages, fresh, spent, prior, record>>
vars == <<jobVars, holder, ledger, metered, reranked, blind>>

Cost == 0..MaxCost
Idle == -1
Debate == 4 * MaxCost   \* two seats, two synthesis orders

\* month_to_date_usd
MonthToDate(m) == ledger[m]

Init ==
    /\ pc = [j \in Job |-> "idle"]
    /\ kind \in [Job -> Kinds] /\ month \in [Job -> Month]
    /\ holder = NoJob
    /\ left = [j \in Job |-> 0] /\ turn = [j \in Job |-> Idle]
    /\ broken = [j \in Job |-> FALSE]
    /\ usages = [j \in Job |-> 0] /\ fresh = [j \in Job |-> 0]
    /\ spent = [j \in Job |-> 0]
    /\ prior = [j \in Job |-> 0] /\ record = [j \in Job |-> 0]
    /\ ledger = [m \in Month |-> 0] /\ metered = [m \in Month |-> 0]
    /\ reranked = [m \in Month |-> 0] /\ blind = [m \in Month |-> 0]

Larger(a, b) == IF a >= b THEN a ELSE b

\* BudgetGuard(limit, month to date + own), made when the job has metered `own`.
Seed(j, own) ==
    /\ spent' = [spent EXCEPT ![j] = MonthToDate(month[j]) + own]
    /\ blind' = [blind EXCEPT ![month[j]] =
                    Larger(@, metered[month[j]] - own - ledger[month[j]])]

Affordable(j) == spent[j] < Limit

\* A model turn came back with its cost: one Usage.
Meter(j, c) ==
    /\ usages' = [usages EXCEPT ![j] = @ + c]
    /\ metered' = [metered EXCEPT ![month[j]] = @ + c]

-----------------------------------------------------------------------------
\* build_dashboard: the store is opened, then the emerging finalists are read.
OpenBuild(j) ==
    /\ pc[j] = "idle" /\ holder = NoJob /\ kind[j] # "discovery"
    /\ pc' = [pc EXCEPT ![j] = "rerank"]
    /\ holder' = j
    /\ \E n \in 0..Finalists : left' = [left EXCEPT ![j] = n]
    /\ UNCHANGED <<kind, month, turn, broken, usages, fresh, spent, prior, record,
                   ledger, metered, reranked, blind>>

\* LLMReranker.read: no guard stands before it.
RerankRead(j) ==
    /\ pc[j] = "rerank" /\ left[j] > 0
    /\ left' = [left EXCEPT ![j] = @ - 1]
    /\ \E c \in Cost :
        /\ Meter(j, c)
        /\ reranked' = [reranked EXCEPT ![month[j]] = @ + c]
    /\ UNCHANGED <<pc, kind, month, holder, turn, broken, fresh, spent, prior, record,
                   ledger, blind>>

\* build_dashboard: spent = month to date + the re-rank; the seats come next.
SeedSeats(j) ==
    /\ pc[j] = "rerank" /\ left[j] = 0
    /\ Seed(j, usages[j])
    /\ pc' = [pc EXCEPT ![j] = "seats"]
    /\ \E n \in 0..Fresh : left' = [left EXCEPT ![j] = n]
    /\ UNCHANGED <<kind, month, holder, turn, broken, usages, fresh, prior, record,
                   ledger, metered, reranked>>

\* discover: the store is opened, the corpus appended, the guard seeded.
OpenDiscovery(j) ==
    /\ pc[j] = "idle" /\ holder = NoJob /\ kind[j] = "discovery"
    /\ Seed(j, 0)
    /\ pc' = [pc EXCEPT ![j] = "assess"]
    /\ holder' = j
    /\ \E n \in 0..Fresh : left' = [left EXCEPT ![j] = n]
    /\ UNCHANGED <<kind, month, turn, broken, usages, fresh, prior, record, ledger,
                   metered, reranked>>

\* digest_item, discover_themes: one more debate or assessment is affordable.
Start(j) ==
    /\ pc[j] \in {"seats", "assess"} /\ left[j] > 0 /\ turn[j] = Idle
    /\ Affordable(j)
    /\ turn' = [turn EXCEPT ![j] = 0]
    /\ broken' = [broken EXCEPT ![j] = FALSE]
    /\ UNCHANGED <<pc, kind, month, holder, left, usages, fresh, spent, prior, record,
                   ledger, metered, reranked, blind>>

\* Over the ceiling: a brief is deferred and the next is looked at; discovery stops.
Throttle(j) ==
    /\ pc[j] \in {"seats", "assess"} /\ left[j] > 0 /\ turn[j] = Idle
    /\ ~Affordable(j)
    /\ left' = [left EXCEPT ![j] = IF pc[j] = "seats" THEN @ - 1 ELSE 0]
    /\ UNCHANGED <<pc, kind, month, holder, turn, broken, usages, fresh, spent, prior,
                   record, ledger, metered, reranked, blind>>

\* A turn came back whole: its Usage is recorded, and is not charged yet.
Answer(j) ==
    /\ turn' = [turn EXCEPT ![j] = @ + 1]
    /\ \E c \in Cost :
        /\ Meter(j, c)
        /\ fresh' = [fresh EXCEPT ![j] = @ + c]
    /\ UNCHANGED <<pc, kind, month, holder, left, broken, spent, prior, record, ledger,
                   reranked, blind>>

\* A turn raised before its Usage was recorded; `n` turns count as over.
Raise(j, n) ==
    /\ turn' = [turn EXCEPT ![j] = n]
    /\ broken' = [broken EXCEPT ![j] = TRUE]
    /\ UNCHANGED <<pc, kind, month, holder, left, usages, fresh, spent, prior, record,
                   ledger, metered, reranked, blind>>

\* ClaudeCodeProvider.seats: the two seats run in two threads, and leaving the pool
\* waits for both, so a seat that raises leaves the other one running.
SeatAnswers(j) == pc[j] = "seats" /\ turn[j] \in {0, 1} /\ Answer(j)
SeatRaises(j) == pc[j] = "seats" /\ turn[j] \in {0, 1} /\ Raise(j, turn[j] + 1)

\* _run_debate: the synthesis, in both orders, when no seat raised; the first order
\* that raises ends it.
SynthesisAnswers(j) ==
    pc[j] = "seats" /\ turn[j] \in {2, 3} /\ ~broken[j] /\ Answer(j)
SynthesisRaises(j) ==
    pc[j] = "seats" /\ turn[j] \in {2, 3} /\ ~broken[j] /\ Raise(j, 4)

\* LLMAssessor.assess: the draft, then the judge.
AssessorAnswers(j) == pc[j] = "assess" /\ turn[j] \in {0, 1} /\ Answer(j)

\* Mutant: a debate whose seat raised is not charged.
ChargeWhole(j) ==
    /\ turn[j] \in {2, 4}
    /\ pc[j] = "assess" => turn[j] = 2
    /\ spent' = [spent EXCEPT ![j] = @ + (IF broken[j] THEN 0 ELSE fresh[j])]
    /\ fresh' = [fresh EXCEPT ![j] = 0]
    /\ turn' = [turn EXCEPT ![j] = Idle]
    /\ \E n \in {left[j] - 1} \cup (IF broken[j] THEN {0} ELSE {}) :
            left' = [left EXCEPT ![j] = n]
    /\ UNCHANGED <<pc, kind, month, holder, broken, usages, prior, record, ledger,
                   metered, reranked, blind>>

\* The debate or assessment is over and its usages are charged: after the seats when
\* one of them raised or their cases cancel, else after both orders. A seat that met
\* the usage wall defers all that is left.
Charge(j) ==
    /\ turn[j] \in {2, 4}
    /\ pc[j] = "assess" => turn[j] = 2
    /\ spent' = [spent EXCEPT ![j] = @ + fresh[j]]
    /\ fresh' = [fresh EXCEPT ![j] = 0]
    /\ turn' = [turn EXCEPT ![j] = Idle]
    /\ \E n \in {left[j] - 1} \cup (IF broken[j] THEN {0} ELSE {}) :
            left' = [left EXCEPT ![j] = n]
    /\ UNCHANGED <<pc, kind, month, holder, broken, usages, prior, record, ledger,
                   metered, reranked, blind>>

-----------------------------------------------------------------------------
Booked(j) == [ledger EXCEPT ![month[j]] = @ + usages[j]]

\* discover: the themes are appended, the spend booked, the store closed.
BookDiscovery(j) ==
    /\ pc[j] = "assess" /\ left[j] = 0 /\ turn[j] = Idle
    /\ ledger' = Booked(j)
    /\ pc' = [pc EXCEPT ![j] = "done"]
    /\ holder' = NoJob
    /\ UNCHANGED <<kind, month, left, turn, broken, usages, fresh, spent, prior, record,
                   metered, reranked, blind>>

\* Mutant: build_dashboard books what it metered, and nightly books it again.
CloseBooks(j) ==
    /\ pc[j] = "seats" /\ left[j] = 0 /\ turn[j] = Idle
    /\ ledger' = Booked(j)
    /\ pc' = [pc EXCEPT ![j] = IF kind[j] = "nightly" THEN "closed" ELSE "done"]
    /\ holder' = NoJob
    /\ UNCHANGED <<kind, month, left, turn, broken, usages, fresh, spent, prior, record,
                   metered, reranked, blind>>

\* Mutant: build_dashboard returns without closing the store.
CloseBuildHolding(j) ==
    /\ pc[j] = "seats" /\ left[j] = 0 /\ turn[j] = Idle
    /\ pc' = [pc EXCEPT ![j] = IF kind[j] = "nightly" THEN "closed" ELSE "done"]
    /\ UNCHANGED <<kind, month, holder, left, turn, broken, usages, fresh, spent, prior,
                   record, ledger, metered, reranked, blind>>

\* build_dashboard closes the store; only the nightly gave it a sink for its usages.
CloseBuild(j) ==
    /\ pc[j] = "seats" /\ left[j] = 0 /\ turn[j] = Idle
    /\ pc' = [pc EXCEPT ![j] = IF kind[j] = "nightly" THEN "closed" ELSE "done"]
    /\ holder' = NoJob
    /\ UNCHANGED <<kind, month, left, turn, broken, usages, fresh, spent, prior, record,
                   ledger, metered, reranked, blind>>

\* nightly, after the artifact and the replica: prior_month_to_date.
ReadPrior(j) ==
    /\ pc[j] = "closed"
    /\ prior' = [prior EXCEPT ![j] = MonthToDate(month[j])]
    /\ pc' = [pc EXCEPT ![j] = "read"]
    /\ UNCHANGED <<kind, month, holder, left, turn, broken, usages, fresh, spent, record,
                   ledger, metered, reranked, blind>>

\* nightly: append_spend.
BookNightly(j) ==
    /\ pc[j] = "read"
    /\ ledger' = Booked(j)
    /\ pc' = [pc EXCEPT ![j] = "booked"]
    /\ UNCHANGED <<kind, month, holder, left, turn, broken, usages, fresh, spent, prior,
                   record, metered, reranked, blind>>

\* Mutant: the record adds tonight's spend to a ledger that already has it.
AppendRecordAfter(j) ==
    /\ pc[j] = "booked"
    /\ record' = [record EXCEPT ![j] = MonthToDate(month[j]) + usages[j]]
    /\ pc' = [pc EXCEPT ![j] = "done"]
    /\ UNCHANGED <<kind, month, holder, left, turn, broken, usages, fresh, spent, prior,
                   ledger, metered, reranked, blind>>

\* nightly: the run record, month to date = the earlier read + tonight.
AppendRecord(j) ==
    /\ pc[j] = "booked"
    /\ record' = [record EXCEPT ![j] = prior[j] + usages[j]]
    /\ pc' = [pc EXCEPT ![j] = "done"]
    /\ UNCHANGED <<kind, month, holder, left, turn, broken, usages, fresh, spent, prior,
                   ledger, metered, reranked, blind>>

\* The job ends early: a re-rank read or an assessment raises, which nothing catches,
\* or the process dies. Unless it had booked, what it metered is on no row.
Abort(j) ==
    /\ pc[j] \notin {"idle", "done", "dead", "unlogged"}
    /\ pc' = [pc EXCEPT ![j] = IF @ = "booked" THEN "unlogged" ELSE "dead"]
    /\ holder' = IF holder = j THEN NoJob ELSE holder
    /\ turn' = [turn EXCEPT ![j] = Idle]
    /\ left' = [left EXCEPT ![j] = 0]
    /\ fresh' = [fresh EXCEPT ![j] = 0]
    /\ UNCHANGED <<kind, month, broken, usages, spent, prior, record, ledger,
                   metered, reranked, blind>>

Step(j) ==
    \/ OpenBuild(j) \/ RerankRead(j) \/ SeedSeats(j)
    \/ OpenDiscovery(j) \/ Start(j) \/ Throttle(j)
    \/ SeatAnswers(j) \/ SeatRaises(j) \/ SynthesisAnswers(j) \/ SynthesisRaises(j)
    \/ AssessorAnswers(j) \/ Charge(j)
    \/ BookDiscovery(j) \/ CloseBuild(j)
    \/ ReadPrior(j) \/ BookNightly(j) \/ AppendRecord(j) \/ Abort(j)

Next == \E j \in Job : Step(j)

Spec == Init /\ [][Next]_vars

-----------------------------------------------------------------------------
\* Every variable keeps its type, a job holds the store exactly while it spends, and a
\* debate is under way only in one that does.
TypeOK ==
    /\ pc \in [Job -> {"idle", "rerank", "seats", "assess", "closed", "read", "booked",
                       "done", "dead", "unlogged"}]
    /\ kind \in [Job -> Kinds] /\ month \in [Job -> Month]
    /\ holder \in Job \cup {NoJob}
    /\ left \in [Job -> Nat] /\ turn \in [Job -> -1..4] /\ broken \in [Job -> BOOLEAN]
    /\ usages \in [Job -> Nat] /\ fresh \in [Job -> Nat] /\ spent \in [Job -> Nat]
    /\ prior \in [Job -> Nat] /\ record \in [Job -> Nat]
    /\ ledger \in [Month -> Nat] /\ metered \in [Month -> Nat]
    /\ reranked \in [Month -> Nat] /\ blind \in [Month -> Nat]
    /\ \A j \in Job : pc[j] \in {"rerank", "seats", "assess"} <=> holder = j
    /\ \A j \in Job : turn[j] # Idle => pc[j] \in {"seats", "assess"}

\* A month costs less than its ceiling and one debate, the re-rank reads aside, and
\* aside what was on no row of the ledger when a job took its seed (BudgetGuard is
\* asked before a debate and charged after it; jobs that overlap, die or are bare runs).
CeilingAccounted ==
    \A m \in Month :
        metered[m] =< Larger(Limit - 1, 0) + Debate + reranked[m] + blind[m]

\* The ledger holds what the finished nightlies and discoveries metered, each once, and
\* nothing else (append_spend at the end of each), dead after it or not.
FinishedIsBookedOnce ==
    \A m \in Month :
        ledger[m] = MapThenSumSet(LAMBDA j : usages[j],
                        {j \in Job : /\ month[j] = m /\ kind[j] # "run"
                                     /\ pc[j] \in {"booked", "done", "unlogged"}})

\* The month to date a run record shows has tonight in it once, and nothing that is not
\* on the ledger, though the ledger is read, then appended to, without the store.
RecordNeverAboveLedger ==
    \A j \in Job : record[j] =< ledger[month[j]]
=============================================================================
