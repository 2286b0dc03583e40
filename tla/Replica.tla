------------------------------ MODULE Replica ------------------------------
(***************************************************************************)
(* Ad-hoc reads beside the writer (store/replica.py). A nightly commits to  *)
(* the store, closes it, and publishes a copy of the file; the research job *)
(* commits to the same store and publishes nothing. Nothing keeps a job    *)
(* from starting while another still publishes. A reader opens a           *)
(* bounded pool of connections on the copy, and each call borrows one, runs *)
(* its statement on a thread of its own and waits for it up to a deadline.  *)
(*                                                                         *)
(* The database (external): a commit is in its log until a checkpoint       *)
(* writes the blocks of the file, an open replays what a dead process left, *)
(* an open pool keeps the file it opened, and an interrupt marks the        *)
(* connection until a statement starts on it or is cut short. A file is     *)
(* told apart by the commit each of its blocks is from, 0 for none.         *)
(*                                                                         *)
(* The specification bears the module's name, so that another module can    *)
(* extend this one and Publish together.                                    *)
(***************************************************************************)
EXTENDS Integers, FiniteSets

CONSTANTS
    Nightly, Research,  \* the jobs
    Con,                \* the connections of the pool
    Caller,
    NoCon, NoJob,
    MaxCommits, MaxCalls \* bounds: commits, and calls over all callers

Job == Nightly \cup Research
Block == {1, 2}
File == [Block -> 0..MaxCommits]
Empty == [b \in Block |-> 0]

ASSUME ReplicaAssumption ==
    /\ Nightly \cap Research = {} /\ NoJob \notin Job /\ NoCon \notin Con
    /\ IsFiniteSet(Con) /\ Con # {}
    /\ MaxCommits \in Nat \ {0} /\ MaxCalls \in Nat

VARIABLES
    job,            \* where each job is
    holder,         \* the job that has the store open
    committed,      \* the commits so far
    store,          \* the store's file
    staging,        \* the copy beside the replica
    replica,        \* the replica's file
    disturbed,      \* history: jobs under whose copying another moved the store or the copy
    seen,           \* the file the pool has open, Empty for no pool
    pool,           \* the connections in the queue
    call, con,      \* where each caller is, and the connection it holds
    heavy,          \* its statement does not end by itself
    worker,         \* the thread of its statement
    flagged,        \* connections marked by an interrupt
    calls           \* calls so far

publishing == <<job, holder, committed, store, staging, replica, disturbed>>
querying == <<seen, pool, call, con, heavy, worker, flagged, calls>>
replicaVars == <<publishing, querying>>

ReplicaInit ==
    /\ job = [j \in Job |-> "idle"] /\ holder = NoJob
    /\ committed = 0 /\ store = Empty /\ staging = Empty /\ replica = Empty
    /\ disturbed = {}
    /\ seen = Empty /\ pool = {}
    /\ call = [k \in Caller |-> "idle"] /\ con = [k \in Caller |-> NoCon]
    /\ heavy = [k \in Caller |-> FALSE] /\ worker = [k \in Caller |-> "none"]
    /\ flagged = {} /\ calls = 0

-----------------------------------------------------------------------------
(* The jobs *)

Step(j, from, to) == job[j] = from /\ job' = [job EXCEPT ![j] = to]

\* The store opens for one process at a time, and replays its log.
OpenStore(j) ==
    /\ Step(j, "idle", "open")
    /\ holder = NoJob /\ holder' = j
    /\ store' = [b \in Block |-> committed]
    /\ UNCHANGED <<committed, staging, replica, querying>>

Commit(j) ==
    /\ Step(j, "open", "committed")
    /\ committed < MaxCommits /\ committed' = committed + 1
    /\ UNCHANGED <<holder, store, staging, replica, querying>>

\* Closing checkpoints the file, block by block, and lets go of it.
Checkpoint(j) ==
    /\ Step(j, "committed", "closing")
    /\ store' = [store EXCEPT ![1] = committed]
    /\ UNCHANGED <<holder, committed, staging, replica, querying>>
CloseStore(j) ==
    /\ Step(j, "closing", IF j \in Nightly THEN "closed" ELSE "idle")
    /\ store' = [store EXCEPT ![2] = committed] /\ holder' = NoJob
    /\ UNCHANGED <<committed, staging, replica, querying>>

\* publish_replica: copyfile truncates the staging file and copies, then a rename.
CopyFile(j) ==
    /\ Step(j, "closed", "copying")
    /\ staging' = [Empty EXCEPT ![1] = store[1]]
    /\ UNCHANGED <<holder, committed, store, replica, querying>>
\* Mutant: the copy is made in place.
CopyInPlace(j) ==
    /\ Step(j, "copying", "copied")
    /\ staging' = [staging EXCEPT ![2] = store[2]] /\ replica' = staging
    /\ UNCHANGED <<holder, committed, store, querying>>
CopyRest(j) ==
    /\ Step(j, "copying", "copied")
    /\ staging' = [staging EXCEPT ![2] = store[2]]
    /\ UNCHANGED <<holder, committed, store, replica, querying>>
Rename(j) ==
    /\ Step(j, "copied", "idle")
    /\ replica' = staging /\ staging' = Empty
    /\ UNCHANGED <<holder, committed, store, querying>>

\* A job dies where it stands; the store is released.
JobDies(j) ==
    /\ job[j] # "idle" /\ job' = [job EXCEPT ![j] = "idle"]
    /\ holder' = IF holder = j THEN NoJob ELSE holder
    /\ UNCHANGED <<committed, store, staging, replica, querying>>

\* A job is alone with the store and the copy from the moment it closes the one until it
\* renames the other, or it is disturbed: the other's step moved them.
Disturbs(j) ==
    disturbed' = (IF job[j] = "closing" THEN disturbed \ {j} ELSE disturbed)
        \cup {o \in Job \ {j} : /\ job[o] \in {"closed", "copying", "copied"}
                               /\ <<store, staging>>' # <<store, staging>>}

-----------------------------------------------------------------------------
(* The pool *)

OpenPool ==
    /\ seen = Empty /\ replica # Empty
    /\ seen' = replica /\ pool' = Con
    /\ UNCHANGED <<publishing, call, con, heavy, worker, flagged, calls>>

\* close, at the end of the pool's block: no call is out.
ClosePool ==
    /\ seen # Empty /\ \A k \in Caller : call[k] = "idle"
    /\ seen' = Empty /\ pool' = {} /\ flagged' = {}
    /\ UNCHANGED <<publishing, call, con, heavy, worker, calls>>

\* query, with a statement that ends by itself or not.
Query(k) ==
    /\ seen # Empty /\ call[k] = "idle" /\ calls < MaxCalls
    /\ call' = [call EXCEPT ![k] = "waiting"] /\ calls' = calls + 1
    /\ \E h \in BOOLEAN : heavy' = [heavy EXCEPT ![k] = h]
    /\ UNCHANGED <<publishing, seen, pool, con, worker, flagged>>

\* A connection is free: it is taken, and a thread started.
Get(k) ==
    /\ call[k] = "waiting"
    /\ \E c \in pool :
         /\ pool' = pool \ {c} /\ con' = [con EXCEPT ![k] = c]
    /\ call' = [call EXCEPT ![k] = "joining"]
    /\ worker' = [worker EXCEPT ![k] = "starting"]
    /\ UNCHANGED <<publishing, seen, heavy, flagged, calls>>

Execute(k) ==
    /\ worker[k] = "starting" /\ worker' = [worker EXCEPT ![k] = "running"]
    /\ flagged' = flagged \ {con[k]}
    /\ UNCHANGED <<publishing, seen, pool, call, con, heavy, calls>>

\* The statement ends, with rows or an error, by itself or cut short.
EndStatement(k) ==
    /\ worker[k] = "running" /\ (~heavy[k] \/ con[k] \in flagged)
    /\ worker' = [worker EXCEPT ![k] = "done"]
    /\ flagged' = flagged \ {con[k]}
    /\ UNCHANGED <<publishing, seen, pool, call, con, heavy, calls>>

\* The deadline passes while the thread is alive. It is far longer than a thread takes to
\* start: an interrupt that came before the statement would be lost on it.
Expire(k) ==
    /\ call[k] = "joining" /\ worker[k] = "running"
    /\ call' = [call EXCEPT ![k] = "expired"]
    /\ UNCHANGED <<publishing, seen, pool, con, heavy, worker, flagged, calls>>

\* Mutant: the deadline gives up on the thread without a word to the statement.
InterruptNobody(k) ==
    /\ call[k] = "expired" /\ call' = [call EXCEPT ![k] = "rejoining"]
    /\ UNCHANGED <<publishing, seen, pool, con, heavy, worker, flagged, calls>>
\* con.interrupt(); the statement may have ended meanwhile.
Interrupt(k) ==
    /\ call[k] = "expired" /\ call' = [call EXCEPT ![k] = "rejoining"]
    /\ flagged' = flagged \cup {con[k]}
    /\ UNCHANGED <<publishing, seen, pool, con, heavy, worker, calls>>

\* Mutant: an expired call does not wait for its thread.
PutAtOnce(k) ==
    /\ \/ call[k] = "joining" /\ worker[k] = "done"
       \/ call[k] = "rejoining"
    /\ pool' = pool \cup {con[k]}
    /\ call' = [call EXCEPT ![k] = "idle"] /\ con' = [con EXCEPT ![k] = NoCon]
    /\ UNCHANGED <<publishing, seen, heavy, worker, flagged, calls>>
\* The thread is joined, and whatever the outcome the connection is put back.
Put(k) ==
    /\ call[k] \in {"joining", "rejoining"} /\ worker[k] = "done"
    /\ pool' = pool \cup {con[k]} /\ worker' = [worker EXCEPT ![k] = "none"]
    /\ call' = [call EXCEPT ![k] = "idle"] /\ con' = [con EXCEPT ![k] = NoCon]
    /\ UNCHANGED <<publishing, seen, heavy, flagged, calls>>

ReplicaNext ==
    \/ \E j \in Job :
         /\ \/ OpenStore(j) \/ Commit(j) \/ Checkpoint(j) \/ CloseStore(j)
            \/ CopyFile(j) \/ CopyRest(j) \/ Rename(j) \/ JobDies(j)
         /\ Disturbs(j)
    \/ OpenPool \/ ClosePool
    \/ \E k \in Caller :
         \/ Query(k) \/ Get(k) \/ Execute(k) \/ EndStatement(k)
         \/ Expire(k) \/ Interrupt(k) \/ Put(k)

ReplicaSpec == ReplicaInit /\ [][ReplicaNext]_replicaVars

\* A started call is on a thread the machine runs: each of its steps is taken if it stays
\* possible. A job owes nothing, and no call need ever be made.
Fairness ==
    \A k \in Caller :
        /\ WF_replicaVars(Get(k)) /\ WF_replicaVars(Execute(k))
        /\ WF_replicaVars(EndStatement(k)) /\ WF_replicaVars(Expire(k))
        /\ WF_replicaVars(Interrupt(k)) /\ WF_replicaVars(Put(k))

FairSpec == ReplicaSpec /\ Fairness

-----------------------------------------------------------------------------
(* Properties *)

\* A file as one of the commits left it.
IsACommit(f) == \E c \in 1..committed : f = [b \in Block |-> c]

\* What a job puts in the replica's place is the store as a commit left it, unless another
\* job moved the store or the staging file while it published; whichever step an earlier
\* job died in and whatever it left in either file.
UndisturbedCopyIsACommit ==
    [][replica' # replica =>
         \E j \in Job : job'[j] # job[j] /\ (j \in disturbed \/ IsACommit(replica'))]_replicaVars

\* replica.py:32-34: "the replica is a point-in-time copy ... a concurrent reader never
\* opens a half-written replica", with no word about another job.
ReplicaIsACommit == [][replica' # replica => IsACommit(replica')]_replicaVars

\* A connection goes back to the pool only when nothing runs on it, each is in one place,
\* and a statement is cut short by the deadline of its own call alone: one heavy query
\* never spoils the next on its connection.
InterruptsHitTheirOwn ==
    /\ \A k \in Caller : worker[k] \in {"starting", "running"} =>
         /\ con[k] \in Con \ pool
         /\ \A o \in Caller \ {k} : con[o] # con[k]
    /\ \A k \in Caller : worker[k] = "running" /\ con[k] \in flagged
         => call[k] = "rejoining"

\* Every call returns, heavy statements ahead of it included: a statement that does not
\* end is interrupted and its connection comes back (replica.py:88 "a statement that runs
\* past timeout_s is interrupted").
EveryCallReturns == \A k \in Caller : call[k] = "waiting" ~> call[k] = "idle"
=============================================================================
