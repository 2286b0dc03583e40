\* A nightly and a research job in any overlap, each dying anywhere; three callers on a pool
\* of two, so that a call waits behind a heavy one.
CONSTANTS
    Nightly = {nightly}
    Research = {research}
    Con = {con1, con2}
    Caller = {k1, k2, k3}
    NoCon = NoCon
    NoJob = NoJob
    nightly = nightly
    research = research
    con1 = con1
    con2 = con2
    k1 = k1
    k2 = k2
    k3 = k3
    MaxCommits = 2
    MaxCalls = 3
SPECIFICATION FairSpec
INVARIANT InterruptsHitTheirOwn
PROPERTIES UndisturbedCopyIsACommit EveryCallReturns
CHECK_DEADLOCK FALSE
