\* The research job commits while a nightly still publishes.
CONSTANTS
    Nightly = {nightly}
    Research = {research}
    Con = {con1}
    Caller = {k1}
    NoCon = NoCon
    NoJob = NoJob
    nightly = nightly
    research = research
    con1 = con1
    k1 = k1
    MaxCommits = 2
    MaxCalls = 0
SPECIFICATION ReplicaSpec
PROPERTY ReplicaIsACommit
CHECK_DEADLOCK FALSE
