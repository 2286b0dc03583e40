CONSTANTS
    Job = {j1, j2}
    NoJob = NoJob
    Month = {m1, m2}
    Kinds = {"nightly", "run", "discovery"}
    Limit = 2
    MaxCost = 1
    Finalists = 1
    Fresh = 2
SPECIFICATION Spec
SYMMETRY Symmetry
INVARIANTS TypeOK CeilingAccounted FinishedIsBookedOnce RecordNeverAboveLedger
CHECK_DEADLOCK FALSE
