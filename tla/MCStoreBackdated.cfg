\* A written key, and a run of an earlier date after its rows went cold; no crash.
CONSTANTS
    Observed = {bar}
    Derived = {map}
    Payload = {p1, p2}
    Lookback = 1
    HotWindow = 0
    FirstMark = 1
    MaxNight = 2
    MaxClock = 2
    MaxBatch = 2
    MaxFiles = 2
    MaxCrashes = 0
    bar = bar
    map = map
    p1 = p1
    p2 = p2
SPECIFICATION Spec
SYMMETRY Symmetry
INVARIANT WrittenStands
