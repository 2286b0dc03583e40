\* One pulled key, re-read one night further back than the hot window keeps; no crash.
CONSTANTS
    Observed = {bar}
    Derived = {}
    Payload = {p1, p2}
    Lookback = 1
    HotWindow = 0
    FirstMark = 1
    MaxNight = 2
    MaxClock = 2
    MaxBatch = 2
    MaxFiles = 2
    MaxCrashes = 0
    bar = bar
    p1 = p1
    p2 = p2
SPECIFICATION Spec
SYMMETRY Symmetry
PROPERTY RefetchIsNoOp
