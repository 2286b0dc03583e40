\* A fund pulled, disclosed delisted and pulled again the same day, before the mark of
\* that day; no crash.
CONSTANTS
    Observed = {fund}
    Derived = {fund}
    Payload = {p1, p2}
    Lookback = 1
    HotWindow = 0
    FirstMark = 2
    MaxNight = 2
    MaxClock = 2
    MaxBatch = 2
    MaxFiles = 2
    MaxCrashes = 0
    fund = fund
    p1 = p1
    p2 = p2
SPECIFICATION Spec
SYMMETRY Symmetry
PROPERTY FreshRowIsRead
