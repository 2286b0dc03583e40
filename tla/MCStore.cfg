\* A key that is only pulled and one both pulled and written; two payloads; a pull that
\* re-reads one night back against a hot window of none, as the shipped 650 days are
\* against 365; runs of three nights in any order; one crash inside tier_cold.
CONSTANTS
    Observed = {bar, fund}
    Derived = {fund}
    Payload = {p1, p2}
    Lookback = 1
    HotWindow = 0
    FirstMark = 1
    MaxNight = 3
    MaxClock = 2
    MaxBatch = 2
    MaxFiles = 2
    MaxCrashes = 1
    bar = bar
    fund = fund
    p1 = p1
    p2 = p2
SPECIFICATION Spec
SYMMETRY Symmetry
INVARIANTS TypeOK HotHoldsTheWindow CrashesBoundCopies
PROPERTIES ImplementsLog LaterDisclosureNeverMoves PulledRestatementSurfaces
