CONSTANTS
    Proc = {p1, p2}
    c1 = c1
    p1 = p1
    p2 = p2
    buy = buy
    avoid = avoid
    Abstain = abstain
    Blind = blind
    View = {open, capped}
    Action = {buy, avoid}
    Book <- BookTwice
    DebateCap = 1
    Jobs = {"nightly", "resume"}
    MaxDay = 2
    MaxRuns = 2
SPECIFICATION Spec
SYMMETRY Symmetry
PROPERTY ResumeServesLastNight
CHECK_DEADLOCK FALSE
