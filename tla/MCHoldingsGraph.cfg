SPECIFICATION Spec
CONSTANTS
    f1 = f1
    f2 = f2
    a = a
    b = b
    Fund <- FundAndFiler
    Filers <- OneFiler
    Portfolio <- Portfolios
    MaxDay = 3
INVARIANTS
    TypeOK
PROPERTIES
    BuildServesInForce
    FreshBuildIsExact
    PastReadsStand
