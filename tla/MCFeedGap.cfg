SPECIFICATION Spec
CONSTANTS
    c1 = c1
    c2 = c2
    Order <- TwoFunds
    Book <- HeldSecond
    OnBoard <- Both
    Listed <- OldAndYoung
    Session = {1, 2, 3, 4, 5, 6}
    Weekday = {1, 2, 3, 4, 5, 6}
    SeedDays = 2
    GapSessions = 1
    Cap = 1
    Threshold = 1
    Attempts = 1
    MaxDay = 6
PROPERTIES
    DeferralDropsNothing
