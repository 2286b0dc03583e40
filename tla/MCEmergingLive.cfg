CONSTANTS
    MinTrend = 3
    Lookback = 1
    SeasoningDays = 2
    Tolerance = 20
    Freshness = 1
    Finalists = 3
    TopN = 1
    NearMissN = 1
    Adoption = {91}
    Profit = {92}
    Fad = {93}
    Lead = {94}
    StopWords = {91, 92, 93, 94}
    Fund <- Funds
    Book <- Held
    Worlds <- LiveWorld
    Listings <- Pulls
    Reaches = {3, 8}
    Prefs <- Reads
    RunUpMin = 2
    RunUpWindow = 2
    MinEmergingAge = 2
    MaxDay = 3
    MaxIngests = 3
    MaxDiscoveries = 1
SPECIFICATION Spec
PROPERTIES DiscoveredThemesAreMapped
CHECK_DEADLOCK FALSE
