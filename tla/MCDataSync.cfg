CONSTANTS
    r1 = r1
    r2 = r2
    r3 = r3
    Runs <- MCRuns
    NoRun = NoRun
    LastDay = 4
    TradingDays <- MCTradingDays
    Lookbacks = {0, 1, 2}
    MaxCrashes = 1
SPECIFICATION Spec
SYMMETRY Symmetry
CHECK_DEADLOCK FALSE
INVARIANTS ResultsAreKept VersionIsOfLastDay
