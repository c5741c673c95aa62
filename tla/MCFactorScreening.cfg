SPECIFICATION ScreeningSpec
CONSTANTS
    LastDay = 5
    TradingDays <- MCTradingDays
    Published <- MCPublished
    Instruments <- MCInstruments
    IndustryOf <- MCIndustryOf
    Listings <- MCListings
    Suspensions <- MCSuspensions
    Data <- MCData
    Restatements <- MCRestatements
    PlannedDays <- MCPlannedDays
    Universe <- MCUniverse
    Screens <- MCScreens
    Batches <- MCBatches
    Processing <- MCProcessing
    MaxReleases = 2
    MaxRuns = 2
CHECK_DEADLOCK FALSE
INVARIANTS StaleIsSelected EveryResultIsAccounted ScreensReproduce EvaluationsAreBalanced
