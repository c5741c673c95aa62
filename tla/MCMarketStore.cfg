SPECIFICATION StoreSpec
CONSTANTS
    LastDay = 4
    TradingDays <- MCTradingDays
    Instruments <- MCInstruments
    Providers <- MCProviders
    Master <- MCMaster
    RequiredFields = {"close", "currency"}
    MaxReturn = 60
    MaxVolumeTimes = 5
    MaxFactorJump = 30
    MaxNullPercent = 50
    Declarations <- MCDeclarations
    Answers <- MCAnswers
    Policy <- MCPolicy
    Signals <- MCSignals
    NeutralBand = 20
    Requested = {"close"}
    ActionLists <- MCActionLists
    FundamentalRows <- MCFundamentalRows
    MaxTime = 1
CHECK_DEADLOCK FALSE
INVARIANTS ModesAgree FactorsMoveOnExDates
PROPERTIES PastAnswersStand SelectionIsEarned SignalsStand
