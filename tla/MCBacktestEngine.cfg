SPECIFICATION Spec
CONSTANTS
    Instruments <- MCInstruments
    MaxQuantity = 4
    MaxPrice = 3000
    Days = 3
    LotSize = 1
    SuspendedPolicy = "reject_order"
    UnfilledPolicy = "keep_open_until_cancelled"
    MaxParticipation = 50
    CommissionBps = 10
    MinCommission = 3
    StampTaxBps = 10
    OtherBps = 5
    InitialCash = 10000
    CashBuffer = 500
    MaxWeight = 5000
    MaxIndustryWeight = 8500
    MaxTurnover = 8000
    MaxDrawdown = 2000
    WarnDrawdown = 1000
    LiquidityFloor = 5
    StyleLimits <- MCStyleLimits
    MinOrderNotional = 1000
    OrderIds <- MCOrderIds
    Market <- MCMarket
    Intents <- MCIntents
    TargetChoices <- MCTargets
    Profiles <- MCProfiles
    ActionPlan <- MCActionPlan
    MaxEvents = 6
INVARIANTS PositionsMatchFills ReplayReproduces MetricsAreTrue
PROPERTIES ImplementsAccounts SharesAreHeldOvernight PlansAreCovered
