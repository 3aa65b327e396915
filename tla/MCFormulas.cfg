SPECIFICATION FormulasSpec
CONSTANTS
    P_SCALE = 20
    USDC_SCALE = 1
    OpenPrice = {3, 10, 41, 60}
    Collateral = {1, 2, 3, 13, 50, 99}
    Leverage = {1, 3, 4, 20}
    LiqThresholdP = {75, 90, 100}
    MaxGainP = {50, 75, 100, 300}
    CloseFee = {0, 3}
    MaxPrice = 120
    I128_MAX = 4800000
    MarketPrice = {100, 2001}
    SpreadP = {0, 14, 2000, 6100}
    Depth = {0, 1, 3}
    StartOi = {0, 35}
    Size = {1, 40, 700}
    MaxOrders = 5
CHECK_DEADLOCK FALSE
INVARIANTS
    LiquidationTakesNothing
    NoInsolventEscape
    ShownPnlIsPaid
    BotNeverEarly
    BotSoonAfter
    NothingOverflows
    SplittingGainsNothing
    NoFreeRoundTrip
PROPERTY
    PayoutFollowsPrice
