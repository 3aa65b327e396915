SPECIFICATION SendingSpec
CONSTANTS
    alice = alice
    xlm = xlm
    crypto = crypto
    btc = btc
    Holder = {alice}
    Manager = {pm}
    PmAddr = pm
    VaultAddr = vault
    PairIndex = {btc}
    GroupIndex = {crypto}
    Asset = {xlm}
    None = none
    P_SCALE = 10
    USDC_SCALE = 10
    Amount = {}
    Pnl <- NoPnl
    LockLedgers = {0}
    Funds = 20
    ManagerFunds = 0
    FirstLedger = 1
    LastLedger = 1
    MaxShares = 0
    MaxAllowance = 0
    PairConfig <- MCMarket
    GroupConfig <- MCFees
    FeeRate = {}
    LedgerRate = {}
    Depth = {}
    MaxPos = {0}
    OiDelta = {}
    MaxOi = 100
    TradeMeta = {}
    Slot = {0, 1}
    MaxTrades = {2}
    PRICE_EXP = 0
    Decimals = {1}
    Price = {65, 100}
    Collateral = {10}
    Leverage = {2}
    LimitPrice = {}
    TriggerPrice = {0}
    BotAsset = xlm
    BOT_EXP = 1
    MaxWatched = 2
    Faults = {"crash", "throw", "noreply", "reject", "lose"}
CHECK_DEADLOCK FALSE
INVARIANTS
    BotTypeOK
    OnlyStaleDecisionsRefused
PROPERTIES
    WatchedTradesAreServed
    OwnLiquidationsHoldUpNothing
    FreshDecisionsAreDue
