SPECIFICATION BotSpec
CONSTANTS
    alice = alice
    xlm = xlm
    crypto = crypto
    btc = btc
    Holder = {alice}
    Manager = {pm}
    PmAddr = pm
    VaultAddr = vault
    PairIndex = {btc}
    GroupIndex = {crypto}
    Asset = {xlm}
    None = none
    P_SCALE = 10
    USDC_SCALE = 10
    Amount = {}
    Pnl <- NoPnl
    LockLedgers = {0}
    Funds = 20
    ManagerFunds = 0
    FirstLedger = 1
    LastLedger = 1
    MaxShares = 0
    MaxAllowance = 0
    PairConfig <- MCMarket
    GroupConfig <- MCFees
    FeeRate = {}
    LedgerRate = {}
    Depth = {}
    MaxPos = {0}
    OiDelta = {}
    MaxOi = 100
    TradeMeta = {}
    Slot = {0, 1}
    MaxTrades = {2}
    PRICE_EXP = 0
    Decimals = {0}
    Price = {6, 10}
    Collateral = {10}
    Leverage = {2}
    LimitPrice = {}
    TriggerPrice = {0}
    BotAsset = xlm
    BOT_EXP = 0
    MaxWatched = 2
    Faults = {}
CHECK_DEADLOCK FALSE
PROPERTY DueTradeIsSent
