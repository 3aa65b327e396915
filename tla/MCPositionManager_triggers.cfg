SPECIFICATION Spec
CONSTANTS
    lp = lp
    alice = alice
    xlm = xlm
    crypto = crypto
    btc = btc
    Holder = {alice}
    Manager = {pm}
    PmAddr = pm
    VaultAddr = vault
    PairIndex = {btc}
    GroupIndex = {crypto}
    Asset = {xlm}
    None = none
    P_SCALE = 10
    USDC_SCALE = 10
    Amount = {5}
    Pnl <- NoPnl
    LockLedgers = {0}
    Funds = 10
    ManagerFunds = 0
    FirstLedger = 1
    LastLedger = 1
    MaxShares = 5
    MaxAllowance = 0
    PairConfig <- MCReconfigured
    GroupConfig <- MCFees
    FeeRate = {}
    LedgerRate = {}
    Depth = {}
    MaxPos = {0}
    OiDelta = {}
    MaxOi = 100
    TradeMeta = {}
    Slot = {0}
    MaxTrades = {1}
    PRICE_EXP = 0
    Decimals = {0}
    Price = {5, 8, 10}
    Collateral = {5, 10}
    Leverage = {1, 2}
    LimitPrice = {}
    TriggerPrice = {0, 8}
CHECK_DEADLOCK FALSE
PROPERTY WinnersKeepCollateral
