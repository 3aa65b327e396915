SPECIFICATION Spec
CONSTANTS
    lp = lp
    alice = alice
    xlm = xlm
    crypto = crypto
    btc = btc
    Holder = {alice}
    Manager = {pm}
    PmAddr = pm
    VaultAddr = vault
    PairIndex = {btc}
    GroupIndex = {crypto}
    Asset = {xlm}
    None = none
    P_SCALE = 10
    USDC_SCALE = 10
    Amount = {5}
    Pnl <- NoPnl
    LockLedgers = {0}
    Funds = 10
    ManagerFunds = 0
    FirstLedger = 1
    LastLedger = 1
    MaxShares = 5
    MaxAllowance = 0
    PairConfig <- MCMarket
    GroupConfig <- MCDearFees
    FeeRate = {5}
    LedgerRate = {}
    Depth = {}
    MaxPos = {0}
    OiDelta = {}
    MaxOi = 100
    TradeMeta = {}
    Slot = {0, 1}
    MaxTrades = {1, 2}
    PRICE_EXP = 0
    Decimals = {0}
    Price = {8, 10}
    Collateral = {4}
    Leverage = {2}
    LimitPrice = {8}
    TriggerPrice = {0}
CHECK_DEADLOCK FALSE
INVARIANTS
    CustodyBacked
    OiMatchesTrades
    RefundNeverBlocked
PROPERTIES
    FeesNeverLeave
    EscrowImplemented
