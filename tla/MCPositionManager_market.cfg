SPECIFICATION Spec
CONSTANTS
    lp = lp
    alice = alice
    xlm = xlm
    crypto = crypto
    btc = btc
    Holder <- MCHolder
    Manager = {pm, pm2}
    PmAddr = pm
    VaultAddr = vault
    PairIndex = {btc}
    GroupIndex = {crypto}
    Asset = {xlm}
    None = none
    P_SCALE = 10
    USDC_SCALE = 10
    Amount = {10}
    Pnl <- NoPnl
    LockLedgers = {0}
    Funds = 10
    ManagerFunds = 0
    FirstLedger = 1
    LastLedger = 1
    MaxShares = 10
    MaxAllowance = 0
    PairConfig <- MCMarket
    GroupConfig <- MCFees
    FeeRate = {}
    LedgerRate = {}
    Depth = {}
    MaxPos = {0}
    OiDelta = {}
    MaxOi = 100
    TradeMeta = {}
    Slot = {0}
    MaxTrades = {1}
    PRICE_EXP = 0
    Decimals = {0, 1}
    Price = {5, 8}
    Collateral = {10}
    Leverage = {2}
    LimitPrice = {}
    TriggerPrice = {0}
SYMMETRY HolderSymmetry
CHECK_DEADLOCK FALSE
INVARIANTS
    TypeOK
    Solvent
    LiquidationNeverBlocked
    CloseNeverBlocked
PROPERTY
    SettlementConserves
