SPECIFICATION PoolSpec
CONSTANTS
    lp1 = lp1
    lp2 = lp2
    pm1 = pm1
    pm2 = pm2
    Holder <- MCHolder
    Manager = {pm1}
    VaultAddr = vault
    PairIndex = {p1}
    Amount = {1, 2, 3}
    Pnl <- MCPnl
    LockLedgers = {0}
    Funds = 2
    ManagerFunds = 2
    FirstLedger = 1
    LastLedger = 1
    MaxShares = 4
    MaxAllowance = 0
SYMMETRY LpSymmetry
CHECK_DEADLOCK FALSE
INVARIANTS
    VaultTypeOK
    Solvent
PROPERTIES
    ExitsKeepSharePrice
    DepositsKeepSharePrice
    FundImplemented
