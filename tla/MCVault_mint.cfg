SPECIFICATION SettledSpec
CONSTANTS
    lp1 = lp1
    lp2 = lp2
    pm1 = pm1
    pm2 = pm2
    Holder <- MCHolder
    Manager = {pm1}
    VaultAddr = vault
    PairIndex = {p1}
    Amount = {1}
    Pnl <- MCLoss
    LockLedgers = {0}
    Funds = 2
    ManagerFunds = 2
    FirstLedger = 1
    LastLedger = 1
    MaxShares = 4
    MaxAllowance = 0
SYMMETRY LpSymmetry
CHECK_DEADLOCK FALSE
PROPERTY EntriesKeepSharePrice
