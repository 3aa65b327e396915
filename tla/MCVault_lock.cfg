SPECIFICATION VaultSpec
CONSTANTS
    lp1 = lp1
    lp2 = lp2
    pm1 = pm1
    pm2 = pm2
    Holder <- MCHolder
    Manager = {pm1, pm2}
    VaultAddr = vault
    PairIndex = {p1}
    Amount = {1}
    Pnl <- NoPnl
    LockLedgers = {3}
    Funds = 2
    ManagerFunds = 1
    FirstLedger = 5
    LastLedger = 6
    MaxShares = 2
    MaxAllowance = 0
SYMMETRY LpSymmetry
CHECK_DEADLOCK FALSE
PROPERTY NoExitInsideLock
