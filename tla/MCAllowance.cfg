SPECIFICATION BudgetSpec
CONSTANTS
    lp1 = lp1
    lp2 = lp2
    pm1 = pm1
    pm2 = pm2
    Holder <- MCHolder
    Manager = {pm1}
    VaultAddr = vault
    PairIndex = {}
    Amount = {1}
    Pnl <- NoPnl
    LockLedgers = {0}
    Funds = 2
    ManagerFunds = 0
    FirstLedger = 1
    LastLedger = 2
    MaxShares = 2
    MaxAllowance = 2
    Approvals <- OnePair
CHECK_DEADLOCK FALSE
INVARIANTS
    SharesAccountedFor
    SpenderWithinBudget
PROPERTY NothingSpentAfterExpiry
