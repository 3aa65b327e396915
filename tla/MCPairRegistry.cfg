SPECIFICATION RegistrySpec
CONSTANTS
    xlm = xlm
    crypto = crypto
    forex = forex
    Manager = {pm1}
    PairIndex = {btc}
    GroupIndex = {crypto, forex}
    Asset = {xlm}
    None = none
    P_SCALE = 1
    USDC_SCALE = 50
    FirstLedger = 1
    LastLedger = 3
    PairConfig <- MCPairConfig
    GroupConfig <- MCGroupConfig
    FeeRate = {1}
    LedgerRate <- MCRates
    Depth = {0}
    MaxPos = {0}
    OiDelta = {1, 2}
    MaxOi = 3
    TradeMeta <- MCTradeMeta
CHECK_DEADLOCK FALSE
INVARIANTS
    RegistryTypeOK
    PairsUsable
    NoLedgerBilledTwice
    HeavierSidePressed
PROPERTIES
    RolloverNeverRefunds
    FundingBalances
    CommitKeepsProjection
