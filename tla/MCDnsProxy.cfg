SPECIFICATION ProxyFairSpec
CONSTANTS
    Queries = {1, 2}
    TxId <- MCTxId
    Name <- MCName
    Domestic <- MCDomestic
    None = 0
    MaxTrouble = 1
    MaxTunnels = 2
INVARIANT NeverMixed
PROPERTY EveryAskerHears
CHECK_DEADLOCK FALSE
