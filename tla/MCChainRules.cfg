SPECIFICATION PartsSpec
CONSTANTS
    Senders = {"s", "t"}
    Txs <- MCTxs
    Accounts <- MCAccounts
    MaxGasPrice = 2
    MaxTxGasLimit = 4
    IntrinsicGas = 1
    FrontierGasLimit = 3
    MinPrices = {1, 2}
    SigCacheSize = 2
    EvictSteps = 2
    RecheckThreshold = 1
    MaxHeight = 2
INVARIANTS
    MempoolContiguous FeesCovered Limited
     TendermintKnowsActive 
    PriceSound  RecordsSafe LastReachedApplies
 
CHECK_DEADLOCK FALSE
