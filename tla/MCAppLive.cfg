SPECIFICATION FairSpec
CONSTANTS
    t1 = t1
    t2 = t2
    t3 = t3
    bad = bad
    v1 = v1
    v2 = v2
    NoValidator = NoValidator
    Txs <- MCTxs
    Decodes <- MCDecodes
    Validators = {v1, v2}
    Seeds = {0, 1}
    Order <- MCOrder
    Prepaid <- MCPrepaid
    GasFee <- MCGasFee
    Gift <- MCGift
    Prices = {0, 1, 2}
    NewPrice <- MCNewPrice
    Capacity = 1
    Credited <- MCCredited
    GenesisCoins = 10
    GenesisPrice = 1
    MaxHeight = 3
    Blocks <- LiveBlocks
    TornCommit = FALSE
    MaxCrashes = 1
PROPERTIES EveryBlockTaken EveryBlockPublished
CHECK_DEADLOCK FALSE
