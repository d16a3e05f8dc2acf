SPECIFICATION PartsSpec
CONSTANTS
    Filters = {"l", "t"}
    Kind <- TwoKind
    Ws = {}
    MaxEvents = 2
    MaxTicks = 1
    MaxPolls = 1
    ArchiveMode = TRUE
    NumKeptBlocksInDB = 2
    MaxHeight = 5
    Requests <- MCRequests
INVARIANTS
    PollsComplete NoSendAfterUnsubscribe
    StateOfHeight NeverOlderThanTold BlocksFound
     CallTree 
PROPERTY CatchupIsTrue
CHECK_DEADLOCK FALSE
