SPECIFICATION TimelySpec
CONSTANTS
    Epochs <- OneEntry
    ForkBlock = 0
    Margin = 0
    MaxLag = 1
    EscapeHeight = 100
    Replies = {"ok"}
    TornCommit = FALSE
    MaxCrashes = 1
    MaxHeight = 8
    MaxMain = 2
    MaxTime = 2
PROPERTIES BlockCompletes EpochArrives
CHECK_DEADLOCK FALSE
