SPECIFICATION TimelySpec
CONSTANTS
    Epochs <- OneEntry
    ForkBlock = 0
    Margin = 0
    MaxLag = 1
    EscapeHeight = 100
    Replies = {"ok"}
    TornCommit = FALSE
    MaxCrashes = 1
    MaxHeight = 9
    MaxMain = 3
    MaxTime = 3
INVARIANT CommittedIsDetermined
PROPERTY NoPanic
CHECK_DEADLOCK FALSE
