SPECIFICATION Spec
CONSTANTS
    Epochs <- TwoEntries
    ForkBlock = 4
    Margin = 0
    MaxLag = 1
    EscapeHeight = 100
    Replies = {"ok"}
    TornCommit = TRUE
    MaxCrashes = 1
    MaxHeight = 10
    MaxMain = 4
    MaxTime = 2
INVARIANT AppliedAtMapping
CHECK_DEADLOCK FALSE
