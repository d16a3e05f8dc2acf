SPECIFICATION Spec
CONSTANTS
    Epochs <- OneEntry
    ForkBlock = 0
    Margin = 0
    MaxLag = 1
    EscapeHeight = 4
    Replies = {"ok", "error"}
    TornCommit = FALSE
    MaxCrashes = 1
    MaxHeight = 7
    MaxMain = 3
    MaxTime = 3
INVARIANT QueueFaithful
CHECK_DEADLOCK FALSE
