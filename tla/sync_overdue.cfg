\* A refresh whose deadline passes.
CONSTANTS
    Server = server
    Kinds = {server}
    Natives = {1}
    Workers = {w1}
    PageSize = 1
    MaxPages = 1
    QueueLimit = 1
    MaxAttempts = 1
    MaxRuns = 1
    MaxVersion = 1
SPECIFICATION FairSpec
PROPERTIES
    OverdueIsRetired
CHECK_DEADLOCK FALSE
