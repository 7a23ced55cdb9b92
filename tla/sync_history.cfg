\* Two refreshes of two kinds, one worker, numbered pages that shift.
CONSTANTS
    Server = server
    Kinds = {server, snapshot}
    Natives = {1, 2}
    Workers = {w1}
    PageSize = 1
    MaxPages = 2
    QueueLimit = 2
    MaxAttempts = 1
    MaxRuns = 2
    MaxVersion = 1
SPECIFICATION Spec
CONSTRAINT OnlyServers
INVARIANTS
    OpenIsNewest
PROPERTIES
    TombstoneHasCause
    KeepsInventoryPromise
