\* Two refreshes of which one loses its authority.
CONSTANTS
    Server = server
    Kinds = {server, snapshot}
    Natives = {1}
    Workers = {w1, w2}
    PageSize = 1
    MaxPages = 1
    QueueLimit = 2
    MaxAttempts = 1
    MaxRuns = 2
    MaxVersion = 1
SPECIFICATION Spec
INVARIANTS
    FailureIsIsolated
