\* One kind, two workers on one job, credential rotation.
CONSTANTS
    Server = server
    Kinds = {server}
    Natives = {1, 2}
    Workers = {w1, w2}
    PageSize = 1
    MaxPages = 2
    QueueLimit = 2
    MaxAttempts = 2
    MaxRuns = 1
    MaxVersion = 2
SPECIFICATION FairSpec
INVARIANTS
    TypeOK
    ShownIsOneWalk
    OneCredential
PROPERTIES
    RefreshEnds
