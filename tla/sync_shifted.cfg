\* Two pages, a resource dropped during the walk.
CONSTANTS
    Server = server
    Kinds = {server}
    Natives = {1, 2}
    Workers = {w1}
    PageSize = 1
    MaxPages = 2
    QueueLimit = 1
    MaxAttempts = 1
    MaxRuns = 2
    MaxVersion = 1
SPECIFICATION Spec
PROPERTIES
    ListedIsNotDeleted
