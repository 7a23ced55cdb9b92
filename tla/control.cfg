\* Members, sessions, admission and credentials.
CONSTANTS
    u1 = u1
    u2 = u2
    u3 = u3
    r1 = r1
    r2 = r2
    p1 = p1
    t1 = t1
    k1 = k1
    k2 = k2
    None = none
    Users = {u1, u2, u3}
    Creator = u1
    Requests = {r1, r2}
    Sessions = {1, 2, 3}
    Challenges = {1, 2}
    Proofs = {p1}
    Kinds = {"change", "transfer", "issue"}
    MaxPolicy = 5
    Targets = {t1}
    ActionOf <- MCActionOf
    Facts = {1, 2}
    AllowedFacts = {1, 2}
    HighFacts = {2}
    Reviews = {1, 2}
    Operations = {1, 2}
    Keys = {k1, k2}
    QueueLimit = 1
    ReviewLimit = 2
    MaxRevision = 2
    MaxVersion = 3
    Servers = {1, 2}
    OldKey = "old"
    NewKey = "new"
    Batch = 1
SPECIFICATION MCSpec
ACTION_CONSTRAINT Bound
SYMMETRY Symmetry
INVARIANTS
    PartsTypeOK
    AlwaysAnOwner
    EndedStaysEnded
    ChallengeOnce
    HomeElevationEndsSessions
    AcceptedOnce
    CredentialsOpen
PROPERTIES
    OwnersMakeAdmins
    StaleNeverApplied
    AcceptedAsReviewed
CHECK_DEADLOCK FALSE
