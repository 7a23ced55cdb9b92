\* One operation, two workers whose context ends with their lease, a recovery
\* gate that is opened, closed and opened again.
CONSTANTS
    t1 = t1
    NoOp = NoOp
    Ops = {o1}
    Targets <- MCTargets
    TargetOf <- MCTargetOf
    Workers = {w1, w2}
    QueueLimit = 2
    MaxAttempts = 2
    ClockSkew = FALSE
    Zombies = FALSE
    MaxClaims = 2
    MaxGateVersion = 4
SPECIFICATION FairSpec
PROPERTIES
    SubmitUnderReservation
    ReopenFindsNoSubmitter
    QuietUntilReopened
    EventuallySettled
    RevokedNeverSent
CHECK_DEADLOCK FALSE
