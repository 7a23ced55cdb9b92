\* One operation, two workers that may stall past their lease, skewed clocks.
CONSTANTS
    t1 = t1
    NoOp = NoOp
    Ops = {o1}
    Targets <- MCTargets
    TargetOf <- MCTargetOf
    Workers = {w1, w2}
    QueueLimit = 2
    MaxAttempts = 3
    ClockSkew = TRUE
    Zombies = TRUE
    MaxClaims = 3
    MaxGateVersion = 3
SYMMETRY WorkerSymmetry
SPECIFICATION Spec
INVARIANTS
    TypeOK
    AtMostOneSubmit
    FailureMeansNoEffect
    WaitingHasReference
    SettledStaysSettled
    NoOrphanedOperation
CHECK_DEADLOCK FALSE
