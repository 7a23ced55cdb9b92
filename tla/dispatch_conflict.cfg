\* Two operations compete for one target; two workers that may stall.
CONSTANTS
    t1 = t1
    NoOp = NoOp
    Ops = {o1, o2}
    Targets <- MCTargets
    TargetOf <- MCTargetOf
    Workers = {w1, w2}
    QueueLimit = 2
    MaxAttempts = 1
    ClockSkew = FALSE
    Zombies = TRUE
    MaxClaims = 1
    MaxGateVersion = 2
SPECIFICATION Spec
INVARIANTS
    ReservationExact
PROPERTIES
    ImplementsPromise
CHECK_DEADLOCK FALSE
