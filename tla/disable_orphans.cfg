\* Disable cancels the reconciliation job of submitted work.
CONSTANTS
    t1 = t1
    NoOp = NoOp
    Ops = {o1}
    Targets <- MCTargets
    TargetOf <- MCTargetOf
    Workers = {w1}
    QueueLimit = 2
    MaxAttempts = 2
    ClockSkew = FALSE
    Zombies = FALSE
    MaxClaims = 2
    MaxGateVersion = 2
SPECIFICATION Spec
INVARIANT SubmittedKeepsJob
CHECK_DEADLOCK FALSE
