\* A store outage during the dispatch check fails queued work.
CONSTANTS
    t1 = t1
    NoOp = NoOp
    Ops = {o1}
    Targets <- MCTargets
    TargetOf <- MCTargetOf
    Workers = {w1}
    QueueLimit = 2
    MaxAttempts = 2
    ClockSkew = FALSE
    Zombies = FALSE
    MaxClaims = 2
    MaxGateVersion = 2
SPECIFICATION Spec
PROPERTY OutageKeepsQueued
CHECK_DEADLOCK FALSE
