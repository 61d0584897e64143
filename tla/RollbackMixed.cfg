\* Rollbacks and a publication of one gateway, errors, crashes and lost leases.
SPECIFICATION FairComposedSpec
CONSTANTS
    Publications = {p1, p2, p3}
    Specs = {s1, s2}
    Workers = {w1}
    OpWorkers = {v1, v2}
    Released = p2
    Earlier = {p1}
    MayOutlive = TRUE
    MaxAttempts = 6
    ReplaceSpec = FALSE
    MaxRetries = 0
    MaxFaults = 1
    MaxOperations = 2
INVARIANTS SettledServesEffective EffectiveIsActive
PROPERTIES RollbackEnds
CHECK_DEADLOCK FALSE
