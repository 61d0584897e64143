\* A rollback and a publication, no fault.
SPECIFICATION ComposedSpec
CONSTANTS
    Publications = {p1, p2, p3}
    Specs = {s1, s2}
    Workers = {w1}
    OpWorkers = {v1}
    Released = p2
    Earlier = {p1}
    MayOutlive = FALSE
    MaxAttempts = 6
    ReplaceSpec = FALSE
    MaxRetries = 0
    MaxFaults = 0
    MaxOperations = 1
INVARIANTS ServesEffective
CHECK_DEADLOCK FALSE
