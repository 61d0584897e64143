\* One publication, retried with another spec.
SPECIFICATION Spec
CONSTANTS
    Publications = {p1}
    Specs = {s1, s2}
    Workers = {w1, w2}
    Released = "initial"
    Earlier = {}
    MaxAttempts = 6
    ReplaceSpec = TRUE
    MaxRetries = 1
    MaxFaults = 2
SYMMETRY Interchangeable
INVARIANTS ServedIsProbed
CHECK_DEADLOCK FALSE
