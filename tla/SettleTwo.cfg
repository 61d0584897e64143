\* Two attempts of one scope: two workers and late commits contend for row S.
SPECIFICATION Spec
CONSTANTS
    a1 = a1
    a2 = a2
    Attempts = {a1, a2}
    Bound <- TwoBound
    Totals = {1}
    Sources <- TwoSources
    Workers = {w1, w2}
    MaxTries = 1
    MaxFaults = 1
SYMMETRY Interchangeable
INVARIANTS Balanced AppliedIsCharged
PROPERTIES EvidenceStands
CHECK_DEADLOCK FALSE
