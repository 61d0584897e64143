\* Two publications, two workers, under fairness; a retry keeps the spec.
SPECIFICATION FairSpec
CONSTANTS
    Publications = {p1, p2}
    Specs = {s1, s2}
    Workers = {w1, w2}
    Released = p1
    Earlier = {}
    MaxAttempts = 6
    ReplaceSpec = FALSE
    MaxRetries = 1
    MaxFaults = 3
INVARIANTS TypeOK NeverStranded EffectiveIsActive ServedIsEffective CredentialErased ServedIsProbed
PROPERTIES Settles
CHECK_DEADLOCK FALSE
