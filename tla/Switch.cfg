\* Two requests of a scope whose policy changes its unit, and late commits.
SPECIFICATION FairSpec
CONSTANTS
    r1 = r1
    r2 = r2
    Requests = {r1, r2}
    Cost <- TwoCosts
    Fates <- TwoFates
    MaxRevisions = 2
    MaxFaults = 1
INVARIANTS HeldInUnit Conserved
PROPERTIES NotLeftDisabled
CHECK_DEADLOCK FALSE
