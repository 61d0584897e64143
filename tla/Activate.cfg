\* Two publications of a scope in turn, late and lost batches, lost leases, crashes.
SPECIFICATION FairSpec
CONSTANTS
    Publications = {p1, p2}
    Workers = {w1, w2}
    MaxOps = 12
    MaxFaults = 1
INVARIANTS
    FailedIsFenced
    JournalIsTrue
    WriterTracksActive
    ActiveIsServed
PROPERTIES
    HeadAdvances
    Settles
CHECK_DEADLOCK FALSE
