\* A publication from its preparation to its promotion, with failing calls and crashes.
SPECIFICATION FairSpec
CONSTANTS
    Total = 6
    SliceLength = 4
    Steps = 3
    Billable = {1, 3}
    SliceSteps = 2
    MaxAttempts = 2
    Workers = {w1, w2}
    MaxFaults = 2
INVARIANTS
    SentOnce
    ChargeIsKept
    PassedIsAnswered
    PromotedIsComplete
PROPERTIES
    Settles
CHECK_DEADLOCK FALSE
