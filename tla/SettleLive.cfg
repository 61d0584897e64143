\* Evidence of any rank and total stands, is charged, and reservations end.
SPECIFICATION FairSpec
CONSTANTS
    a1 = a1
    a2 = a2
    Attempts = {a1}
    Bound <- OneBound
    Totals = {0, 1}
    Sources <- OneSources
    Workers = {w1}
    MaxTries = 2
    MaxFaults = 1
PROPERTIES EvidenceStands EventuallyCharged ReservationsEnd
CHECK_DEADLOCK FALSE
