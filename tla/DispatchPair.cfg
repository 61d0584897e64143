\* One request over two scopes, overlapping sweeps, late writes and crashes.
SPECIFICATION FairSpec
CONSTANTS
    r1 = r1
    r2 = r2
    person = person
    app = app
    Requests = {r1}
    Scopes = {person, app}
    Receipts <- PairReceipts
    Bound <- PairBound
    Actual <- PairActual
    InitLimit <- PairLimit
    Limits = {}
    Workers = {k1, k2}
    MaxRetries = 2
    MaxRevision = 0
    MaxFaults = 3
INVARIANTS TypeOK ForwardedIsBacked RecoveredIsReleased
PROPERTIES ImplementsContract EventuallyRecovered
CHECK_DEADLOCK FALSE
