\* Two requests compete for one budget while its policy changes.
SPECIFICATION Spec
CONSTANTS
    r1 = r1
    r2 = r2
    person = person
    app = app
    Requests = {r1, r2}
    Scopes = {person}
    Receipts <- RaceReceipts
    Bound <- RaceBound
    Actual <- RaceActual
    InitLimit <- RaceLimit
    Limits = {1}
    Workers = {k1}
    MaxRetries = 1
    MaxRevision = 1
    MaxFaults = 1
SYMMETRY Competitors
INVARIANTS Balanced
PROPERTIES NoOverAdmission
CHECK_DEADLOCK FALSE
