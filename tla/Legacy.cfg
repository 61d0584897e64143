\* One request, every evidence, crash and month change between two calls.
SPECIFICATION FairSpec
CONSTANTS
    x1 = x1
    x2 = x2
    Requests = {x1}
    MaxFaults = 2
INVARIANTS NeverDisappears OnlyEvidenceFrees
PROPERTIES RowsEnd
CHECK_DEADLOCK FALSE
