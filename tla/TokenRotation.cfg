SPECIFICATION TokenSpec
CONSTANTS
    c1 = c1
    c2 = c2
    a1 = a1
    b1 = b1
    b2 = b2
    Callers = {c1, c2}
    Attempts = {a1}
    Browsers = {b1, b2}
    MaxTokens = 3
    MaxLapses = 1
    MaxFaults = 1
    MaxDisconnects = 1
INVARIANTS
    TokenTypeOK
    CodeIsExchangedOnce
    ConnectedHoldsNewestTokens
    SentTwiceOnlyAfterTakeover
CHECK_DEADLOCK FALSE
SYMMETRY SameCallers
