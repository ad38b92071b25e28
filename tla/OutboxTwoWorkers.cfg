SPECIFICATION Spec
CONSTANTS
    w1 = w1
    w2 = w2
    e1 = e1
    e2 = e2
    e3 = e3
    c1 = c1
    Workers <- TwoWorkers
    Events = {e1, e2}
    Comms = {c1}
    NoComm = NoComm
    Types <- TaskOnly
    MaxAttempts = 2
    BatchSize = 1
    MaxCrashes = 1
INVARIANTS
    QueuedHasCarrier
    SentWasAccepted
PROPERTIES
    EveryEventSettles
CHECK_DEADLOCK FALSE
