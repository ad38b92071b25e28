SPECIFICATION IntakeSpec
CONSTANTS
    l1 = l1
    l2 = l2
    x1 = x1
    x2 = x2
    Events <- SomeEvents
    Loaders = {l1, l2}
    Extractors = {x1, x2}
    Quota = 1
    MaxFaults = 1
INVARIANTS
    AuthorizedIsReadable
    QuotaHolds
    RequestedWhenReady
CHECK_DEADLOCK FALSE
SYMMETRY SameWorkers
