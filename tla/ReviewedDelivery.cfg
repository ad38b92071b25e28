SPECIFICATION ReviewSpec
CONSTANTS
    w1 = w1
    e1 = e1
    e2 = e2
    e3 = e3
    e4 = e4
    c1 = c1
    c2 = c2
    p1 = p1
    p2 = p2
    m1 = m1
    x1 = x1
    x2 = x2
    Workers = {w1}
    Events = {e1, e2, e3, e4}
    Comms = {c1, c2}
    NoComm = NoComm
    Types <- ReviewEvents
    MaxAttempts = 2
    BatchSize = 1
    MaxCrashes = 0
    Packages = {p1, p2}
    Contents = {x1, x2}
    NoContent = NoContent
    Matters = {m1}
    MatterOf <- MCMatterOf
    WorkStatuses = {"done"}
INVARIANTS
    ReviewTypeOK
    OneDeliveryPerApproval
PROPERTIES
    KeepsThePromise
SYMMETRY IdSymmetry
CHECK_DEADLOCK FALSE
