SPECIFICATION Spec
CONSTANTS
    w1 = w1
    w2 = w2
    e1 = e1
    e2 = e2
    e3 = e3
    c1 = c1
    Workers <- OneWorker
    Events = {e1, e2, e3}
    Comms = {c1}
    NoComm = NoComm
    Types <- TaskAndUnregistered
    MaxAttempts = 2
    BatchSize = 2
    MaxCrashes = 1
INVARIANTS
    TypeOK
    InFlightHasCarrier
    OneOutcome
    OneCarrierPerRequest
PROPERTIES
    EveryCommunicationSettles
CHECK_DEADLOCK FALSE
