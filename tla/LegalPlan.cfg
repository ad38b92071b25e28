SPECIFICATION Spec
CONSTANTS
    w1 = w1
    s1 = s1
    s2 = s2
    s3 = s3
    s4 = s4
    Workers = {w1}
    Steps = {s1, s2}
    DependsOn <- ShortChain
    Place <- InOrder
    MaxAttempts = 2
    MaxRuns = 6
    MaxQueued = 1
    MaxReruns = 1
    MaxFaults = 1
INVARIANTS
    ValidRunIsLatestCompleted
    PackageIsConsistent
CHECK_DEADLOCK FALSE
