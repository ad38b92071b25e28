SPECIFICATION Spec
CONSTANTS
    w1 = w1
    s1 = s1
    s2 = s2
    s3 = s3
    s4 = s4
    Workers = {w1}
    Steps = {s1, s2, s3, s4}
    DependsOn <- LongChain
    Place <- OutOfOrder
    MaxAttempts = 1
    MaxRuns = 8
    MaxQueued = 1
    MaxReruns = 1
    MaxFaults = 0
INVARIANTS
    PackageHasPremises
CHECK_DEADLOCK FALSE
