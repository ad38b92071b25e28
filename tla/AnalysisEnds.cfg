SPECIFICATION FairSpec
CONSTANTS
    w1 = w1
    w2 = w2
    t1 = t1
    t2 = t2
    Workers = {w1}
    Tasks = {t1, t2}
    MaxAttempts = 2
    MaxRetries = 1
    MaxRuns = 2
    MaxRequests = 1
    MaxFaults = 2
    NoTask = NoTask
INVARIANTS
    AnalysisTypeOK
    MessageFollowsRun
PROPERTIES
    StaleAttemptStoresNothing
    NoCandidateAfterRecall
    StartedRunsEnd
CHECK_DEADLOCK FALSE
