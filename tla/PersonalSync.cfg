SPECIFICATION FairSyncSpec
CONSTANTS
    y1 = y1
    y2 = y2
    m1 = m1
    r1 = r1
    Syncers = {y1, y2}
    Messages = {m1, r1}
    RootOf <- MCRootOf
    Signals = {r1}
    Overlap = 1
    Backfill = 1
    MaxTime = 2
    MaxFaults = 1
INVARIANTS
    NothingLeftBehind
    SignalIsAnalysed
PROPERTIES
    WatermarkAdvances
    
CHECK_DEADLOCK FALSE
