SPECIFICATION KnowledgeSpec
CONSTANTS
    n1 = n1
    n2 = n2
    law = law
    policy = policy
    a = a
    b = b
    c = c
    shared = shared
    other = other
    Authorities = {"law", "policy"}
    Importers = {n1, n2}
    Paths = {law, policy}
    Position <- Sorted
    Supported = {law, policy}
    Inferred <- Directories
    Contents = {a, b, c}
    Wordings = {shared, other}
    TextOf <- Extracted
    Tokens <- OneEach
    MaxChunks = 1
    MaxTokens = 1
    MaxScans = 2
    MaxChanges = 1
    MaxFaults = 1
    MaxCorrections = 1
INVARIANTS
    KnowledgeTypeOK
    TextIsOfItsVersion
    CompletedScanIsSearchable
    WithdrawnIsNotServed
    LawIsServedFirst
PROPERTIES
    CorrectionsSurvive
CHECK_DEADLOCK FALSE
SYMMETRY SameIds
