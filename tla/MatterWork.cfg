SPECIFICATION MCWorkSpec
CONSTANTS
    u1 = u1
    u2 = u2
    c1 = c1
    c2 = c2
    m1 = m1
    m2 = m2
    i1 = i1
    i2 = i2
    i3 = i3
    d1 = d1
    p1 = p1
    p2 = p2
    Users = {u1, u2}
    Candidates = {c1, c2}
    Matters = {m1, m2}
    OpenMatter = m1
    Items = {i1, i2, i3}
    OpenItem = i1
    Dependencies = {d1}
    Proposals = {p1, p2}
    MaxCommands = 3
    MaxReplaced = 1
    MaxLost = 1
INVARIANTS
    DoneHasNothingOpen
    DecidedOnce
    AddedOnce
PROPERTIES
    NoLostUpdate
    ChangesAreInformed
CHECK_DEADLOCK FALSE
SYMMETRY SameUsers
