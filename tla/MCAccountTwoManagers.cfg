\* Two overlapping status changes of one account; nothing fails.
CONSTANTS
    Users = {u1}
    Sessions = {s1, s2}
    JTIs = {j1, j2, j3}
    Versions = {1, 2}
    Nil = Nil
    SessionTTL = 1
    JTITTL = 2
    HalfSecond = 0
    MaxGeneration = 3
    Clients = {c1}
    Managers = {m1, m2}
    FailurePoints = {}
    MayLoseData = FALSE
SYMMETRY Symmetry
SPECIFICATION AccountSpec
INVARIANTS
    SuspensionFailsClosed
