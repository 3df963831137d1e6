\* Two users, three sessions; half-second ticks, so that the rounding of the
\* TTL reply is in play; jti keys outlive their sessions.
CONSTANTS
    Users = {u1, u2}
    Sessions = {s1, s2, s3}
    JTIs = {j1, j2, j3, j4}
    Versions = {1}
    Nil = Nil
    SessionTTL = 3
    JTITTL = 4
    HalfSecond = 1
    MaxGeneration = 3
SYMMETRY Symmetry
SPECIFICATION Spec
INVARIANTS
    TypeOK
    IndexCoverage
    OneLiveJTIPerSession
    GenerationFence
PROPERTIES
    NoResurrection
    OwnershipIsolation
    BulkDeletionsReachAll
    ImplementsAccessGrants
