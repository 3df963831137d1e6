\* Two accounts, two addresses besides the empty one, two passwords, two
\* concurrent requests; three versions, so that a version can be taken twice.
CONSTANTS
    UserIds = {u1, u2}
    Emails = {admin, mail}
    NoEmail = none
    Passwords = {seeded, other}
    AdminEmail = admin
    AdminPassword = seeded
    Procs = {p1, p2}
    Nil = nil
    MaxVersion = 3
    MaxSessions = 2
SYMMETRY MCSymmetry
SPECIFICATION Spec
INVARIANTS
    FreshSessionsProvePassword
PROPERTIES
    RevokedForGood
CHECK_DEADLOCK FALSE
