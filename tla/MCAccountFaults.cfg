\* One client request against two managers whose status changes and deletions
\* overlap; every call may fail and Redis may lose its data at any moment.
CONSTANTS
    Users = {u1}
    Sessions = {s1, s2}
    JTIs = {j1, j2, j3}
    Versions = {1, 2}
    Nil = Nil
    SessionTTL = 1
    JTITTL = 2
    HalfSecond = 0
    MaxGeneration = 3
    Clients = {c1}
    Managers = {m1, m2}
    FailurePoints = {"login_state",
        "login_create",
        "login_token",
        "refresh_state",
        "refresh_rotate",
        "fresh_identity",
        "sessions",
        "password_commit",
        "password_cleanup",
        "status_block",
        "status_unblock",
        "activate_cas",
        "delete_check",
        "delete_block",
        "suspend_cas",
        "delete_row",
        "reactivate_cas"}
    MayLoseData = TRUE
SYMMETRY Symmetry
SPECIFICATION AccountSpec
INVARIANTS
    SuspendedUsersShutOut
    DeletedUsersShutOut
    InactiveHasNoRedisState
    ActiveUsersNotBlocked
PROPERTIES
    OldCredentialsDrain
