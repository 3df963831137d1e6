\* Two overlapping requests over two user ids.
CONSTANTS
    Users = {u1, u2}
    Requests = {r1, r2}
    Grantable <- MCGrantable
    Filters <- MCFilters
    TokenRoles = {"admin"}
    Nil = Nil
SYMMETRY Symmetry
SPECIFICATION Spec
INVARIANTS
    AuthorityHeldDuringRequest
    MissIsClassifiedTruly
    ListingsStayVisible
PROPERTIES
    RoleChangesRespectHierarchy
