\* One request at a time; a client may submit an empty action.
CONSTANTS
    Users = {u1}
    Requests = {r1}
    Grantable <- MCEmptyAction
    Filters <- MCFilters
    TokenRoles = {"admin"}
    Nil = Nil
SYMMETRY Symmetry
SPECIFICATION Spec
INVARIANTS
    StoredPermissionsParse
