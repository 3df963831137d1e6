------------------------- MODULE RoleAdministration -------------------------
(***************************************************************************)
(* Roles and permissions: the administrative requests of internal/usecase  *)
(* (user, permission), each behind RequireFreshAuthorization, over the     *)
(* users and permissions tables, which every request reads and writes in   *)
(* statements of its own.  Sign-ups, status changes, an owner's deletion   *)
(* and the seeding of an instance that starts run beside them.             *)
(*                                                                         *)
(* A status is reduced to whether it is active, a permission row to its    *)
(* role and action; emails, passwords and credential versions are left     *)
(* out, and what is refused on their account is Fail.  Sessions and the    *)
(* Redis side of a deletion are the subject of AccountWorkflows.           *)
(***************************************************************************)
EXTENDS Naturals, FiniteSets

CONSTANTS
    Users,      \* the ids users may get; an id is never given twice
    Requests,   \* administrative requests that may be under way at once
    Grantable,  \* the <<role, action>> pairs clients submit to /permission
    Filters,    \* the role filters clients submit to /user/list
    TokenRoles, \* the roles that tokens may still carry
    Nil         \* no row

Roles == {"client", "operator", "admin"}

\* The actions of valueobject/permission.go.
Known == {"full_access", "user:read", "user:write", "user:update",
          "user:delete", "user:change_role", "user:change_status"}

SeededPermissions ==
    {<<"admin", "full_access">>}
        \cup {"operator"} \X {"user:read", "user:update",
                              "user:change_status"}

\* What a role name that ParseUserRole refuses stands for in a filter.
Unparsable == "unparsable"

ASSUME RoleAdministrationAssumption ==
    /\ Grantable \subseteq Roles \X (Known \cup {""})
    /\ Filters \subseteq SUBSET (Roles \cup {Unparsable})
    /\ TokenRoles \subseteq Roles
    /\ Nil \notin [role : Roles, active : BOOLEAN]
    /\ Nil \notin Users

VARIABLES
    user,       \* the users table
    born,       \* the ids that have been given
    grants,     \* the permissions table
    pc,         \* where each request is
    op,         \* what it asks for
    actor,      \* who sends it, until it is authorized
    role,       \* the role of its principal: the token's, then the fresh one
    expected,   \* the role of the target that ChangeRole read
    powers,     \* the roles with which the actor could have been let through
                \* at some moment since the request arrived
    seen        \* the roles the target of ChangeRole has had since it read one

tables == <<user, born, grants>>
request == <<pc, op, actor, role, expected>>
vars == <<tables, request, powers, seen>>

Operations ==
    [kind : {"change_role"}, target : Users, role : Roles]
        \cup [kind : {"create_user"}, role : Roles]
        \cup [kind : {"delete_user"}, target : Users]
        \cup [kind : {"create_permission", "delete_permission"},
              grant : Grantable]
        \cup [kind : {"list_users"}, filter : Filters]

NoOperation == [kind |-> "none"]

PCs == {"idle", "arrived", "target", "write", "classify", "mutate"}

TypeOK ==
    /\ user \in [Users -> [role : Roles, active : BOOLEAN] \cup {Nil}]
    /\ born \in SUBSET Users
    /\ grants \in SUBSET (Roles \X (Known \cup {""}))
    /\ pc \in [Requests -> PCs]
    /\ op \in [Requests -> Operations \cup {NoOperation}]
    /\ actor \in [Requests -> Users \cup {Nil}]
    /\ role \in [Requests -> Roles]
    /\ expected \in [Requests -> Roles]
    /\ powers \in [Requests -> SUBSET Roles]
    /\ seen \in [Requests -> SUBSET Roles]
    /\ \A u \in Users : user[u] # Nil => u \in born

Exists(u) == user[u] # Nil

----------------------------------------------------------------------------
(***************************************************************************)
(* The policies.                                                           *)
(***************************************************************************)

CanModifyTargetRole(r, target) ==
    \/ r = "admin"
    \/ r = "operator" /\ target = "client"

CanAssignRole(r, requested) == CanModifyTargetRole(r, requested)

authorizeRoleMutation(r, target, requested) ==
    /\ CanModifyTargetRole(r, target)
    /\ CanAssignRole(r, requested)

VisibleRoles(r) ==
    CASE r = "admin"    -> Roles
      [] r = "operator" -> {"client"}
      [] OTHER          -> {}

PermissionsOf(r) == {g[2] : g \in {h \in grants : h[1] = r}}

Has(permissions, required) == permissions \cap {required, "full_access"} # {}

\* GetSecurityState fails when a permission of the role does not parse.
SecurityStateReadable(u) ==
    Exists(u) /\ PermissionsOf(user[u].role) \subseteq Known

\* The permission each route requires.
Required(o) ==
    CASE o.kind = "change_role" -> "user:change_role"
      [] o.kind = "delete_user" -> "user:delete"
      [] o.kind = "list_users"  -> "user:read"
      [] OTHER -> "full_access"

\* AuthorizeFresh lets u through for o.
Authorized(u, o) ==
    /\ SecurityStateReadable(u)
    /\ user[u].active
    /\ Has(PermissionsOf(user[u].role), Required(o))

----------------------------------------------------------------------------
(***************************************************************************)
(* What a request can be held to: it is observed while it is under way.    *)
(***************************************************************************)

PowersNow(r) ==
    IF pc[r] = "arrived" /\ Authorized(actor[r], op[r])
    THEN {user[actor[r]].role}
    ELSE {}

RoleOf(u) == IF Exists(u) THEN {user[u].role} ELSE {}

Observe ==
    /\ powers' = [r \in Requests |->
                     IF pc'[r] = "idle" THEN {}
                     ELSE powers[r] \cup PowersNow(r)']
    /\ seen' = [r \in Requests |->
                   IF pc'[r] \in {"write", "classify"}
                   THEN seen[r] \cup RoleOf(op[r].target)'
                   ELSE {}]

Init ==
    /\ \E u \in Users :
          /\ user = [v \in Users |-> IF v = u
                                     THEN [role |-> "admin", active |-> TRUE]
                                     ELSE Nil]
          /\ born = {u}
    /\ grants = SeededPermissions
    /\ pc = [r \in Requests |-> "idle"]
    /\ op = [r \in Requests |-> NoOperation]
    /\ actor = [r \in Requests |-> Nil]
    /\ role = [r \in Requests |-> "client"]
    /\ expected = [r \in Requests |-> "client"]
    /\ powers = [r \in Requests |-> {}]
    /\ seen = [r \in Requests |-> {}]

----------------------------------------------------------------------------
(***************************************************************************)
(* The life of a request.                                                  *)
(***************************************************************************)

Goto(r, l) == pc' = [pc EXCEPT ![r] = l]

\* The request ends with some answer.
Answer(r) ==
    /\ Goto(r, "idle")
    /\ op' = [op EXCEPT ![r] = NoOperation]
    /\ actor' = [actor EXCEPT ![r] = Nil]
    /\ role' = [role EXCEPT ![r] = "client"]
    /\ expected' = [expected EXCEPT ![r] = "client"]

\* A request with a valid token arrives.  The token is a snapshot taken up
\* to its lifetime ago: its role may be one the user had.
Arrive(r) ==
    /\ pc[r] = "idle"
    /\ Goto(r, "arrived")
    /\ \E o \in Operations, u \in born, t \in TokenRoles :
          /\ op' = [op EXCEPT ![r] = o]
          /\ actor' = [actor EXCEPT ![r] = u]
          /\ role' = [role EXCEPT ![r] = t]
    /\ UNCHANGED <<tables, expected>>
    /\ Observe

\* A statement fails or the client goes away: nothing is written.
Fail(r) ==
    /\ pc[r] # "idle"
    /\ Answer(r)
    /\ UNCHANGED tables
    /\ Observe

\* Mutant of FreshRole: the principal keeps the role of its token, as that
\* of AuthorizeFreshIdentity does.
TokenRole(r) == role[r]

\* The role of the principal that AuthorizeFresh returns.
FreshRole(r) == user[actor[r]].role

\* RequireFreshAuthorization, AuthorizeFresh.
AuthorizeFresh(r) ==
    /\ pc[r] = "arrived"
    /\ IF Authorized(actor[r], op[r])
       THEN /\ Goto(r, IF op[r].kind = "change_role" THEN "target"
                                                     ELSE "mutate")
            /\ role' = [role EXCEPT ![r] = FreshRole(r)]
            /\ actor' = [actor EXCEPT ![r] = Nil]
            /\ UNCHANGED <<op, expected>>
       ELSE Answer(r)
    /\ UNCHANGED tables
    /\ Observe

----------------------------------------------------------------------------
(***************************************************************************)
(* ChangeRole.                                                             *)
(***************************************************************************)

\* FindStatusSnapshotByID and authorizeRoleMutation.
ReadTarget(r) ==
    /\ pc[r] = "target"
    /\ LET target == user[op[r].target]
       IN IF /\ target # Nil
             /\ authorizeRoleMutation(role[r], target.role, op[r].role)
          THEN /\ Goto(r, "write")
               /\ expected' = [expected EXCEPT ![r] = target.role]
               /\ UNCHANGED <<op, actor, role>>
          ELSE Answer(r)
    /\ UNCHANGED tables
    /\ Observe

\* Mutant of RowMatches: UPDATE without "AND role = $4".
RowMatchesId(r) == Exists(op[r].target)

\* WHERE id = $3 AND role = $4.
RowMatches(r) ==
    /\ Exists(op[r].target)
    /\ user[op[r].target].role = expected[r]

\* UpdateRole.
UpdateRole(r) ==
    /\ pc[r] = "write"
    /\ IF RowMatches(r)
       THEN /\ user' = [user EXCEPT ![op[r].target].role = op[r].role]
            /\ Answer(r)
       ELSE /\ Goto(r, "classify")
            /\ UNCHANGED <<user, op, actor, role, expected>>
    /\ UNCHANGED <<born, grants>>
    /\ Observe

\* Mutant of MissOutcome: every miss on a row that is there is taken for a
\* concurrent change.
MissOutcomeConflict(r) ==
    IF Exists(op[r].target) THEN "conflict" ELSE "problem"

\* What ChangeRole answers to the row classifyRoleUpdateMiss reads: already
\* applied is a success; a row that is gone, or that has the expected role
\* again, is not a conflict.
MissOutcome(r) ==
    LET target == user[op[r].target]
    IN IF target = Nil THEN "problem"
       ELSE IF target.role = op[r].role THEN "ok"
       ELSE IF target.role = expected[r] THEN "problem"
       ELSE "conflict"

\* classifyRoleUpdateMiss: the request ends with MissOutcome(r).
classifyRoleUpdateMiss(r) ==
    /\ pc[r] = "classify"
    /\ Answer(r)
    /\ UNCHANGED tables
    /\ Observe

----------------------------------------------------------------------------
(***************************************************************************)
(* The operations of one statement.                                        *)
(***************************************************************************)

\* CreateUser: a row with a new id, inactive.
CreateUser(r) ==
    /\ pc[r] = "mutate"
    /\ op[r].kind = "create_user"
    /\ \E u \in Users \ born :
          /\ user' = [user EXCEPT ![u] = [role |-> op[r].role,
                                          active |-> FALSE]]
          /\ born' = born \cup {u}
    /\ Answer(r)
    /\ UNCHANGED <<grants>>
    /\ Observe

\* DeleteUser: no policy relates the actor to the target.
DeleteUser(r) ==
    /\ pc[r] = "mutate"
    /\ op[r].kind = "delete_user"
    /\ user' = [user EXCEPT ![op[r].target] = Nil]
    /\ Answer(r)
    /\ UNCHANGED <<born, grants>>
    /\ Observe

\* CreatePermissin parses the action unless it is empty; a pair that is
\* there already is a unique violation and stays as it is.
CreatePermission(r) ==
    /\ pc[r] = "mutate"
    /\ op[r].kind = "create_permission"
    /\ grants' = grants \cup {op[r].grant}
    /\ Answer(r)
    /\ UNCHANGED <<user, born>>
    /\ Observe

\* The row is named by its id; one that is gone already is reported as
\* missing.
DeletePermission(r) ==
    /\ pc[r] = "mutate"
    /\ op[r].kind = "delete_permission"
    /\ grants' = grants \ {op[r].grant}
    /\ Answer(r)
    /\ UNCHANGED <<user, born>>
    /\ Observe

\* Mutant of SelectedUsers: an empty intersection goes on to the query,
\* where no roles mean no filter.
SelectedUsersUnfiltered(r, filter) ==
    LET asked == filter \cap Roles
        roles == IF asked = {} THEN VisibleRoles(r)
                 ELSE asked \cap VisibleRoles(r)
    IN {u \in Users : Exists(u) /\ (roles = {} \/ user[u].role \in roles)}

\* The users GetUserslist selects: nothing for an actor who sees nothing,
\* for a filter none of whose names parses (MatchNone) and for one that asks
\* for nothing the actor sees; otherwise the rows with one of the roles.
SelectedUsers(r, filter) ==
    LET asked == filter \cap Roles
        roles == IF filter = {} THEN VisibleRoles(r)
                 ELSE asked \cap VisibleRoles(r)
    IN {u \in Users : Exists(u) /\ user[u].role \in roles}

\* GetUserslist, ListUsers: answers with a page of
\* SelectedUsers(role[r], op[r].filter).
ListUsers(r) ==
    /\ pc[r] = "mutate"
    /\ op[r].kind = "list_users"
    /\ Answer(r)
    /\ UNCHANGED tables
    /\ Observe

----------------------------------------------------------------------------
(***************************************************************************)
(* Beside the requests.                                                    *)
(***************************************************************************)

\* UpdateStatus: the row of a status change that AccountWorkflows follows.
ChangeStatus(u) ==
    /\ Exists(u)
    /\ user' = [user EXCEPT ![u].active = ~@]
    /\ UNCHANGED <<born, grants, request>>
    /\ Observe

\* Signup: an inactive client.
Signup ==
    /\ \E u \in Users \ born :
          /\ user' = [user EXCEPT ![u] = [role |-> "client",
                                          active |-> FALSE]]
          /\ born' = born \cup {u}
    /\ UNCHANGED <<grants, request>>
    /\ Observe

\* The owner's own DELETE /user commits (see AccountWorkflows).
DeleteAccount(u) ==
    /\ Exists(u)
    /\ user' = [user EXCEPT ![u] = Nil]
    /\ UNCHANGED <<born, grants, request>>
    /\ Observe

\* SeedPermissions of an instance that starts: one transaction.
SeedPermissions ==
    /\ grants' = grants \cup SeededPermissions
    /\ UNCHANGED <<user, born, request>>
    /\ Observe

\* SeedAdminUser, the next statement of that instance.  Emails are left
\* open: it inserts when no row has the configured one, because that user
\* was deleted or changed it, and does nothing when one has.
SeedAdminUser ==
    /\ \E u \in Users \ born :
          /\ user' = [user EXCEPT ![u] = [role |-> "admin", active |-> TRUE]]
          /\ born' = born \cup {u}
    /\ UNCHANGED <<grants, request>>
    /\ Observe

RequestStep(r) ==
    \/ Arrive(r) \/ Fail(r)
    \/ AuthorizeFresh(r)
    \/ ReadTarget(r) \/ UpdateRole(r) \/ classifyRoleUpdateMiss(r)
    \/ CreateUser(r) \/ DeleteUser(r)
    \/ CreatePermission(r) \/ DeletePermission(r)
    \/ ListUsers(r)

Next ==
    \/ \E r \in Requests : RequestStep(r)
    \/ \E u \in Users : ChangeStatus(u) \/ DeleteAccount(u)
    \/ Signup \/ SeedPermissions \/ SeedAdminUser

Spec == Init /\ [][Next]_vars

----------------------------------------------------------------------------

\* usecase/user ChangeRole, repository UpdateRole: a role changes only by the
\* compare-and-set of a request whose actor may modify the role the target
\* has at that very moment, and may assign the new one, although both were
\* checked against a row read earlier and other requests write in between.
RoleChangesRespectHierarchy ==
    [][\A u \in Users :
          Exists(u) /\ Exists(u)' /\ user'[u].role # user[u].role =>
             \E r \in Requests :
                /\ pc[r] = "write" /\ op[r].target = u
                /\ CanModifyTargetRole(role[r], user[u].role)
                /\ CanAssignRole(role[r], user'[u].role)]_vars

\* middleware RequireFreshAuthorization, AuthorizeFresh: whatever a request
\* goes on to read or write, it does with a role its actor had, active and
\* with the permission of the route, after the request arrived; a demotion,
\* a suspension, a deletion or a revoked permission that was committed before
\* it arrived stops it, whatever its token says.
AuthorityHeldDuringRequest ==
    \A r \in Requests :
        pc[r] \in {"target", "write", "classify", "mutate"} =>
            role[r] \in powers[r]

\* repository UpdateRole and classifyRoleUpdateMiss: after a miss, success
\* is answered only if the target has had the requested role since ChangeRole
\* read it, and a conflict only if it has had the role that was read and then
\* a third one: the classification, a statement of its own, reports no change
\* that did not happen.
MissIsClassifiedTruly ==
    \A r \in Requests : pc[r] = "classify" =>
        /\ MissOutcome(r) = "ok" => op[r].role \in seen[r]
        /\ MissOutcome(r) = "conflict" =>
              /\ expected[r] \in seen[r]
              /\ seen[r] \ {expected[r], op[r].role} # {}

\* GetUserslist, ListUsers: a listing answers with users whose role, at the
\* moment of the query, the actor's role may see, whatever filter the client
\* sends and although no roles mean no filter to the query.
ListingsStayVisible ==
    \A r \in Requests : pc[r] = "mutate" /\ op[r].kind = "list_users" =>
        \A u \in SelectedUsers(role[r], op[r].filter) :
            CanModifyTargetRole(role[r], user[u].role)

\* permission_handler_test.go, "use case was called for an unknown
\* permission": every stored permission is one ParsePermission accepts.
StoredPermissionsParse == \A g \in grants : g[2] \in Known
=============================================================================
