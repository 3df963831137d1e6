---------------------- MODULE RoleAdministrationProofs ----------------------
(***************************************************************************)
(* RoleAdministration for every set of users and requests: a role changes  *)
(* only within the hierarchy, and authority is never older than the        *)
(* request that uses it.                                                   *)
(***************************************************************************)
EXTENDS RoleAdministration, TLAPS

Late == {"target", "write", "classify", "mutate"}

\* What the properties need of the types.
Tables ==
    /\ user \in [Users -> [role : Roles, active : BOOLEAN] \cup {Nil}]
    /\ born \in SUBSET Users
    /\ pc \in [Requests -> PCs]
    /\ op \in [Requests -> Operations \cup {NoOperation}]
    /\ actor \in [Requests -> Users \cup {Nil}]
    /\ role \in [Requests -> Roles]
    /\ expected \in [Requests -> Roles]

\* A request is under way with what it asks for; only one of ChangeRole reads
\* a target.
UnderWay ==
    \A r \in Requests :
        /\ pc[r] # "idle" => op[r] \in Operations
        /\ pc[r] = "arrived" => actor[r] \in Users
        /\ pc[r] \in {"target", "write", "classify"} =>
              op[r].kind = "change_role"

\* The observation is up to date while the request waits to be authorized.
Watched ==
    \A r \in Requests : pc[r] = "arrived" => PowersNow(r) \subseteq powers[r]

\* What ChangeRole knows once it has read its target.
HasRead ==
    \A r \in Requests : pc[r] \in {"write", "classify"} =>
        /\ expected[r] \in seen[r]
        /\ RoleOf(op[r].target) \subseteq seen[r]
        /\ CanModifyTargetRole(role[r], expected[r])
        /\ CanAssignRole(role[r], op[r].role)

\* An id that was not given has no row.
Given == \A u \in Users : Exists(u) => u \in born

IInv ==
    /\ Tables /\ Given /\ UnderWay /\ Watched
    /\ AuthorityHeldDuringRequest /\ HasRead

\* The operations of the other routes have no target role to change.
LEMMA ChangeRoleOperation ==
    ASSUME NEW o \in Operations, o.kind = "change_role"
    PROVE  o.target \in Users /\ o.role \in Roles
BY DEF Operations

LEMMA DeleteOperation ==
    ASSUME NEW o \in Operations, o.kind = "delete_user"
    PROVE  o.target \in Users
BY DEF Operations

LEMMA CreateOperation ==
    ASSUME NEW o \in Operations, o.kind = "create_user"
    PROVE  o.role \in Roles
BY DEF Operations

LEMMA NilIsNoRow == Nil \notin [role : Roles, active : BOOLEAN]
BY RoleAdministrationAssumption

LEMMA TokensCarryRoles == TokenRoles \subseteq Roles
BY RoleAdministrationAssumption

LEMMA InitIInv == Init => IInv
<1> SUFFICES ASSUME Init PROVE IInv
    OBVIOUS
<1>1. Tables
  <2>1. PICK u \in Users :
          /\ user = [v \in Users |-> IF v = u
                                     THEN [role |-> "admin", active |-> TRUE]
                                     ELSE Nil]
          /\ born = {u}
    BY DEF Init
  <2>2. user \in [Users -> [role : Roles, active : BOOLEAN] \cup {Nil}]
    BY <2>1 DEF Roles
  <2> QED BY <2>1, <2>2 DEF Init, Tables, PCs, Roles
<1>2. \A r \in Requests : pc[r] = "idle"
  BY DEF Init
<1>3. Given
  BY DEF Init, Given, Exists
<1> QED BY <1>1, <1>2, <1>3 DEF IInv, UnderWay, Watched, HasRead,
                          AuthorityHeldDuringRequest

----------------------------------------------------------------------------
(***************************************************************************)
(* How a step moves one request q.                                         *)
(***************************************************************************)

Same(q) ==
    /\ op'[q] = op[q] /\ actor'[q] = actor[q]
    /\ role'[q] = role[q] /\ expected'[q] = expected[q]

Arrives(q) ==
    /\ pc'[q] = "arrived"
    /\ op'[q] \in Operations /\ actor'[q] \in Users

Authorizes(q) ==
    /\ pc[q] = "arrived"
    /\ \/ pc'[q] = "target" /\ op[q].kind = "change_role"
       \/ pc'[q] = "mutate"
    /\ op'[q] = op[q]
    /\ Authorized(actor[q], op[q])
    /\ role'[q] = user[actor[q]].role

Reads(q) ==
    /\ pc[q] = "target" /\ pc'[q] = "write"
    /\ op'[q] = op[q] /\ role'[q] = role[q] /\ user' = user
    /\ Exists(op[q].target)
    /\ expected'[q] = user[op[q].target].role
    /\ authorizeRoleMutation(role[q], expected'[q], op[q].role)

Misses(q) == pc[q] = "write" /\ pc'[q] = "classify" /\ Same(q)

Shape(q) ==
    \/ pc'[q] = pc[q] /\ Same(q)
    \/ pc'[q] = "idle"
    \/ Arrives(q) \/ Authorizes(q) \/ Reads(q) \/ Misses(q)

LEMMA RequestShape ==
    ASSUME Tables, UnderWay, NEW r \in Requests, RequestStep(r),
           NEW q \in Requests
    PROVE  Shape(q)
<1> USE DEF Tables
<1>1. CASE q # r
  <2>1. pc'[q] = pc[q] /\ Same(q)
    BY <1>1 DEF RequestStep, Arrive, Fail, AuthorizeFresh, ReadTarget,
         UpdateRole, classifyRoleUpdateMiss, CreateUser, DeleteUser,
         CreatePermission, DeletePermission, ListUsers, Answer, Goto, Same
  <2> QED BY <2>1 DEF Shape
<1>2. CASE q = r
  <2>1. CASE Answer(r)
    BY <2>1, <1>2 DEF Answer, Goto, Shape
  <2>2. CASE Arrive(r)
    BY <2>2, <1>2 DEF Arrive, Goto, Shape, Arrives
  <2>3. CASE AuthorizeFresh(r) /\ ~Answer(r)
    BY <2>3, <1>2 DEF AuthorizeFresh, Goto, Shape, Authorizes, FreshRole
  <2>4. CASE ReadTarget(r) /\ ~Answer(r)
    BY <2>4, <1>2 DEF ReadTarget, Goto, Shape, Reads, Exists, tables
  <2>5. CASE UpdateRole(r) /\ ~Answer(r)
    BY <2>5, <1>2 DEF UpdateRole, Goto, Shape, Misses, Same
  <2> QED
    BY <2>1, <2>2, <2>3, <2>4, <2>5
    DEF RequestStep, Fail, classifyRoleUpdateMiss, CreateUser, DeleteUser,
        CreatePermission, DeletePermission, ListUsers
<1> QED BY <1>1, <1>2

LEMMA StepShape ==
    ASSUME Tables, UnderWay, Next
    PROVE  Observe /\ \A q \in Requests : Shape(q)
<1>1. CASE \E r \in Requests : RequestStep(r)
  <2>1. PICK r \in Requests : RequestStep(r)
    BY <1>1
  <2>2. \A q \in Requests : Shape(q)
    BY <2>1, RequestShape
  <2>3. Observe
    BY <2>1 DEF RequestStep, Arrive, Fail, AuthorizeFresh, ReadTarget,
         UpdateRole, classifyRoleUpdateMiss, CreateUser, DeleteUser,
         CreatePermission, DeletePermission, ListUsers
  <2> QED BY <2>2, <2>3
<1>2. CASE ~ \E r \in Requests : RequestStep(r)
  <2>1. Observe /\ UNCHANGED request
    BY <1>2 DEF Next, ChangeStatus, DeleteAccount, Signup, SeedPermissions,
                SeedAdminUser
  <2> QED BY <2>1 DEF Shape, Same, request
<1> QED BY <1>1, <1>2

----------------------------------------------------------------------------
(***************************************************************************)
(* The inductive step.                                                     *)
(***************************************************************************)

LEMMA RequestTables ==
    ASSUME Tables, UnderWay, NEW r \in Requests, RequestStep(r)
    PROVE  Tables'
<1> USE DEF Tables
<1> DEFINE Rows == [role : Roles, active : BOOLEAN]
           Whole == /\ pc' \in [Requests -> PCs]
                    /\ op' \in [Requests -> Operations \cup {NoOperation}]
                    /\ actor' \in [Requests -> Users \cup {Nil}]
                    /\ role' \in [Requests -> Roles]
                    /\ expected' \in [Requests -> Roles]
<1>0. Answer(r) => Whole
  BY DEF Answer, Goto, PCs, Roles
<1>1. CASE Arrive(r)
  <2>1. Whole
    BY <1>1, TokensCarryRoles DEF Arrive, Goto, PCs
  <2> QED BY <1>1, <2>1 DEF Arrive, tables
<1>2. CASE Fail(r) \/ classifyRoleUpdateMiss(r) \/ ListUsers(r)
  BY <1>2, <1>0 DEF Fail, classifyRoleUpdateMiss, ListUsers, tables
<1>3. CASE AuthorizeFresh(r)
  <2>1. CASE Answer(r)
    BY <1>3, <2>1, <1>0 DEF AuthorizeFresh, tables
  <2>2. CASE ~Answer(r)
    <3>1. user[actor[r]].role \in Roles
      BY <1>3, <2>2, NilIsNoRow
      DEF AuthorizeFresh, UnderWay, Authorized, SecurityStateReadable, Exists
    <3>2. Whole
      BY <1>3, <2>2, <3>1 DEF AuthorizeFresh, Goto, PCs, FreshRole
    <3> QED BY <1>3, <3>2 DEF AuthorizeFresh, tables
  <2> QED BY <2>1, <2>2
<1>4. CASE ReadTarget(r)
  <2>1. CASE Answer(r)
    BY <1>4, <2>1, <1>0 DEF ReadTarget, tables
  <2>2. CASE ~Answer(r)
    <3>1. op[r].target \in Users
      BY <1>4, ChangeRoleOperation DEF ReadTarget, UnderWay
    <3>2. user[op[r].target].role \in Roles
      BY <1>4, <2>2, <3>1, NilIsNoRow DEF ReadTarget
    <3>3. Whole
      BY <1>4, <2>2, <3>2 DEF ReadTarget, Goto, PCs
    <3> QED BY <1>4, <3>3 DEF ReadTarget, tables
  <2> QED BY <2>1, <2>2
<1>5. CASE UpdateRole(r)
  <2>1. op[r].target \in Users /\ op[r].role \in Roles
    BY <1>5, ChangeRoleOperation DEF UpdateRole, UnderWay
  <2>2. CASE RowMatches(r)
    <3>1. user[op[r].target] \in Rows
      BY <2>1, <2>2, NilIsNoRow DEF RowMatches, Exists
    <3>2. user' = [user EXCEPT ![op[r].target] =
                     [user[op[r].target] EXCEPT !.role = op[r].role]]
      BY <1>5, <2>2 DEF UpdateRole
    <3>3. [user[op[r].target] EXCEPT !.role = op[r].role] \in Rows
      BY <3>1, <2>1
    <3>4. user' \in [Users -> Rows \cup {Nil}]
      BY <3>2, <3>3
    <3> QED BY <1>5, <2>2, <1>0, <3>4 DEF UpdateRole
  <2>3. CASE ~RowMatches(r)
    BY <1>5, <2>3 DEF UpdateRole, Goto, PCs
  <2> QED BY <2>2, <2>3
<1>6. CASE CreateUser(r)
  <2>1. op[r].role \in Roles
    BY <1>6, CreateOperation DEF CreateUser, UnderWay
  <2>2. [role |-> op[r].role, active |-> FALSE] \in Rows
    BY <2>1
  <2> QED BY <1>6, <1>0, <2>2 DEF CreateUser
<1>7. CASE DeleteUser(r)
  BY <1>7, <1>0 DEF DeleteUser
<1>8. CASE CreatePermission(r) \/ DeletePermission(r)
  BY <1>8, <1>0 DEF CreatePermission, DeletePermission
<1> QED
  BY <1>1, <1>2, <1>3, <1>4, <1>5, <1>6, <1>7, <1>8 DEF RequestStep

LEMMA NextTables == ASSUME Tables, UnderWay, Next PROVE Tables'
<1>1. ASSUME NEW r \in Requests, RequestStep(r) PROVE Tables'
  BY <1>1, RequestTables
<1>2. ASSUME NEW u \in Users, ChangeStatus(u) PROVE Tables'
  <2>1. user[u] \in [role : Roles, active : BOOLEAN]
    BY <1>2 DEF ChangeStatus, Exists, Tables
  <2>2. user' = [user EXCEPT ![u] = [user[u] EXCEPT !.active = ~user[u].active]]
    BY <1>2 DEF ChangeStatus
  <2>3. [user[u] EXCEPT !.active = ~user[u].active]
           \in [role : Roles, active : BOOLEAN]
    BY <2>1
  <2> QED BY <1>2, <2>2, <2>3 DEF ChangeStatus, Tables, request
<1>3. CASE SeedPermissions
  BY <1>3 DEF SeedPermissions, Tables, request
<1>4. CASE SeedAdminUser
  <2>1. [role |-> "admin", active |-> TRUE]
           \in [role : Roles, active : BOOLEAN]
    BY DEF Roles
  <2> QED BY <1>4, <2>1 DEF SeedAdminUser, Tables, request
<1>5. CASE Signup
  <2>1. [role |-> "client", active |-> FALSE]
           \in [role : Roles, active : BOOLEAN]
    BY DEF Roles
  <2> QED BY <1>5, <2>1 DEF Signup, Tables, request
<1>6. ASSUME NEW u \in Users, DeleteAccount(u) PROVE Tables'
  BY <1>6 DEF DeleteAccount, Tables, request
<1> QED BY <1>1, <1>2, <1>3, <1>4, <1>5, <1>6 DEF Next

LEMMA NextGiven == ASSUME Tables, UnderWay, Given, Next PROVE Given'
<1> USE DEF Tables
<1> SUFFICES ASSUME NEW u \in Users, user'[u] # Nil, u \notin born'
             PROVE  FALSE
  BY DEF Given, Exists
<1>1. ASSUME NEW r \in Requests, RequestStep(r) PROVE FALSE
  <2>1. CASE UpdateRole(r)
    <3>1. op[r].target \in Users
      BY <2>1, ChangeRoleOperation DEF UpdateRole, UnderWay
    <3> QED BY <2>1, <3>1 DEF UpdateRole, RowMatches, Given, Exists
  <2>2. CASE ~UpdateRole(r)
    BY <1>1, <2>2
    DEF RequestStep, Arrive, Fail, AuthorizeFresh, ReadTarget, Given, Exists,
        classifyRoleUpdateMiss, CreateUser, DeleteUser, CreatePermission,
        DeletePermission, ListUsers, tables
  <2> QED BY <2>1, <2>2
<1>2. ASSUME NEW v \in Users, ChangeStatus(v) PROVE FALSE
  BY <1>2 DEF ChangeStatus, Given, Exists
<1>3. CASE SeedPermissions \/ SeedAdminUser \/ Signup
  BY <1>3 DEF SeedPermissions, SeedAdminUser, Signup, Given, Exists
<1>4. ASSUME NEW v \in Users, DeleteAccount(v) PROVE FALSE
  BY <1>4 DEF DeleteAccount, Given, Exists
<1> QED BY <1>1, <1>2, <1>3, <1>4 DEF Next

LEMMA NextIInv == ASSUME IInv, Next PROVE IInv'
<1> USE DEF IInv
<1>1. Tables'
  BY NextTables
<1>2. Observe /\ \A q \in Requests : Shape(q)
  BY StepShape
<1>3. UnderWay'
  <2> SUFFICES ASSUME NEW q \in Requests
               PROVE  /\ pc'[q] # "idle" => op'[q] \in Operations
                      /\ pc'[q] = "arrived" => actor'[q] \in Users
                      /\ pc'[q] \in {"target", "write", "classify"} =>
                            op'[q].kind = "change_role"
    BY DEF UnderWay
  <2> QED
    BY <1>2 DEF Shape, Same, Arrives, Authorizes, Reads, Misses, UnderWay
<1>4. Watched'
  BY <1>2 DEF Watched, Observe
<1>5. AuthorityHeldDuringRequest'
  <2> SUFFICES ASSUME NEW q \in Requests,
                      pc'[q] \in {"target", "write", "classify", "mutate"}
               PROVE  role'[q] \in powers'[q]
    BY DEF AuthorityHeldDuringRequest
  <2>1. powers[q] \subseteq powers'[q]
    BY <1>2 DEF Observe
  <2>2. CASE Authorizes(q)
    <3>1. role'[q] \in PowersNow(q)
      BY <2>2 DEF Authorizes, PowersNow
    <3> QED BY <2>1, <2>2, <3>1 DEF Authorizes, Watched
  <2>3. CASE ~Authorizes(q)
    <3>1. role'[q] = role[q]
          /\ pc[q] \in {"target", "write", "classify", "mutate"}
      BY <1>2, <2>3 DEF Shape, Same, Arrives, Reads, Misses
    <3> QED BY <2>1, <3>1 DEF AuthorityHeldDuringRequest
  <2> QED BY <2>2, <2>3
<1>6. HasRead'
  <2> SUFFICES ASSUME NEW q \in Requests, pc'[q] \in {"write", "classify"}
               PROVE  /\ expected'[q] \in seen'[q]
                      /\ RoleOf(op[q].target)' \subseteq seen'[q]
                      /\ CanModifyTargetRole(role'[q], expected'[q])
                      /\ CanAssignRole(role'[q], op'[q].role)
    BY DEF HasRead, CanModifyTargetRole, CanAssignRole
  <2>1. seen'[q] = seen[q] \cup RoleOf(op[q].target)'
    BY <1>2 DEF Observe
  <2>2. CASE Reads(q)
    <3>1. RoleOf(op[q].target)' = {user[op[q].target].role}
      BY <2>2 DEF Reads, RoleOf, Exists
    <3> QED BY <2>1, <2>2, <3>1 DEF Reads, authorizeRoleMutation
  <2>3. CASE ~Reads(q)
    <3>1. pc[q] \in {"write", "classify"} /\ Same(q)
      BY <1>2, <2>3 DEF Shape, Arrives, Authorizes, Misses
    <3> QED BY <2>1, <3>1 DEF HasRead, Same
  <2> QED BY <2>2, <2>3
<1>7. Given'
  BY NextGiven
<1> QED BY <1>1, <1>3, <1>4, <1>5, <1>6, <1>7

LEMMA StutterIInv == ASSUME IInv, UNCHANGED vars PROVE IInv'
<1>1. /\ user' = user /\ born' = born /\ grants' = grants /\ pc' = pc
      /\ op' = op /\ actor' = actor /\ role' = role
      /\ expected' = expected /\ powers' = powers /\ seen' = seen
  BY DEF vars, tables, request
<1>2. Watched'
  BY <1>1 DEF IInv, Watched, PowersNow, Authorized, PermissionsOf,
       SecurityStateReadable, Exists
<1> QED
  BY <1>1, <1>2 DEF IInv, Tables, UnderWay, HasRead, RoleOf, Exists, Given,
       AuthorityHeldDuringRequest, CanModifyTargetRole, CanAssignRole

\* What a request knows and holds is an invariant of the specification.
THEOREM InductiveInvariant == Spec => []IInv
<1>1. IInv /\ [Next]_vars => IInv'
  BY NextIInv, StutterIInv
<1> QED BY <1>1, InitIInv, PTL DEF Spec

----------------------------------------------------------------------------

\* RequireFreshAuthorization and AuthorizeFresh: a request acts with a role
\* its actor had, active and with the permission, after it arrived.
THEOREM AuthorityHolds == Spec => []AuthorityHeldDuringRequest
<1>1. IInv => AuthorityHeldDuringRequest
  BY DEF IInv
<1> QED BY <1>1, InductiveInvariant, PTL

\* UpdateRole and classifyRoleUpdateMiss: the answer to a missed
\* compare-and-set reports no change of role that did not happen.
THEOREM ClassificationHolds == Spec => []MissIsClassifiedTruly
<1>1. IInv => MissIsClassifiedTruly
  <2> SUFFICES ASSUME IInv, NEW r \in Requests, pc[r] = "classify"
               PROVE  /\ MissOutcome(r) = "ok" => op[r].role \in seen[r]
                      /\ MissOutcome(r) = "conflict" =>
                            /\ expected[r] \in seen[r]
                            /\ seen[r] \ {expected[r], op[r].role} # {}
    BY DEF MissIsClassifiedTruly
  <2> QED BY DEF IInv, HasRead, MissOutcome, RoleOf, Exists
<1> QED BY <1>1, InductiveInvariant, PTL

\* GetUserslist: a listing shows only roles its actor may see, although
\* VisibleRoles and CanModifyTargetRole are tables of their own.
THEOREM ListingsHold == Spec => []ListingsStayVisible
<1>1. ListingsStayVisible
  BY DEF ListingsStayVisible, SelectedUsers, VisibleRoles,
       CanModifyTargetRole
<1> QED BY <1>1, PTL

\* ChangeRole and UpdateRole: a role changes only within the hierarchy of
\* the role the target has when it is written.
THEOREM HierarchyHolds == Spec => RoleChangesRespectHierarchy
<1> DEFINE Justified(u) ==
             \E r \in Requests :
                /\ pc[r] = "write" /\ op[r].target = u
                /\ CanModifyTargetRole(role[r], user[u].role)
                /\ CanAssignRole(role[r], user'[u].role)
           Good == \A u \in Users :
                     Exists(u) /\ Exists(u)' /\ user'[u].role # user[u].role
                        => Justified(u)
<1>1. ASSUME IInv, Next PROVE Good
  <2> SUFFICES ASSUME NEW u \in Users, Exists(u), Exists(u)',
                      user'[u].role # user[u].role
               PROVE  Justified(u)
    OBVIOUS
  <2>0. user[u] \in [role : Roles, active : BOOLEAN] /\ u \in DOMAIN user
    BY <1>1 DEF IInv, Tables, Exists
  <2>1. ASSUME NEW r \in Requests, UpdateRole(r), RowMatches(r)
        PROVE  Justified(u)
    <3>1. op[r].target \in Users /\ op[r].role \in Roles
      BY <1>1, <2>1, ChangeRoleOperation DEF UpdateRole, IInv, UnderWay
    <3>2. user' = [user EXCEPT ![op[r].target] =
                     [user[op[r].target] EXCEPT !.role = op[r].role]]
      BY <2>1 DEF UpdateRole
    <3>3. op[r].target = u
      BY <2>0, <3>2
    <3>4. user'[u].role = op[r].role
      BY <2>0, <3>2, <3>3
    <3>5. /\ CanModifyTargetRole(role[r], user[u].role)
          /\ CanAssignRole(role[r], user'[u].role)
      BY <1>1, <2>1, <3>3, <3>4
      DEF IInv, HasRead, UpdateRole, RowMatches
    <3> QED BY <2>1, <3>3, <3>5 DEF UpdateRole
  <2>2. ASSUME NEW v \in Users, ChangeStatus(v) PROVE FALSE
    <3>1. user' = [user EXCEPT ![v] =
                     [user[v] EXCEPT !.active = ~user[v].active]]
      BY <2>2 DEF ChangeStatus
    <3> QED BY <2>0, <3>1
  <2>3. ASSUME NEW r \in Requests, RequestStep(r), ~UpdateRole(r)
        PROVE  FALSE
    <3>1. u \in born
      BY <1>1 DEF IInv, Given
    <3>2. user'[u] = user[u] \/ user'[u] = Nil
      BY <2>0, <2>3, <3>1
      DEF RequestStep, Arrive, Fail, AuthorizeFresh, ReadTarget,
          classifyRoleUpdateMiss, CreateUser, DeleteUser, CreatePermission,
          DeletePermission, ListUsers, tables
    <3> QED BY <3>2 DEF Exists
  <2>4. CASE SeedPermissions \/ SeedAdminUser \/ Signup
    <3>1. u \in born
      BY <1>1 DEF IInv, Given
    <3> QED BY <2>0, <2>4, <3>1 DEF SeedPermissions, SeedAdminUser, Signup
  <2>5. ASSUME NEW r \in Requests, UpdateRole(r), ~RowMatches(r) PROVE FALSE
    BY <2>5 DEF UpdateRole
  <2>6. ASSUME NEW v \in Users, DeleteAccount(v) PROVE FALSE
    BY <2>0, <2>6, <1>1 DEF DeleteAccount, Exists
  <2> QED BY <1>1, <2>1, <2>2, <2>3, <2>4, <2>5, <2>6 DEF Next
<1>2. ASSUME UNCHANGED vars PROVE Good
  BY <1>2 DEF vars, tables
<1>3. IInv /\ [Next]_vars => [Good]_vars
  BY <1>1, <1>2
<1>4. [][Good]_vars => RoleChangesRespectHierarchy
  BY DEF RoleChangesRespectHierarchy
<1> QED BY <1>3, <1>4, InductiveInvariant, PTL DEF Spec
=============================================================================
