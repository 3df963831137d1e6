-------------------------- MODULE AccountWorkflows --------------------------
(***************************************************************************)
(* The requests that work on one account across PostgreSQL and Redis:      *)
(* sign-up, login, refresh, the session routes, password change, status    *)
(* change and deletion (internal/usecase/authentication, user, session and *)
(* authorization).  The two stores share no transaction, so a request is a *)
(* sequence of steps, one for each call it makes to a store, and other     *)
(* requests run between any two of them.                                   *)
(*                                                                         *)
(* A request that is refused by a check, or whose call fails, ends.  A     *)
(* call that fails is Abort; a call that took effect although its caller   *)
(* saw an error is the call's step followed by Abort.                      *)
(***************************************************************************)
EXTENDS SessionStore

CONSTANTS
    Clients,        \* concurrent requests of account owners
    Managers,       \* concurrent status changes and deletions
    FailurePoints,  \* where the next call of a request may fail
    MayLoseData     \* whether Redis may come back without its data

VARIABLES
    row,    \* the users table: account status and credential version
    req,    \* the requests being served
    torn    \* history: users whose last write to Redis was lost, was not
            \* followed by the write to the row, or crossed the opposite
            \* change of another request, and was not repeated since

accountVars ==
    <<session, jtiKey, index, indexTTL, access, issued, row, req, torn>>

Procs == Clients \cup Managers

\* "none": not signed up yet; "deleted": the row is gone for good (user
\* identifiers are never reused).
Statuses == {"none", "inactive", "active", "suspended", "deleted"}

PCs == {"idle", "login_state", "login_create", "login_token",
        "refresh_state", "refresh_rotate", "fresh_identity", "sessions",
        "password_commit", "password_cleanup", "status_block",
        "status_unblock", "activate_cas", "suspend_cas", "reactivate_cas",
        "delete_check", "delete_block", "delete_row"}

ASSUME AccountAssumption ==
    /\ 1 \in Versions
    /\ Clients \cap Managers = {}
    /\ FailurePoints \subseteq PCs \ {"idle"}
    /\ MayLoseData \in BOOLEAN

Idle == [pc |-> "idle", user |-> Nil, cred |-> 0, claim |-> Nil]

AccountTypeOK ==
    /\ row \in [Users -> [status: Statuses, ver: Versions]]
    /\ req \in [Procs -> [pc: PCs, user: Users \cup {Nil},
                          cred: Versions \cup {0}, claim: Claims \cup {Nil}]]
    /\ torn \in SUBSET Users

AccountInit ==
    /\ Init
    /\ row = [u \in Users |-> [status |-> "none", ver |-> 1]]
    /\ req = [p \in Procs |-> Idle]
    /\ torn = {}

----------------------------------------------------------------------------
(* Requests. *)

At(p, pc) == req[p].pc = pc
Start(p, r) == At(p, "idle") /\ req' = [req EXCEPT ![p] = r]
Goto(p, pc) == req' = [req EXCEPT ![p].pc = pc]
End(p) == req' = [req EXCEPT ![p] = Idle]

Exists(u) == row[u].status \notin {"none", "deleted"}

\* Mutant of MayAuthenticate: only a suspended account is refused.
NotSuspended(u) == Exists(u) /\ row[u].status # "suspended"

\* authenticationStatusError and validateActiveStatus let only this pass.
MayAuthenticate(u) == row[u].status = "active"

\* Mutant of Current: the credential version is not compared.
CurrentAnyVersion(u, v) == MayAuthenticate(u)

\* The authoritative check of login, refresh and FreshIdentity: the account
\* is active and still has the version that was verified or presented.
Current(u, v) == MayAuthenticate(u) /\ row[u].ver = v

\* Managers here have written Redis and not yet the row.
BetweenStores == {"suspend_cas", "reactivate_cas", "delete_row"}

\* A request on u has reached this step.
Reached(u, pc) == \E p \in Procs : At(p, pc) /\ req[p].user = u

\* u was blocked for a change of its row that is still to come.
Blocking(u) == Reached(u, "suspend_cas") \/ Reached(u, "delete_row")

\* A write to Redis puts the stores of u in order, unless it crosses a change
\* in the opposite direction.
WriteRedis(u, crossed) ==
    torn' = IF crossed THEN torn \cup {u} ELSE torn \ {u}

\* The call p is about to make fails, or the server gives the request up.
Abort(p) ==
    /\ req[p].pc \in FailurePoints
    /\ torn' = IF req[p].pc \in BetweenStores THEN torn \cup {req[p].user}
                                              ELSE torn
    /\ End(p)
    /\ UNCHANGED <<store, issued, row>>

\* Redis comes back without its data, and so without its blocks.
LoseData ==
    /\ MayLoseData
    /\ DataLoss
    /\ torn' = torn \cup {u \in Users : access[u].blocked}
    /\ UNCHANGED <<row, req>>

----------------------------------------------------------------------------
(* Sign-up, login and refresh. *)

\* Signup and CreateUser: one INSERT; the only status accepted is inactive.
CreateUser(u) ==
    /\ row[u].status = "none"
    /\ row' = [row EXCEPT ![u].status = "inactive"]
    /\ UNCHANGED <<store, issued, req, torn>>

\* Login: FindByEmail, the status check and the password verification.
LoginLookup(p, u) ==
    /\ MayAuthenticate(u)
    /\ Start(p, [Idle EXCEPT !.pc = "login_state", !.user = u,
                             !.cred = row[u].ver])
    /\ UNCHANGED <<store, issued, row, torn>>

\* Login: GetSecurityState after the slow verification.
LoginSecurityState(p) ==
    /\ At(p, "login_state")
    /\ IF Current(req[p].user, req[p].cred) THEN Goto(p, "login_create")
                                            ELSE End(p)
    /\ UNCHANGED <<store, issued, row, torn>>

\* Login: CreateSession, for the version that was checked.
LoginCreate(p) ==
    /\ At(p, "login_create")
    /\ \E s \in Sessions, j \in JTIs :
          LET c == [user |-> req[p].user, sid |-> s, jti |-> j,
                    cred |-> req[p].cred]
          IN  /\ Create(c)
              /\ req' = [req EXCEPT ![p].pc = "login_token", ![p].claim = c]
    /\ UNCHANGED <<row, torn>>

\* Login: CreateSession answers user_access_blocked.
LoginBlocked(p) ==
    /\ At(p, "login_create")
    /\ ~MayCreate(req[p].user)
    /\ End(p)
    /\ UNCHANGED <<store, issued, row, torn>>

\* Login: the access token is signed and the answer sent.
LoginToken(p) ==
    /\ At(p, "login_token")
    /\ End(p)
    /\ UNCHANGED <<store, issued, row, torn>>

\* Login: signing failed; the new session is deleted again, unless it is
\* already gone.
LoginUndo(p) ==
    /\ At(p, "login_token")
    /\ DeleteByUser(req[p].user, {req[p].claim.sid})
    /\ End(p)
    /\ UNCHANGED <<row, torn>>

\* Refresh: the refresh token's session is valid.
RefreshValidate(p, c) ==
    /\ Accepts(c)
    /\ Start(p, [Idle EXCEPT !.pc = "refresh_state", !.user = c.user,
                             !.claim = c])
    /\ UNCHANGED <<store, issued, row, torn>>

\* Refresh: GetSecurityState.
RefreshSecurityState(p) ==
    /\ At(p, "refresh_state")
    /\ IF Current(req[p].user, req[p].claim.cred)
       THEN Goto(p, "refresh_rotate") ELSE End(p)
    /\ UNCHANGED <<store, issued, row, torn>>

\* Refresh: RotateSessionJTI exchanges the presented identity.
RefreshRotate(p) ==
    /\ At(p, "refresh_rotate")
    /\ \E j \in JTIs : Rotate(req[p].claim, j)
    /\ End(p)
    /\ UNCHANGED <<row, torn>>

\* Refresh: the identity is no longer accepted; a jti key that leads nowhere
\* is dropped.
RefreshRefused(p) ==
    /\ At(p, "refresh_rotate")
    /\ ~Accepts(req[p].claim)
    /\ IF Dangling(req[p].claim) THEN RotateDangling(req[p].claim)
                                 ELSE UNCHANGED <<store, issued>>
    /\ End(p)
    /\ UNCHANGED <<row, torn>>

----------------------------------------------------------------------------
(* Routes of the account owner, behind Required and FreshIdentity. *)

\* Required: the access token's session is valid.
Required(p, c) ==
    /\ Accepts(c)
    /\ Start(p, [Idle EXCEPT !.pc = "fresh_identity", !.user = c.user,
                             !.claim = c])
    /\ UNCHANGED <<store, issued, row, torn>>

\* Required or Refresh: the session is not valid; the lookup drops a jti key
\* that no longer resolves.
ValidateRefused(c) ==
    /\ FindByJTI(c)
    /\ UNCHANGED <<row, req, torn>>

\* FreshIdentity; where the request goes on is the route it was sent to.
\* DELETE /user is a deletion and runs in a manager.
FreshIdentity(p) ==
    /\ At(p, "fresh_identity")
    /\ IF Current(req[p].user, req[p].claim.cred)
       THEN \/ p \in Clients /\ Goto(p, "sessions")
            \/ p \in Clients /\ Goto(p, "password_commit")
            \/ p \in Managers /\ Goto(p, "delete_check")
       ELSE End(p)
    /\ UNCHANGED <<store, issued, row, torn>>

\* Logout deletes the presented session; DeleteSessions deletes the sessions
\* named in the request, all of them or none.
DeleteSessions(p) ==
    /\ At(p, "sessions")
    /\ \E S \in SUBSET Sessions \ {{}} :
          IF MayDelete(req[p].user, S) THEN DeleteByUser(req[p].user, S)
                                       ELSE UNCHANGED <<store, issued>>
    /\ End(p)
    /\ UNCHANGED <<row, torn>>

\* DeleteSessions with remove_others.
RemoveOthers(p) ==
    LET c == req[p].claim
    IN  /\ At(p, "sessions")
        /\ IF Live(c.sid) /\ session[c.sid].user = c.user
           THEN DeleteOthersByUser(c.user, c.sid)
           ELSE UNCHANGED <<store, issued>>
        /\ End(p)
        /\ UNCHANGED <<row, torn>>

GetSessionsByUser(p) ==
    /\ At(p, "sessions")
    /\ ListByUser(req[p].user)
    /\ End(p)
    /\ UNCHANGED <<row, torn>>

\* The UPDATE that stores a password digest also advances the credential
\* version, whatever version the request has seen.
AdvanceCredential(u) ==
    /\ Exists(u)
    /\ row[u].ver + 1 \in Versions      \* bound: the versions of the instance
    /\ row' = [row EXCEPT ![u].ver = @ + 1]

\* ChangePassword: the old password was verified and the new one hashed; the
\* row changes first.  A row that is gone ends the request.
PasswordCommit(p) ==
    /\ At(p, "password_commit")
    /\ \/ AdvanceCredential(req[p].user) /\ Goto(p, "password_cleanup")
       \/ ~Exists(req[p].user) /\ End(p) /\ UNCHANGED row
    /\ UNCHANGED <<store, issued, torn>>

\* ChangePassword: the sessions are removed afterwards, best effort.
PasswordCleanup(p) ==
    /\ At(p, "password_cleanup")
    /\ DeleteAllByUser(req[p].user)
    /\ End(p)
    /\ UNCHANGED <<row, torn>>

\* UpdateUser: an administrator sets a password; no session is removed.
UpdateUser(u) ==
    /\ AdvanceCredential(u)
    /\ UNCHANGED <<store, issued, req, torn>>

----------------------------------------------------------------------------
(* Status changes and deletion. *)

\* The account-status state machine (UserStatus.CanTransitionTo), without the
\* reapplication of the current status, which ChangeStatus answers at once.
CanTransitionTo(from, to) ==
    <<from, to>> \in {<<"inactive", "active">>, <<"active", "suspended">>,
                      <<"suspended", "active">>}

\* Which call follows the decision of ChangeStatus.
AfterStatusRead(from) ==
    CASE from = "inactive"  -> "activate_cas"
      [] from = "active"    -> "status_block"
      [] from = "suspended" -> "status_unblock"

\* ChangeStatus: FindStatusSnapshotByID, then the transition is decided.
StatusRead(p, u, to) ==
    /\ CanTransitionTo(row[u].status, to)
    /\ Start(p, [Idle EXCEPT !.pc = AfterStatusRead(row[u].status),
                             !.user = u])
    /\ UNCHANGED <<store, issued, row, torn>>

\* Mutant of BlockThen: the row changes although nothing was blocked.
BlockThenUnchecked(p, pc) ==
    /\ IF GenerationLeft(req[p].user)
       THEN BlockAndDeleteAllByUser(req[p].user)
       ELSE UNCHANGED <<store, issued>>
    /\ WriteRedis(req[p].user, Reached(req[p].user, "reactivate_cas"))
    /\ Goto(p, pc)

\* Redis first: the request goes on only when the user was blocked.  Nothing
\* holds it back when a reactivation has unblocked and not yet stored.
BlockThen(p, pc) ==
    IF GenerationLeft(req[p].user)
    THEN /\ BlockAndDeleteAllByUser(req[p].user)
         /\ WriteRedis(req[p].user, Reached(req[p].user, "reactivate_cas"))
         /\ Goto(p, pc)
    ELSE UNCHANGED <<store, issued, torn>> /\ End(p)

StatusBlock(p) ==
    /\ At(p, "status_block")
    /\ BlockThen(p, "suspend_cas")
    /\ UNCHANGED row

\* Mutant of StatusUnblock: Redis is left to the next login.
StatusUnblockSkipped(p) ==
    /\ At(p, "status_unblock")
    /\ Goto(p, "reactivate_cas")
    /\ UNCHANGED <<store, issued, row, torn>>

\* The user is unblocked because the row said suspended when it was read; it
\* is not read again, and nothing holds the request back when the row is gone
\* or a suspension or deletion has blocked since.
StatusUnblock(p) ==
    /\ At(p, "status_unblock")
    /\ IF access[req[p].user].gen > 0
       THEN /\ UnblockUser(req[p].user)
            /\ WriteRedis(req[p].user,
                          ~Exists(req[p].user) \/ Blocking(req[p].user))
            /\ Goto(p, "reactivate_cas")
       ELSE UNCHANGED <<store, issued, torn>> /\ End(p)
    /\ UNCHANGED row

\* UpdateStatus: the row changes only if it still has the expected status.
UpdateStatus(u, from, to) ==
    row' = IF row[u].status = from THEN [row EXCEPT ![u].status = to] ELSE row

StatusCAS(p) ==
    LET u == req[p].user
    IN  /\ \/ At(p, "activate_cas") /\ UpdateStatus(u, "inactive", "active")
           \/ At(p, "suspend_cas") /\ UpdateStatus(u, "active", "suspended")
           \/ At(p, "reactivate_cas") /\ UpdateStatus(u, "suspended", "active")
        /\ End(p)
        /\ UNCHANGED <<store, issued, torn>>

DeleteRequest(u) == [Idle EXCEPT !.pc = "delete_block", !.user = u]

\* DELETE /user/:id, and its ExistsByID.
DeleteCheck(p, u) ==
    /\ Exists(u)
    /\ Start(p, DeleteRequest(u))
    /\ UNCHANGED <<store, issued, row, torn>>

\* DELETE /user, admitted by FreshIdentity, and its ExistsByID.
SelfDeleteCheck(p) ==
    /\ At(p, "delete_check")
    /\ req' = [req EXCEPT ![p] = IF Exists(req[p].user)
                                 THEN DeleteRequest(req[p].user) ELSE Idle]
    /\ UNCHANGED <<store, issued, row, torn>>

DeleteBlock(p) ==
    /\ At(p, "delete_block")
    /\ BlockThen(p, "delete_row")
    /\ UNCHANGED row

DeleteRow(p) ==
    /\ At(p, "delete_row")
    /\ row' = [row EXCEPT ![req[p].user].status = "deleted"]
    /\ End(p)
    /\ UNCHANGED <<store, issued, torn>>

----------------------------------------------------------------------------

ClientStep(p) ==
    \/ \E u \in Users : LoginLookup(p, u)
    \/ LoginSecurityState(p)
    \/ LoginCreate(p)
    \/ LoginBlocked(p)
    \/ LoginToken(p)
    \/ LoginUndo(p)
    \/ \E c \in issued : RefreshValidate(p, c)
    \/ RefreshSecurityState(p)
    \/ RefreshRotate(p)
    \/ RefreshRefused(p)
    \/ DeleteSessions(p)
    \/ RemoveOthers(p)
    \/ GetSessionsByUser(p)
    \/ PasswordCommit(p)
    \/ PasswordCleanup(p)

ManagerStep(p) ==
    \/ \E u \in Users, to \in Statuses : StatusRead(p, u, to)
    \/ StatusBlock(p)
    \/ StatusUnblock(p)
    \/ StatusCAS(p)
    \/ \E u \in Users : DeleteCheck(p, u)
    \/ SelfDeleteCheck(p)
    \/ DeleteBlock(p)
    \/ DeleteRow(p)

\* Steps either kind of request takes.
RequestStep(p) ==
    \/ \E c \in issued : Required(p, c)
    \/ FreshIdentity(p)
    \/ Abort(p)

AccountNext ==
    \/ \E p \in Clients : ClientStep(p)
    \/ \E p \in Managers : ManagerStep(p)
    \/ \E p \in Procs : RequestStep(p)
    \/ \E u \in Users : CreateUser(u) \/ UpdateUser(u)
    \/ \E c \in issued : ValidateRefused(c)
    \/ \E u \in Users : DeleteOrphanSessions(u) /\ UNCHANGED <<row, req, torn>>
    \/ Tick /\ UNCHANGED <<row, req, torn>>
    \/ LoseData

AccountSpec == AccountInit /\ [][AccountNext]_accountVars

----------------------------------------------------------------------------
(* Correctness. *)

\* No identity of u is accepted by ValidateSession.
ShutOut(u) == \A c \in issued : c.user = u => ~Accepts(c)

\* The row says suspended and no reactivation is between its two stores.
Suspended(u) == row[u].status = "suspended" /\ ~Reached(u, "reactivate_cas")

\* Suspension takes effect at once and lasts: no identity of a suspended user
\* is accepted, whatever logins and refreshes were under way ("a stale login
\* or snapshot token cannot create or use a session after this operation
\* linearizes", ChangeStatus), whatever other status changes and deletions of
\* the user overlap it, except from a block that Redis lost, or a change that
\* was given up between its stores or crossed an opposite one there, until
\* the next write to Redis that crosses none.
SuspendedUsersShutOut ==
    \A u \in Users \ torn : Suspended(u) => ShutOut(u)

\* What the comments in ChangeStatus claim: a suspended user is shut out once
\* the suspension linearizes ("a stale login or snapshot token cannot create
\* or use a session after this operation linearizes"), even when the database
\* failed after Redis was unblocked ("A database failure therefore remains
\* fail closed").
SuspensionFailsClosed == \A u \in Users : Suspended(u) => ShutOut(u)

\* A deleted account has no usable session and never gets one again: the
\* tombstone outlives the row ("a late login cannot create a usable session
\* and snapshot routes fail closed", DeleteUser), unless Redis lost it or a
\* reactivation that had read the row lifted it.
DeletedUsersShutOut ==
    \A u \in Users \ torn : row[u].status = "deleted" => ShutOut(u)

\* An account that was never activated has nothing in Redis, except under a
\* deletion that is about to remove its row or was given up there; so
\* activation has nothing to restore ("An inactive user has never owned a
\* session ... activation itself has no Redis state to restore",
\* ChangeStatus).
InactiveHasNoRedisState ==
    \A u \in Users : row[u].status = "inactive" =>
        /\ \A c \in issued : c.user # u
        /\ access[u] = NoAccess \/ Reached(u, "delete_row") \/ u \in torn

\* The two stores agree the other way round: an active account is blocked
\* only while a suspension or a deletion is between its two stores
\* (ChangeStatus, DeleteUser), or after one was given up there or crossed a
\* reactivation that was between its own; a change that crosses none lets the
\* user in when it ends in active.
ActiveUsersNotBlocked ==
    \A u \in Users \ torn : row[u].status = "active" /\ access[u].blocked =>
        Blocking(u)

\* Version v of u is superseded and no request that was admitted with it is
\* still about to write.
Drained(u, v) ==
    /\ v < row[u].ver
    /\ \A p \in Procs : req[p].user = u =>
          /\ At(p, "login_create") => req[p].cred # v
          /\ At(p, "refresh_rotate") => req[p].claim.cred # v

\* The commit of a password change is a boundary: once the requests that had
\* already passed their security-state check are gone, no login and no
\* refresh ever issues an identity with the old credential version again
\* (Login, Refresh and UpdatePassword).
OldCredentialsDrain ==
    [][\A u \in Users, v \in Versions : Drained(u, v) =>
          /\ Drained(u, v)'
          /\ \A c \in issued' \ issued : c.user = u => c.cred # v]_accountVars

----------------------------------------------------------------------------
(* The inductive strengthening. *)

\* Steps of a request that presents or has obtained an identity.
Presenting == {"login_token", "refresh_state", "refresh_rotate",
               "fresh_identity", "sessions", "password_commit",
               "password_cleanup", "delete_check"}

\* What a request knows at each step.
RequestsOK ==
    \A p \in Procs :
        /\ ~At(p, "idle") => req[p].user \in Users
        /\ At(p, "login_state") \/ At(p, "login_create")
              => req[p].cred \in Versions
        /\ req[p].pc \in Presenting
              => req[p].claim \in issued /\ req[p].claim.user = req[p].user

\* Why a suspended or deleted user is shut out and an active one is not: the
\* block is in place before the row changes and lifted before the row says
\* active, so that changes in opposite directions that are both between their
\* stores have crossed.
BlockBeforeRow ==
    /\ \A p \in Procs : req[p].pc \in BetweenStores => p \in Managers
    /\ \A u \in Users \ torn :
          /\ Suspended(u) \/ row[u].status = "deleted" \/ Blocking(u)
                => access[u].blocked
          /\ Reached(u, "reactivate_cas") => ~access[u].blocked

\* Why activation has nothing to restore: only its activation and its deletion
\* can be under way on an account that was never active.
NewAccounts ==
    \A u \in Users : row[u].status \in {"none", "inactive"} =>
        /\ \A c \in issued : c.user # u
        /\ access[u] = NoAccess \/ Reached(u, "delete_row") \/ u \in torn
        /\ \A p \in Procs : req[p].user = u =>
              req[p].pc \in {"activate_cas", "delete_block", "delete_row"}

StoresAgree == BlockBeforeRow /\ ActiveUsersNotBlocked /\ NewAccounts

AccountInv == StoreInv /\ AccountTypeOK /\ RequestsOK

=============================================================================
