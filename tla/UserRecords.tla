---------------------------- MODULE UserRecords ----------------------------
(***************************************************************************)
(* The e-mail address, the password and the credential version of a user   *)
(* row, and the requests that read and write them: sign-up, login, the     *)
(* owner's change of e-mail or password, the administrator's update and    *)
(* the seeding of the administrator at every start of an instance          *)
(* (internal/usecase/authentication, internal/usecase/user,                *)
(* internal/infra/database/postgres).  Hashing and verifying a password    *)
(* are slow: whatever a request read before them may be stale after them.  *)
(*                                                                         *)
(* Redis is left to AccountWorkflows.  Here a session is what the login    *)
(* put into it, together with the password that was presented.            *)
(***************************************************************************)
EXTENDS Naturals, FiniteSets

CONSTANTS
    UserIds,        \* identifiers, never used twice
    Emails,         \* addresses other than the empty one
    NoEmail,        \* the empty string: sign-up accepts it as an address
    Passwords,
    AdminEmail, AdminPassword,  \* the credentials that are seeded
    Procs,          \* concurrent requests
    Nil,
    MaxVersion,     \* bound on the credential versions
    MaxSessions     \* bound on the sessions that exist at a time

ASSUME RecordsAssumption ==
    /\ NoEmail \notin Emails
    /\ AdminEmail \in Emails /\ AdminPassword \in Passwords
    /\ Nil \notin UserIds \cup Passwords
    /\ MaxVersion \in Nat \ {0} /\ MaxSessions \in Nat

VARIABLES
    users,      \* the users table
    req,        \* the requests being served
    sessions    \* the sessions, with the password each login presented

vars == <<users, req, sessions>>

Versions == 1 .. MaxVersion
Addresses == Emails \cup {NoEmail}

PCs == {"idle", "login_state", "login_create", "admitted", "password_commit"}

\* "none": not inserted yet; "deleted": the row is gone; "inactive" stands for
\* both statuses that refuse a login, inactive and suspended.
Rows == [state: {"none", "inactive", "active", "deleted"}, email: Addresses,
         password: Passwords, ver: Versions]

\* seen: the credential version of the row that was read; given: the password
\* to be proved by a login, or to be stored by a password change.
Requests == [pc: PCs, user: UserIds \cup {Nil}, seen: Versions \cup {0},
             given: Passwords \cup {Nil}]

\* No row; what it would hold does not matter.
Absent(state) == [state |-> state, email |-> NoEmail,
                  password |-> AdminPassword, ver |-> 1]

Idle == [pc |-> "idle", user |-> Nil, seen |-> 0, given |-> Nil]

TypeOK ==
    /\ users \in [UserIds -> Rows]
    /\ req \in [Procs -> Requests]
    /\ sessions \subseteq [user: UserIds, ver: Versions, password: Passwords]

Init ==
    /\ users = [u \in UserIds |-> Absent("none")]
    /\ req = [p \in Procs |-> Idle]
    /\ sessions = {}

----------------------------------------------------------------------------
(* The table. *)

Live(u) == users[u].state \in {"inactive", "active"}

\* The UNIQUE constraint refuses the statement that would give e to u.
Taken(e, u) == \E v \in UserIds \ {u} : Live(v) /\ users[v].email = e

\* INSERT: a new row, with the first credential version.
Insert(u, e, pw, state) ==
    /\ users[u].state = "none"
    /\ ~Taken(e, u)
    /\ users' = [users EXCEPT ![u] = [state |-> state, email |-> e,
                                      password |-> pw, ver |-> 1]]

\* Mutant of SetPassword: the version the request has seen is advanced.
SetPasswordSeen(row, pw, seen) ==
    [row EXCEPT !.password = pw,
                !.ver = IF seen > 0 THEN seen + 1 ELSE @ + 1]

\* Mutant of SetPassword: the version is left to ChangePassword.
SetPasswordOnly(row, pw, seen) ==
    [row EXCEPT !.password = pw, !.ver = IF seen > 0 THEN @ + 1 ELSE @]

\* UpdatePassword and updateUserFields store a digest and advance the version
\* of the row in one statement, whatever version the request has seen.
SetPassword(row, pw, seen) == [row EXCEPT !.password = pw, !.ver = @ + 1]

\* updateUserFields: an empty address leaves the column alone.
SetEmail(row, e) == [row EXCEPT !.email = IF e = NoEmail THEN @ ELSE e]

----------------------------------------------------------------------------
(* Requests. *)

At(p, pc) == req[p].pc = pc
Start(p, r) == At(p, "idle") /\ req' = [req EXCEPT ![p] = r]
End(p) == req' = [req EXCEPT ![p] = Idle]

\* The call a request is about to make fails, or the server gives it up.
Abort(p) ==
    /\ ~At(p, "idle")
    /\ End(p)
    /\ UNCHANGED <<users, sessions>>

\* Signup and CreateUser: the only status accepted is inactive.
Signup(u, e, pw) ==
    /\ Insert(u, e, pw, "inactive")
    /\ UNCHANGED <<req, sessions>>

\* Mutant of SeedAdminUser: ON CONFLICT (email) DO UPDATE SET password.
SeedAdminUserAgain(u) ==
    /\ \/ Insert(u, AdminEmail, AdminPassword, "active")
       \/ /\ Live(u) /\ users[u].email = AdminEmail
          /\ users' = [users EXCEPT ![u].password = AdminPassword]
    /\ UNCHANGED <<req, sessions>>

\* Mutant of SeedAdminUser: ON CONFLICT (email) DO UPDATE of the whole row.
SeedAdminUserReset(u) ==
    /\ \/ Insert(u, AdminEmail, AdminPassword, "active")
       \/ /\ Live(u) /\ users[u].email = AdminEmail
          /\ users' = [users EXCEPT ![u].password = AdminPassword, ![u].ver = 1]
    /\ UNCHANGED <<req, sessions>>

\* SeedAdminUser, when an instance starts: an address that is taken, by
\* whomever, is left alone.
SeedAdminUser(u) ==
    /\ Insert(u, AdminEmail, AdminPassword, "active")
    /\ UNCHANGED <<req, sessions>>

\* Login: FindByEmail, the status check and the verification.
LoginLookup(p, u, pw) ==
    /\ users[u].state = "active"
    /\ users[u].password = pw
    /\ Start(p, [pc |-> "login_state", user |-> u, seen |-> users[u].ver,
                 given |-> pw])
    /\ UNCHANGED <<users, sessions>>

\* Mutant of SecurityStateFits: an active account is enough.
SecurityStateActive(u, seen) == users[u].state = "active"

\* GetSecurityState, by the identifier that was found and not by the address:
\* the account is still active and its version is the one that was read.
SecurityStateFits(u, seen) ==
    users[u].state = "active" /\ users[u].ver = seen

LoginSecurityState(p) ==
    /\ At(p, "login_state")
    /\ IF SecurityStateFits(req[p].user, req[p].seen)
       THEN req' = [req EXCEPT ![p].pc = "login_create"]
       ELSE End(p)
    /\ UNCHANGED <<users, sessions>>

\* Mutant of SessionOf: the session gets the version the row has now.
SessionOfNow(p) ==
    [user |-> req[p].user, ver |-> users[req[p].user].ver,
     password |-> req[p].given]

\* CreateSession gets the version that was checked.
SessionOf(p) ==
    [user |-> req[p].user, ver |-> req[p].seen, password |-> req[p].given]

LoginCreate(p) ==
    /\ At(p, "login_create")
    /\ Cardinality(sessions) < MaxSessions
    /\ sessions' = sessions \cup {SessionOf(p)}
    /\ End(p)
    /\ UNCHANGED users

\* A session ends: it is deleted or expires.
EndSession(s) ==
    /\ s \in sessions
    /\ sessions' = sessions \ {s}
    /\ UNCHANGED <<users, req>>

\* FreshIdentity.
Fresh(s) == SecurityStateFits(s.user, s.ver)

FreshIdentity(p, s) ==
    /\ Fresh(s)
    /\ Start(p, [Idle EXCEPT !.pc = "admitted", !.user = s.user])
    /\ UNCHANGED <<users, sessions>>

\* ChangeEmail: one UPDATE, which may come after the row is gone or after the
\* session that was admitted has lost its version.
ChangeEmail(p, e) ==
    LET u == req[p].user
    IN  /\ At(p, "admitted")
        /\ users' = IF Live(u) /\ ~Taken(e, u)
                    THEN [users EXCEPT ![u] = SetEmail(@, e)] ELSE users
        /\ End(p)
        /\ UNCHANGED sessions

\* ChangePassword: FindByID and the verification of the old password.
PasswordVerified(p, old, new) ==
    LET u == req[p].user
    IN  /\ At(p, "admitted")
        /\ old # new
        /\ req' = [req EXCEPT ![p] =
             IF Live(u) /\ users[u].password = old
             THEN [pc |-> "password_commit", user |-> u,
                   seen |-> users[u].ver, given |-> new]
             ELSE Idle]
        /\ UNCHANGED <<users, sessions>>

\* ChangePassword: UpdatePassword after the slow hashing.
PasswordCommit(p) ==
    LET u == req[p].user
    IN  /\ At(p, "password_commit")
        /\ Live(u) => users[u].ver < MaxVersion     \* bound
        /\ users' = IF Live(u)
                    THEN [users EXCEPT ![u] =
                            SetPassword(@, req[p].given, req[p].seen)]
                    ELSE users
        /\ End(p)
        /\ UNCHANGED sessions

\* UpdateUser: address and password in one UPDATE, both or neither.  The
\* request reads nothing.
UpdateUser(u, e, pw) ==
    /\ Live(u)
    /\ ~Taken(e, u) \/ e = NoEmail
    /\ users[u].ver < MaxVersion                    \* bound
    /\ users' = [users EXCEPT ![u] = SetEmail(SetPassword(@, pw, 0), e)]
    /\ UNCHANGED <<req, sessions>>

\* ChangeStatus, seen from here.
ChangeStatus(u) ==
    /\ Live(u)
    /\ users' = [users EXCEPT ![u].state = IF @ = "active" THEN "inactive"
                                                           ELSE "active"]
    /\ UNCHANGED <<req, sessions>>

\* DeleteUser, seen from here; the address is free again.
DeleteUser(u) ==
    /\ Live(u)
    /\ users' = [users EXCEPT ![u] = Absent("deleted")]
    /\ UNCHANGED <<req, sessions>>

----------------------------------------------------------------------------

RequestStep(p) ==
    \/ \E u \in UserIds, pw \in Passwords : LoginLookup(p, u, pw)
    \/ LoginSecurityState(p)
    \/ LoginCreate(p)
    \/ \E s \in sessions : FreshIdentity(p, s)
    \/ \E e \in Emails : ChangeEmail(p, e)
    \/ \E old, new \in Passwords : PasswordVerified(p, old, new)
    \/ PasswordCommit(p)
    \/ Abort(p)

Next ==
    \/ \E p \in Procs : RequestStep(p)
    \/ \E u \in UserIds :
          \/ SeedAdminUser(u)
          \/ ChangeStatus(u)
          \/ DeleteUser(u)
          \/ \E e \in Addresses, pw \in Passwords :
                Signup(u, e, pw) \/ UpdateUser(u, e, pw)
    \/ \E s \in sessions : EndSession(s)

Spec == Init /\ [][Next]_vars

----------------------------------------------------------------------------
(* Properties. *)

\* Whoever holds a session that FreshIdentity accepts has presented the
\* password the account has now, although UpdatePassword is unconditional
\* (two changes may both have verified the password that the first of them
\* replaced), an administrator or a restart may write the row at any time, a
\* login is slow, and a deleted account's address may belong to somebody else
\* by then (Login, ChangePassword, UpdateUser, SeedAdminUser).
FreshSessionsProvePassword ==
    \A s \in sessions : Fresh(s) => s.password = users[s.user].password

\* The version of the session was superseded, or its account is gone.
Revoked(s) ==
    users[s.user].state = "deleted" \/ users[s.user].ver # s.ver

\* Revocation is for good: no order of password changes, updates, deletions,
\* sign-ups and restarts brings a version back, not even one with the password
\* it stood for, so FreshIdentity never accepts a revoked session again
\* (UpdatePassword, updateUserFields, SeedAdminUser).
RevokedForGood == [][\A s \in sessions : Revoked(s) => Revoked(s)']_vars

=============================================================================
