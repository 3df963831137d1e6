------------------------- MODULE UserRecordsProofs -------------------------
(***************************************************************************)
(* A credential version stands for one password, for any number of         *)
(* accounts, addresses, passwords, requests and sessions.                  *)
(***************************************************************************)
EXTENDS UserRecords, TLAPS

\* Whoever read version v of u and the password pw with it holds the current
\* password as long as u keeps that version, and no version comes back.
Proves(u, v, pw) ==
    /\ users[u].state # "none"
    /\ Live(u) => /\ v <= users[u].ver
                  /\ v = users[u].ver => pw = users[u].password

\* What the logins under way have verified.
LoginsProve ==
    \A p \in Procs : req[p].pc \in {"login_state", "login_create"} =>
        /\ req[p].user \in UserIds
        /\ req[p].seen \in Versions
        /\ req[p].given \in Passwords
        /\ Proves(req[p].user, req[p].seen, req[p].given)

SessionsProve == \A s \in sessions : Proves(s.user, s.ver, s.password)

\* The owner of an admitted request, and the password it is going to store.
RequestsComplete ==
    \A p \in Procs :
        /\ req[p].pc \in {"admitted", "password_commit"} =>
             req[p].user \in UserIds
        /\ req[p].pc = "password_commit" => req[p].given \in Passwords

RecordsInv ==
    TypeOK /\ LoginsProve /\ SessionsProve /\ RequestsComplete

\* What a step of the table may do to a row: insert it, remove it for good,
\* store a password under the next version, or leave both alone.
RowStep(u) ==
    \/ users[u].state = "none"
    \/ users'[u].state = "deleted"
    \/ /\ Live(u) /\ users'[u].state # "none"
       /\ users'[u].ver = users[u].ver + 1
    \/ /\ users'[u].state # "none"
       /\ Live(u)' => Live(u)
       /\ users'[u].ver = users[u].ver
       /\ users'[u].password = users[u].password

\* Every statement is one of these, for every row.
LEMMA RowSteps ==
    ASSUME RecordsInv, [Next]_vars, NEW u \in UserIds
    PROVE  RowStep(u)
<1> USE DEF RecordsInv, TypeOK, Rows, Live
<1>0. users[u] \in Rows
  OBVIOUS
<1>1. CASE users' = users
  BY <1>1 DEF RowStep
<1>2. ASSUME NEW p \in Procs, NEW e \in Emails, ChangeEmail(p, e)
      PROVE  RowStep(u)
  BY <1>0, <1>2 DEF ChangeEmail, SetEmail, RowStep
<1>3. ASSUME NEW p \in Procs, PasswordCommit(p) PROVE RowStep(u)
  BY <1>0, <1>3 DEF PasswordCommit, SetPassword, RowStep
<1>4. ASSUME NEW v \in UserIds, NEW e, NEW pw, NEW st,
             Insert(v, e, pw, st)
      PROVE  RowStep(u)
  BY <1>0, <1>4 DEF Insert, RowStep
<1>5. ASSUME NEW v \in UserIds, NEW e \in Addresses, NEW pw \in Passwords,
             UpdateUser(v, e, pw)
      PROVE  RowStep(u)
  BY <1>0, <1>5 DEF UpdateUser, SetPassword, SetEmail, RowStep
<1>6. ASSUME NEW v \in UserIds, ChangeStatus(v) PROVE RowStep(u)
  BY <1>0, <1>6 DEF ChangeStatus, RowStep
<1>7. ASSUME NEW v \in UserIds, DeleteUser(v) PROVE RowStep(u)
  BY <1>0, <1>7 DEF DeleteUser, Absent, RowStep
<1> QED
  BY <1>1, <1>2, <1>3, <1>4, <1>5, <1>6, <1>7
     DEF Next, RequestStep, LoginLookup, LoginSecurityState, LoginCreate,
         FreshIdentity, PasswordVerified, Abort, Signup, SeedAdminUser,
         EndSession, vars

\* A proof of a password outlives every step.
LEMMA ProofsLast ==
    ASSUME RecordsInv, [Next]_vars, NEW u \in UserIds, NEW v \in Versions,
           NEW pw, Proves(u, v, pw)
    PROVE  Proves(u, v, pw)'
<1>1. RowStep(u)
  BY RowSteps
<1>2. users[u].ver \in Nat /\ v \in Nat
  BY RecordsAssumption DEF RecordsInv, TypeOK, Rows, Versions
<1> QED
  BY <1>1, <1>2 DEF RowStep, Proves, Live

\* A row that has not come to the bound stays a row.
LEMMA NextVersion ==
    ASSUME NEW row \in Rows, row.ver < MaxVersion, NEW pw \in Passwords,
           NEW seen
    PROVE  SetPassword(row, pw, seen) \in Rows
<1>1. row.ver + 1 \in Versions
  BY RecordsAssumption DEF Rows, Versions
<1> HIDE DEF Versions
<1> QED
  BY <1>1 DEF SetPassword, Rows

LEMMA NewAddress ==
    ASSUME NEW row \in Rows, NEW e \in Addresses
    PROVE  SetEmail(row, e) \in Rows
  BY DEF SetEmail, Rows

\* Types.
LEMMA TypeStep == RecordsInv /\ [Next]_vars => TypeOK'
<1> SUFFICES ASSUME RecordsInv, [Next]_vars PROVE TypeOK'
  OBVIOUS
<1> USE RecordsAssumption DEF RecordsInv, TypeOK, Rows, Requests, Versions, PCs,
        Addresses
<1>1. ASSUME NEW p \in Procs, RequestStep(p) PROVE TypeOK'
  <2>1. ASSUME NEW u \in UserIds, NEW pw \in Passwords, LoginLookup(p, u, pw)
        PROVE  TypeOK'
    BY <2>1 DEF LoginLookup, Start
  <2>2. CASE LoginSecurityState(p) \/ Abort(p)
    BY <2>2 DEF LoginSecurityState, Abort, End, Idle
  <2>3. CASE LoginCreate(p)
    BY <2>3 DEF LoginCreate, SessionOf, End, Idle, At, LoginsProve
  <2>4. ASSUME NEW s \in sessions, FreshIdentity(p, s) PROVE TypeOK'
    BY <2>4 DEF FreshIdentity, Start, Idle
  <2>5. ASSUME NEW e \in Emails, ChangeEmail(p, e) PROVE TypeOK'
    BY <2>5 DEF ChangeEmail, SetEmail, End, Idle
  <2>6. ASSUME NEW old \in Passwords, NEW new \in Passwords,
               PasswordVerified(p, old, new)
        PROVE  TypeOK'
    BY <2>6 DEF PasswordVerified, Idle, At, RequestsComplete
  <2>7. CASE PasswordCommit(p)
    <3> DEFINE u == req[p].user
    <3>1. u \in UserIds /\ req[p].given \in Passwords
      BY <2>7 DEF PasswordCommit, At, RequestsComplete
    <3>2. Live(u) => SetPassword(users[u], req[p].given, req[p].seen) \in Rows
      BY <2>7, <3>1, NextVersion DEF PasswordCommit
    <3> HIDE DEF Rows
    <3>3. users' \in [UserIds -> Rows]
      BY <2>7, <3>1, <3>2 DEF PasswordCommit
    <3>4. req' \in [Procs -> Requests] /\ sessions' = sessions
      BY <2>7 DEF PasswordCommit, End, Idle
    <3> QED
      BY <3>3, <3>4
  <2> QED
    BY <1>1, <2>1, <2>2, <2>3, <2>4, <2>5, <2>6, <2>7 DEF RequestStep
<1>2. ASSUME NEW u \in UserIds, SeedAdminUser(u) PROVE TypeOK'
  BY <1>2 DEF SeedAdminUser, Insert
<1>3. ASSUME NEW u \in UserIds, ChangeStatus(u) PROVE TypeOK'
  BY <1>3 DEF ChangeStatus
<1>4. ASSUME NEW u \in UserIds, DeleteUser(u) PROVE TypeOK'
  BY <1>4 DEF DeleteUser, Absent
<1>5. ASSUME NEW u \in UserIds, NEW e \in Addresses, NEW pw \in Passwords,
             Signup(u, e, pw)
      PROVE  TypeOK'
  BY <1>5 DEF Signup, Insert
<1>6. ASSUME NEW u \in UserIds, NEW e \in Addresses, NEW pw \in Passwords,
             UpdateUser(u, e, pw)
      PROVE  TypeOK'
  <2>1. SetEmail(SetPassword(users[u], pw, 0), e) \in Rows
    <3>1. users[u] \in Rows /\ users[u].ver < MaxVersion
      BY <1>6 DEF UpdateUser
    <3> HIDE DEF Rows
    <3> QED
      BY <3>1, NextVersion, NewAddress
  <2> HIDE DEF Rows
  <2>2. users' \in [UserIds -> Rows]
    BY <1>6, <2>1 DEF UpdateUser
  <2> QED
    BY <1>6, <2>2 DEF UpdateUser
<1>7. ASSUME NEW s \in sessions, EndSession(s) PROVE TypeOK'
  BY <1>7 DEF EndSession
<1>8. CASE UNCHANGED vars
  BY <1>8 DEF vars
<1> QED
  BY <1>1, <1>2, <1>3, <1>4, <1>5, <1>6, <1>7, <1>8 DEF Next

\* A step of one request leaves the others alone.
LEMMA OtherRequests ==
    ASSUME RecordsInv, [Next]_vars, NEW p \in Procs, ~RequestStep(p)
    PROVE  req'[p] = req[p]
<1>1. ASSUME NEW q \in Procs, RequestStep(q) PROVE req'[p] = req[p]
  BY <1>1 DEF RecordsInv, TypeOK, RequestStep, LoginLookup,
     LoginSecurityState, LoginCreate, FreshIdentity, ChangeEmail,
     PasswordVerified, PasswordCommit, Abort, Start, End
<1> QED
  BY <1>1 DEF Next, Signup, SeedAdminUser, UpdateUser, ChangeStatus,
     DeleteUser, EndSession, vars

\* A login starts with what it has just read and only carries it on.
LEMMA LoginsStep == RecordsInv /\ [Next]_vars => LoginsProve'
<1> SUFFICES ASSUME RecordsInv, [Next]_vars, NEW p \in Procs,
                    req'[p].pc \in {"login_state", "login_create"}
             PROVE  /\ req'[p].user \in UserIds
                    /\ req'[p].seen \in Versions
                    /\ req'[p].given \in Passwords
                    /\ Proves(req[p].user, req[p].seen, req[p].given)'
  BY DEF LoginsProve
<1>1. CASE /\ req[p].pc \in {"login_state", "login_create"}
           /\ req'[p].user = req[p].user
           /\ req'[p].seen = req[p].seen
           /\ req'[p].given = req[p].given
  <2>1. /\ req[p].user \in UserIds /\ req[p].seen \in Versions
        /\ req[p].given \in Passwords
        /\ Proves(req[p].user, req[p].seen, req[p].given)
    BY <1>1 DEF RecordsInv, LoginsProve
  <2> DEFINE u == req[p].user
             v == req[p].seen
             pw == req[p].given
  <2>2. \A a \in UserIds, b \in Versions, c \in Passwords :
          Proves(a, b, c) => Proves(a, b, c)'
    BY ProofsLast
  <2> QED
    BY <1>1, <2>1, <2>2 DEF Proves, Live
<1>2. ASSUME NEW u \in UserIds, NEW pw \in Passwords, LoginLookup(p, u, pw)
      PROVE  /\ req'[p].user \in UserIds
             /\ req'[p].seen \in Versions
             /\ req'[p].given \in Passwords
             /\ Proves(req[p].user, req[p].seen, req[p].given)'
  BY <1>2, RecordsAssumption
     DEF LoginLookup, Start, Proves, Live, RecordsInv, TypeOK, Rows, Versions
<1> DEFINE Carried == /\ req[p].pc \in {"login_state", "login_create"}
                      /\ req'[p].user = req[p].user
                      /\ req'[p].seen = req[p].seen
                      /\ req'[p].given = req[p].given
<1>3. CASE req'[p] = req[p]
  BY <1>1, <1>3
<1>4. CASE LoginSecurityState(p)
  <2>1. req[p].pc = "login_state" /\ req[p] \in Requests
    BY <1>4 DEF LoginSecurityState, At, RecordsInv, TypeOK
  <2>2. req'[p] = [req[p] EXCEPT !.pc = "login_create"] \/ req'[p] = Idle
    BY <1>4 DEF LoginSecurityState, End, RecordsInv, TypeOK
  <2>3. Carried
    BY <2>1, <2>2 DEF Requests, Idle
  <2> QED
    BY <1>1, <2>3
<1>5. ASSUME \/ \E s \in sessions : FreshIdentity(p, s)
             \/ \E e \in Emails : ChangeEmail(p, e)
             \/ \E old, new \in Passwords : PasswordVerified(p, old, new)
             \/ LoginCreate(p) \/ PasswordCommit(p) \/ Abort(p)
      PROVE  FALSE
  <2>1. CASE \/ \E e \in Emails : ChangeEmail(p, e)
             \/ LoginCreate(p) \/ PasswordCommit(p) \/ Abort(p)
    <3>1. req'[p] = Idle
      BY <2>1 DEF ChangeEmail, LoginCreate, PasswordCommit, Abort, End,
         RecordsInv, TypeOK
    <3> QED
      BY <3>1 DEF Idle
  <2>2. ASSUME NEW s \in sessions, FreshIdentity(p, s) PROVE FALSE
    BY <2>2 DEF FreshIdentity, Start, Idle, RecordsInv, TypeOK
  <2>3. ASSUME NEW old \in Passwords, NEW new \in Passwords,
               PasswordVerified(p, old, new)
        PROVE  FALSE
    BY <2>3 DEF PasswordVerified, Idle, RecordsInv, TypeOK
  <2> QED
    BY <1>5, <2>1, <2>2, <2>3
<1>6. CASE RequestStep(p)
  BY <1>2, <1>4, <1>5, <1>6 DEF RequestStep
<1>7. CASE ~RequestStep(p)
  BY <1>3, <1>7, OtherRequests
<1> QED
  BY <1>6, <1>7

\* A session is opened by a login that has proved its password.
LEMMA SessionsStep == RecordsInv /\ [Next]_vars => SessionsProve'
<1> SUFFICES ASSUME RecordsInv, [Next]_vars, NEW s \in sessions'
             PROVE  Proves(s.user, s.ver, s.password)'
  BY DEF SessionsProve
<1>1. CASE s \in sessions
  BY <1>1, ProofsLast DEF RecordsInv, TypeOK, SessionsProve
<1>2. ASSUME NEW p \in Procs, LoginCreate(p), s = SessionOf(p)
      PROVE  Proves(s.user, s.ver, s.password)'
  <2>1. /\ s.user \in UserIds /\ s.ver \in Versions
        /\ Proves(s.user, s.ver, s.password)
    BY <1>2 DEF LoginCreate, At, SessionOf, RecordsInv, LoginsProve
  <2> QED
    BY <2>1, ProofsLast
<1>3. s \in sessions \/ \E p \in Procs : LoginCreate(p) /\ s = SessionOf(p)
  BY DEF Next, RequestStep, LoginLookup, LoginSecurityState, LoginCreate,
         FreshIdentity, ChangeEmail, PasswordVerified, PasswordCommit, Abort,
         Signup, SeedAdminUser, UpdateUser, ChangeStatus, DeleteUser,
         EndSession, vars
<1> QED
  BY <1>1, <1>2, <1>3

\* Requests carry what their steps need.
LEMMA RequestsStep == RecordsInv /\ [Next]_vars => RequestsComplete'
<1> SUFFICES ASSUME RecordsInv, [Next]_vars PROVE RequestsComplete'
  OBVIOUS
<1> DEFINE Complete(r) ==
             /\ r.pc \in {"admitted", "password_commit"} => r.user \in UserIds
             /\ r.pc = "password_commit" => r.given \in Passwords
<1>1. ASSUME NEW p \in Procs PROVE Complete(req'[p])
  <2>0. Complete(req[p]) /\ req[p] \in Requests /\ Complete(Idle)
    BY DEF RecordsInv, TypeOK, RequestsComplete, Idle
  <2>1. CASE ~RequestStep(p)
    BY <2>0, <2>1, OtherRequests
  <2>2. CASE LoginSecurityState(p)
    <3>1. \/ req'[p] = [req[p] EXCEPT !.pc = "login_create"]
          \/ req'[p] = Idle
      BY <2>2 DEF LoginSecurityState, End, RecordsInv, TypeOK
    <3> QED
      BY <2>0, <3>1 DEF Requests
  <2>3. CASE \/ \E e \in Emails : ChangeEmail(p, e)
             \/ LoginCreate(p) \/ PasswordCommit(p) \/ Abort(p)
    <3>1. req'[p] = Idle
      BY <2>3 DEF ChangeEmail, LoginCreate, PasswordCommit, Abort, End,
         RecordsInv, TypeOK
    <3> QED
      BY <2>0, <3>1
  <2>4. ASSUME NEW u \in UserIds, NEW pw \in Passwords, LoginLookup(p, u, pw)
        PROVE  Complete(req'[p])
    BY <2>4 DEF LoginLookup, Start, RecordsInv, TypeOK
  <2>5. ASSUME NEW s \in sessions, FreshIdentity(p, s)
        PROVE  Complete(req'[p])
    BY <2>5 DEF FreshIdentity, Start, Idle, RecordsInv, TypeOK
  <2>6. ASSUME NEW old \in Passwords, NEW new \in Passwords,
               PasswordVerified(p, old, new)
        PROVE  Complete(req'[p])
    <3>1. req[p].user \in UserIds
      BY <2>6 DEF PasswordVerified, At, RecordsInv, RequestsComplete
    <3> QED
      BY <2>0, <2>6, <3>1 DEF PasswordVerified, RecordsInv, TypeOK
  <2> QED
    BY <2>1, <2>2, <2>3, <2>4, <2>5, <2>6 DEF RequestStep
<1> QED
  BY <1>1 DEF RequestsComplete

\* The invariant holds throughout.
LEMMA RecordsInvariant == Spec => []RecordsInv
<1>1. Init => RecordsInv
  <2> SUFFICES ASSUME Init PROVE RecordsInv
    OBVIOUS
  <2>1. TypeOK
    BY RecordsAssumption DEF Init, TypeOK, Rows, Absent, Requests, Idle,
       Versions, PCs, Addresses
  <2>2. LoginsProve /\ SessionsProve /\ RequestsComplete
    BY DEF Init, LoginsProve, SessionsProve, RequestsComplete, Idle
  <2> QED
    BY <2>1, <2>2 DEF RecordsInv
<1>2. RecordsInv /\ [Next]_vars => RecordsInv'
  BY TypeStep, LoginsStep, SessionsStep, RequestsStep DEF RecordsInv
<1> QED
  BY <1>1, <1>2, PTL DEF Spec

\* Every session that FreshIdentity accepts was opened with the password the
\* account has now: UpdatePassword and updateUserFields advance the version
\* they find, and a login keeps the version it read with the digest.
THEOREM FreshSessionsProvePasswordHolds ==
    Spec => []FreshSessionsProvePassword
<1>1. RecordsInv => FreshSessionsProvePassword
  BY DEF RecordsInv, SessionsProve, Proves, FreshSessionsProvePassword, Fresh,
     SecurityStateFits, Live
<1> QED
  BY <1>1, RecordsInvariant, PTL

\* A session that lost its version or its account has lost it for good: every
\* statement on a row either inserts it under a new identifier, removes it,
\* advances its version or leaves it alone (UpdatePassword, updateUserFields,
\* SeedAdminUser).
THEOREM RevokedForGoodHolds == Spec => RevokedForGood
<1>1. RecordsInv /\ RecordsInv' /\ [Next]_vars
        => \A s \in sessions : Revoked(s) => Revoked(s)'
  <2> SUFFICES ASSUME RecordsInv, RecordsInv', [Next]_vars,
                      NEW s \in sessions, Revoked(s)
               PROVE  Revoked(s)'
    OBVIOUS
  <2>1. /\ s.user \in UserIds /\ s.ver \in Nat
        /\ users[s.user] \in Rows /\ users'[s.user] \in Rows
    BY DEF RecordsInv, TypeOK, Versions
  <2>2. RowStep(s.user) /\ Proves(s.user, s.ver, s.password)
    BY <2>1, RowSteps DEF RecordsInv, SessionsProve
  <2>3. users[s.user].ver \in Nat
    BY <2>1 DEF Rows, Versions
  <2> QED
    BY <2>1, <2>2, <2>3 DEF RowStep, Proves, Revoked, Live, Rows
<1> QED
  BY <1>1, RecordsInvariant, PTL DEF Spec, RevokedForGood

=============================================================================
