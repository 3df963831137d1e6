# Formal verification of goat-api

goat-api is an HTTP API for accounts and sessions. PostgreSQL holds the accounts
(status, role, credential version, password digest); Redis holds the sessions and a
small access state per user. The two stores share no transaction, requests run
concurrently in several instances, and any call may fail or be abandoned. Most of
what can go wrong in this program happens between a call to one store and the next
call to the other, and that is what these modules are about.

## Inventory

| Component | State | Operations | Hard because |
|---|---|---|---|
| Redis session store (`internal/infra/storage/redis/session`, Lua scripts) | session hashes, jti keys, one index per user, one access state per user (blocked flag, generation) | create, look up by jti, rotate, delete (owned, others, all, blind), block and delete all, unblock, list, clean orphans | keys expire independently; the index has its own expiry; scripts find sessions only through it; Redis may lose its data |
| Session use case | none of its own | validate, rotate, list, delete | thin, but decides which script answers count as valid |
| Authentication use case | none of its own | sign-up, login, refresh, logout | reads PostgreSQL, verifies a password (slow), reads PostgreSQL again, writes Redis |
| User use case | rows of `users` | create, update, change e-mail, password, role and status, delete | cross-store order: Redis first when access is taken away, PostgreSQL first when a password changes; hashing is slow, so what was read before it is stale after it |
| Authorization use case and middleware | none | session check, fresh identity, fresh permission | decisions from state that may change before it is used |
| Account status machine | status of a row | inactive to active, active to suspended and back | conditional updates and retries |
| Rate limiter | one sorted set per actor and route | admit or refuse | sliding window, caller's clock, expiry in whole seconds |
| Password service | slots of a semaphore | hash, verify | cancellation racing the acquisition of a slot; a stored digest names its own cost |
| JWT manager and configured lifetimes | none; the expiry is in the token and in two Redis keys | mint, parse, validate | three clocks, and times cut to whole seconds in two places |
| Application lifecycle, session cleaner, HTTP server | started/closed/accepting flags, worker, handlers | start, serve, answer readiness, shut down | concurrent Run and Shutdown, bounded graceful stop, resources closed under running work |
| Bootstrap | resources acquired so far | acquire in order, roll back | every step can fail or be cancelled |
| Migrations and seeder | `schema_migrations` | apply, validate | concurrent commands, one transaction, advisory lock |
| Roles and permissions | role of a row, permission table | change role, grant, revoke | compare-and-set on roles read earlier |
| Other configuration, handlers, response mapping, localization, metrics, logging | none that persists | formatting, parsing, I/O | sequential and well covered by unit tests |

How they interact: a request passes the rate limiter, `Required` (a session lookup in
Redis), for most routes a fresh read of the account in PostgreSQL, and then its use
case, which calls the two stores one after the other. The session cleaner runs beside
the requests. There are no queues and no messages; the shared state is the two stores.

## Modules

| Module | Models | Built on |
|---|---|---|
| `SessionStore` | the Redis keyspace, one action per script | |
| `AccessGrants` | what the store promises: abstract specification | refined by `SessionStore` |
| `AccountWorkflows` | requests across PostgreSQL and Redis | extends `SessionStore` |
| `Lifecycle` | construction, Run and Shutdown, session cleaner, HTTP server | |
| `RateLimiter` | one key of the sliding window log | |
| `PasswordGate` | the bound on password derivations and on what a stored digest may cost | |
| `UserRecords` | address, password and credential version of a row, and the requests on them | |
| `TokenLifetimes` | expiry of tokens and session keys, from the configuration to the middleware | |
| `RoleAdministration` | roles, permissions, fresh authorization, seeding | |
| `SchemaMigrations` | migration jobs, validation, start of an instance | |
| `MCSessionStore`, `MCAccountWorkflows`, `MCRateLimiter`, `MCPasswordGate`, `MCUserRecords`, `MCRoleAdministration`, `MCSchemaMigrations` | symmetry and model values of the runs | the module they are named after |
| `AccountWorkflowsProofs`, `LifecycleProofs`, `RateLimiterProofs`, `PasswordGateProofs`, `UserRecordsProofs`, `TokenLifetimesProofs`, `RoleAdministrationProofs`, `SchemaMigrationsProofs` | theorems; the first also has those of `SessionStore` | the module they are named after |

`Lifecycle.cfg` and `TokenLifetimes.cfg` check their module directly.
Operators whose comment begins "Mutant of" are deliberate mistakes, used in no
specification: each changes a definition as a plausible bug would, and the property it
is meant for must then fail.

## The session store

`SessionStore` has one variable per kind of key. A key with a time to live of 0 does
not exist. Redis runs a script atomically, so a repository method is one action; the
early returns of a script are the guards of its action, and a script that returns
without writing is a stuttering step. `Tick` lets one unit of time pass for every key;
`DataLoss` is a Redis server that comes back empty. `issued` is a history variable:
the identities (user, session, jti, credential version) that were handed out. Tokens
are signed, so a request presents only issued identities; identifiers are ULIDs, so a
new one is one that was never issued.

`Accepts(c)` is the heart of the model: the claims for which the lookup script returns
a session. Everything else is stated in terms of it.

`TTL` in Redis answers in seconds, rounded to the nearest. `HalfSecond` is the number
of ticks in half a second, so `TTLReplyBelowSession` is the comparison the scripts
really make. With `HalfSecond = 0` there is no rounding.

`AccessGrants` is what the store promises, without keys, lifetimes and generations: an
identity is honoured from the moment it is issued until it is renewed, withdrawn or
its user is blocked, and never again. `ImplementsAccessGrants` maps the honoured
identities to the accepted ones.

Not in the model: values of the wrong type or malformed hashes, which the scripts
reject and never produce; device, address and time-stamp fields; the paging of
`list_sessions.lua`.

## The account workflows

`AccountWorkflows` extends the store with the `users` table and with requests. A
request is a program counter and what it has read; each of its steps is one call to a
store, and between two steps anything else may happen. `Clients` are requests of
account owners (login, refresh, session routes, password change); `Managers` are
status changes and deletions, a user's own `DELETE /user` included. A request whose
check fails ends. `FailurePoints` names the steps at which a call may fail: `Abort`
ends the request there. A call that took effect although its caller saw an error is
the step followed by `Abort` at the next one, so time-outs, cancellations and crashes
of an instance between two calls are covered. A command that is executed long after
its caller gave up is not.

Reads that decide nothing are merged with the step they precede: `FindByID` and the
password verification of `ChangePassword` with the admission (its `UPDATE` is
unconditional and fails only when the row is gone). Which route an admitted request
was sent to is chosen when it is admitted.

The stores share no transaction, so a manager that is given up after its call to Redis
and before the one to PostgreSQL leaves them in disagreement, and so does a Redis that
comes back without its data (`LoseData`). Nothing serializes managers either: a block
that another request's reactivation meets between its two stores, or an unblock that
meets a suspension or deletion there, is a write to Redis that crossed the opposite
change (`WriteRedis`), and which of the two rows is stored last says nothing about which
write to Redis was last. `torn` is a history variable: the users to whom one of the
three happened and for whom no later request has written Redis again. The properties say
what holds for everybody else, any number of overlapping managers included, and `torn`
says how to leave it: a block or an unblock that succeeds and crosses nothing puts the
user's Redis state in order. What does not
help is to repeat a suspension of a row that already says suspended, because it is
answered at once; and a suspended user whose access state was lost cannot be reactivated
at all, because `unblock_user.lua` refuses a missing state.

Not in the model: e-mail addresses and passwords (see `UserRecords`), expiry in real time
(see `TokenLifetimes`), roles and permissions (see `RoleAdministration`).

## The other components

`Lifecycle` is the process: construction step by step with its rollbacks, then `Run` and
`Shutdown` of any number of callers under the application's lock, the session cleaner,
the listener and its handlers. A connection may be accepted before `Server.Start` has
returned. `accepting` is the server's flag; a handler may be a readiness probe, which
looks at the flag once and then asks PostgreSQL and Redis, each of which may answer, fail
or have been closed meanwhile.

`RateLimiter` is one key of the log with the stamps of the callers. The script's window
is exact, the life of the key is the window cut to whole seconds; `Memory` is the shorter
of the two. A refusal records the wait the script computed and what the middleware makes
of it for the client, in seconds: `RetryAfterHeader` cuts the fraction off,
`RetryAfterBody` rounds to the nearest.

`PasswordGate` is the semaphore of the password service, and in front of it the parser of
stored digests. A digest is what is between its separators: names, numbers and the
lengths of its binary parts. `Verify` derives with the cost the digest names, so the
semaphore bounds the cost of hashing only together with the parser.

`UserRecords` has what `AccountWorkflows` leaves out: the address, the password and the
version of each row. Login is three steps (look-up with verification, security state,
session), a password change two (verification, update), with anything in between; sign-up,
an administrator's update, a status change, a deletion and the seeding of an instance
that starts are one statement each. Hashing before a statement reads nothing from the
table and is merged with it. The unique constraint of the database is `Taken`. A session
remembers, as history, the password that opened it. Ids are never given twice
(random UUIDs); "inactive" stands for both statuses that refuse a login.

`TokenLifetimes` follows one login and the refreshes after it in real time. Each instance
mints and checks by its own clock, ahead of Redis by up to `MaxSkew`; a token carries
whole seconds (`NumericDate`), keys live whole seconds (`WholeSeconds`), and the client is
told the uncut expiry. The configuration is any that `Validate` lets through. It relates
the three lifetimes to nothing, so a session may end before its refresh token; and it
accepts a refresh or session lifetime below a second, with which the repository refuses
every session and no login succeeds (`LoginCreate`). The minimum and maximum of the access
lifetime are a minute and a quarter of an hour in the code and constants here.

`RoleAdministration` is the administrative side: a request arrives with a token, is
authorized afresh (`AuthorizeFresh`, one query over users and permissions) and then
reads and writes in statements of its own. `ChangeRole` takes three of them: read the
target, compare-and-set, and after a miss a read that explains it. A status is active
or not, a permission is a role and an action, and the Redis side of a deletion is left
to `AccountWorkflows`.

`SchemaMigrations` has `migrate up` statement by statement in its transaction, and
`migrate validate` and a starting instance as checkers. A release is the sequence of
its scripts; a drifted one differs from what was deployed. PostgreSQL is modelled from
its use: commit makes a transaction visible, the advisory lock ends with it, versions
are unique. A commit whose reply is lost is a committed job that reports failure.

### Not modelled

* Localization, the mapping of errors to responses and the DTOs: tables and formatting,
  read by nothing that changes state. They are a large part of the source, and a model
  of them would repeat it.
* The registration and classification of routes: done once, in order, before the server
  starts; which middleware a route has is part of the actions above.
* The Redis client and the script registry: set-up and embedded files, read at start.
* The rest of the configuration: independent variables, each checked alone.
* Metrics and logging: output.
* The signature of tokens (an identity that was not issued is not presented) and Argon2
  (two passwords have two digests).
* `RequireSnapshot`, which no route uses, and the methods that only read and decide
  nothing (`GetUser`, the permission listings).

## Runs

| Run | Instance | What it shows |
|---|---|---|
| `store` | 2 users, 3 sessions, 4 jtis, half-second ticks, lifetimes 3 and 4, 3 generations | the invariants, action properties and refinement below |
| `account_faults` | 1 account, 1 client, 2 managers, 2 sessions, 3 jtis, 2 versions, 3 generations; every call may fail and Redis may lose its data | suspension and deletion shut the user out and nobody is blocked by accident, unless changes cross or are torn; old credential versions drain |
| `account_two_managers` | 1 client, 2 managers, no failures | overlapping status changes break suspension (finding) |
| `account_reactivation_fails` | 1 client, 1 manager | a failed reactivation is not fail closed (finding) |
| `lifecycle` | 2 callers of Run, 1 of Shutdown, 2 connections | cleanup is complete, in order, and ends; a failed construction leaks nothing; readiness is true |
| `limiter` | 4 requests, limit 2, window of 7 ticks of a third of a second, a tick of lag and one of skew, 10 ticks | the limit holds up to rounding, lag and skew; refusals are justified; the wait a client is told is less than a second short |
| `password_gate` | 3 requests, 2 slots, 36 digests | slots are neither lost nor exceeded, no derivation costs more than the service's own; nobody waits for ever |
| `roles` | 2 users, 2 requests, tokens that say admin, status changes, sign-ups, deletions and seeding beside them | authority is fresh, the hierarchy holds at the write, misses are explained truly, listings stay visible |
| `roles_empty_action` | 1 user, 1 request, an empty action | a permission nobody can parse is stored (finding) |
| `user_records` | 2 accounts, 3 addresses (one empty), 2 passwords, 2 requests, 3 versions, 2 sessions | a session stands for the present password, and a revoked one stays revoked |
| `tokens` | 2 instances, skew up to a second, half-second ticks, 64 configurations of which 18 are valid, 11 ticks | tokens end when they were said to, within a second |
| `migrations` | 2 jobs, 1 checker, 3 releases (1 and 3 scripts, and a drifted one with 2) | the schema is what the history says, in whole batches; jobs do not collide and end |

The properties:

* `IndexCoverage`: the bulk deletions find sessions through the index only, so a live
  session outside it would survive a password change or a suspension. It can happen,
  but only in the session's own last half second.
* `OneLiveJTIPerSession`, `NoResurrection`: a refresh token is used once; no order of
  rotations, deletions, blocks, unblocks, expiries and restarts makes an identity that
  was refused acceptable again.
* `GenerationFence`: sessions that escape the deletion of a block are behind the
  generation it installs, so unblocking revives none.
* `OwnershipIsolation`: nothing done for one user changes what another may use.
* `BulkDeletionsReachAll`: what `IndexCoverage` is for. After "all sessions" or "all
  other sessions" of a user were deleted, only the spared session and sessions in their
  own last half second still work, whatever happened to the index before.
* `SuspendedUsersShutOut`, `DeletedUsersShutOut`: the cross-store promises of
  `ChangeStatus` and `DeleteUser`, for every user who is not `torn`.
* `SuspensionFailsClosed`: the first of them for everybody, as two comments in the code
  have it; overlapping managers violate it, and so does one whose last call fails (see
  the findings).
* `InactiveHasNoRedisState`, `ActiveUsersNotBlocked`: nobody is locked out by accident;
  the second again for every user who is not `torn`.
* `OldCredentialsDrain`: a password change is a boundary for what is issued.
* `CompleteCleanup`, `CleanerNeverUsesClosed`, `DrainedBeforeClose`,
  `NothingStartsAfterClosed`: the order in which the parts of the process end, whoever
  calls Run and Shutdown and whatever fails. There are two exceptions to draining, and
  the model keeps both: after a forced close, and when `Server.Start` reported an error
  although it had accepted connections, handlers run on over closed stores.
* `ReadinessIsTrue`: nobody is told "ready" by a probe that began when the server was
  draining, or by one whose last ping found a store closed. That a probe which saw the
  flag in time is not fooled by a forced shutdown rests on the order of its pings, which
  is opposite to the order in which the stores are closed.
* `CallersReturn`: shutdown ends even when handlers never do.
* `BootLeaksNothing`: the seven error returns of `initializeApp`, and the six looks at
  its context, each close exactly what was open.
* `SlidingWindowLimit`: stated over the stamps of the admitted requests. A late stamp
  or a fast clock makes a script prune entries that another request still should
  count, and the key may expire up to a second before the window is over, so the
  guarantee is for intervals of what is remembered, less lag and skew; with whole
  seconds and neither it is the window itself.
* `RetryAfterNearlySuffices`: a denied client that waits as long as the header says and
  less than a second more, or as the body says and less than half a second more, finds
  room if nobody else comes. The seconds as told do not suffice (see the findings).
* `RefusalsJustified`: the other direction of the limit. A refused request has `Limit`
  admissions behind it, in the window before its stamp or late by no more than lag and
  skew, and the wait the script answers is neither zero nor longer than that. In the
  header it may be zero.
* `SlotsMatchHolders`: every path through cancellation and error returns its slot.
* `BoundedCost`: whatever is stored, a derivation costs no more than the service's own
  parameters, and no more of them run at once than configured.
* `CancelledLeaveQueue`, `EveryRequestAnswered`: the queue for slots drains.
* `FreshSessionsProvePassword`: a session opened with a password that was replaced, by
  its owner, an administrator or anybody else, is not let through any more. Nothing
  compares passwords; it rests on every statement that stores a password taking a
  version no other password of the account has had.
* `RevokedForGood`: a session whose version was superseded, or whose account was deleted,
  is never let through again, not even when the old password comes back (by its owner or
  by the seeding of an instance that starts).
* `NeverPastTold`, `UsableThroughLife`: both directions of "expires at". Cutting off the
  fraction only ever shortens a life, and by less than a second; storing after minting
  makes the keys outlast the token, not the other way round.
* `AuthorityHeldDuringRequest`: `powers` records the roles with which a request could
  have been let through since it arrived, so the property relates what a request does to
  what was true while it was under way, not to what its token says.
* `RoleChangesRespectHierarchy`: the policy is checked on a row read earlier; the
  compare-and-set on that role is what makes it hold at the write.
* `MissIsClassifiedTruly`: `seen` records the roles the target has had since it was
  read. A role that went away and came back is reported as an internal problem, not as
  a conflict; it is never reported as a change that did not happen.
* `ListingsStayVisible`: to `ListUsers` no roles mean no filter, so each way to an empty
  set of roles has to return before the query.
* `SchemaMatchesHistory`, `WholeBatches`, `JobsDoNotCollide`: the promises of the
  repository's README about `migrate up`, with failures at every statement, lost replies
  of the commit and releases whose files were edited.
* `SuccessIsLasting`: the check at startup is done once, and stays true.
* `EveryJobEnds`: waiting for the advisory lock ends at the latest with the deadline.

Bounds. Two users are enough to tell owner from stranger and three sessions to have one
rotated, one expiring and one deleted; four jtis allow two rotations of one session.
Three generations allow a block, an unblock, a second block and the refusal at the
limit. In `account_faults` one client is a login, refresh or password change at a time,
which two managers overtake, and each other; what one client leaves behind in the stores
is there for the next. More of everything was run once with the same properties and holds
too: two clients with two managers (2 jtis, 3 generations), three managers with one
client, and two clients with one manager. In the account runs time-outs matter and durations
do not: a session lives one tick and its jti key two, so that dangling keys occur.
Identifiers and processes are symmetric: they are compared for equality only.

Safety runs need no fairness. The liveness properties use this:

* `Lifecycle`: weak fairness of every caller (goroutines are scheduled, the lock is
  handed on, the shutdown deadline passes because its context has a timeout), of the
  end of a cleanup run (its context is cancelled), and strong fairness of the worker's
  exit, because `select` chooses at random among ready cases and so cannot prefer the
  ticker for ever. Nothing is assumed of handlers.
* `SchemaMigrations`: weak fairness of each job, whose statement returns or fails; the
  operation's context has a deadline, so a wait for the lock fails at the latest then.
  Nothing is assumed about who gets the lock.
* `PasswordGate`: weak fairness of the steps that do not wait. `EveryRequestAnswered`
  assumes in addition that derivations end and that the channel serves its senders in
  order (strong fairness of obtaining a slot); `CancelledLeaveQueue` does not.

Deadlock is not checked in `lifecycle` (the process ends), in `limiter` and `tokens` (time
and requests run out) and in `user_records` (ids are used up).

In the limiter, four requests are two more than the limit, and ten ticks let a whole
window pass after the first denials; with three ticks to a second the waits are rounded
both up and down. In `user_records` three versions let two changes verify the same
password and a third party take the version in between, two passwords let an old one
come back, and two accounts and a free address let an address change hands; two sessions
at a time suffice because the property is about each of them. In `tokens` two answers
are a login and a refresh, the skew is as long as the roundings, and eleven ticks
outlast every lifetime of the first answer and most of the second. Three callers of the
lifecycle give one that does the cleanup, one that waits for the lock and one that comes
too late.

In `roles` two requests are enough: one is overtaken and one overtakes, with seeding and
status changes as further writers; an id is never given twice, and the second id is
the one that is created and deleted. Clients submit the pairs and filters of
`MCRoleAdministration`, one of each kind the code tells apart. In `migrations` two jobs
compete for the lock, and three releases give a successor and a drift.

## Findings

1. `UnblockUser` (`usecase/user/usecase.go:503`) is not conditional on the status it was
   decided on, and nothing serializes the requests that change a status.
   * *Suspended and let in* (`account_two_managers`). A reactivation decided on an old
     read unblocks Redis in the middle of a suspension; the row ends suspended and Redis
     open, and a login admitted before gets a usable session. The comment at lines
     472-476 says "a stale login or snapshot token cannot create or use a session after
     this operation linearizes".
   * *Deleted and let in.* A login passes its checks; manager A suspends the account;
     B reads the row to reactivate it; A deletes the account as far as the tombstone; B
     unblocks; the login creates its session; A removes the row. The deleted account has
     a usable session, until it expires, on routes that do not look at the row. The
     comment at lines 197-199 says that "a late login cannot create a usable session".
     B's own update then misses.
   * *Active and shut out.* A and B read an active row to suspend it. A suspends; A's
     next request reads suspended, to reactivate, and unblocks; B blocks; B's conditional
     update misses, because the row already says suspended, and is answered as done; the
     reactivation stores active. The row is active, Redis blocked and no request under
     way. The user cannot log in, and repeating the activation is answered at once
     (line 453); a suspension and a new reactivation put it right.

   The last two are `DeletionFailsClosed` and `ActivationLetsIn` of `MCAccountWorkflows`:
   put one of them in the place of the invariant in `MCAccountTwoManagers.cfg`, and TLC
   answers with the trace. In all three the user is `torn`, by a write that crossed the
   opposite change; the theorems below say that nothing else than that, a failure or a
   loss of data leads there.
2. A reactivation whose row update fails leaves Redis open while the row says
   suspended; a login that was admitted before the suspension gets a usable session
   (`account_reactivation_fails`).
3. `CreatePermissin` stores an empty action without parsing it; no user of that role can
   then log in, refresh or be authorized freshly until the row is deleted
   (`roles_empty_action`).

More was met and is part of the passing models, stated as it is:

* A deletion of an inactive account whose row removal fails leaves a block that
  activation does not lift, although the comment at `usecase/user/usecase.go:466` says
  activation has nothing to restore. `InactiveHasNoRedisState` excepts `torn` users.
* `create_session.lua:85` says the index must live at least as long as its longest
  session; because of the rounded `TTL` it may expire up to half a second earlier.
  `IndexCoverage` states the consequence exactly.
* `Server.Start` may report a serve error although the server was ready and had accepted
  a connection; the cleanup then neither drains nor closes it. `DrainedBeforeClose`
  excepts it.
* A rate-limit window that is not a whole number of seconds is not covered by the expiry
  of the log; `SlidingWindowLimit` is stated over `Memory`.
* `Retry-After` is cut to whole seconds (`middleware/rate_limit.go:102`) and may be 0, and
  the `retry_after` of the body is rounded to the nearest second, so a client that tries
  again when it was told to (`translations/en.json:37`, "Please try again in ...") may be
  refused again. `middleware/rate_limit_test.go:28` and `:92` expect 1.5 s to be told as 1.
  `RetryAfterNearlySuffices` states by how much it can be short.

Also seen, and contradicted by nothing in the repository: `CreateUser` and `DeleteUser`
relate the actor's role to no other role (their permissions decide alone); the last
administrator may be demoted or deleted; a seeding instance grants revoked default
permissions again; `ChangeStatus` compares the status but not the role it read, so a
target promoted in between is suspended all the same; two password changes that verified
the same password both succeed and the later one wins. The repository's README (line
104) gives `user:update` for `PUT /user/:id`; `user_routes.go:75` requires `full_access`.

## Proofs

The modules named `...Proofs` hold theorems checked by TLAPS for any sets of users,
sessions, identities, requests and processes and any lifetimes and limits. The only
assumptions on constants are the named ones of the modules (`StoreAssumption`,
`AccountAssumption`, `LifecycleAssumption`, `RateLimiterAssumption`,
`PasswordGateAssumption`, `RecordsAssumption`, `LifetimesAssumption`,
`RoleAdministrationAssumption`, `SchemaMigrationsAssumption`), which TLC evaluates in the runs; a theorem that needs more
states it.

* Store. `StoreInv` is inductive: the type invariant, `IndexCoverage`,
  `OneLiveJTIPerSession`, `GenerationFence` and `KeysIssued`. The last part is needed
  because a new session or jti is one that was *never issued*, and only `KeysIssued`
  tells that no existing key can carry it. Steps fall into three kinds (`StepKinds`):
  those after which keys only vanish, `Create` and `Rotate`; each lemma treats the
  kinds once. `NoResurrection` and the refinement of `AccessGrants` follow from what
  each kind does to `Accepts`. `OwnershipIsolation` needs one thing more, that a jti is
  issued once (`IdentitiesDistinct`): `delete_owned_sessions.lua` deletes the jti keys
  its sessions name without reading them. `BulkDeletionsReachAll` follows from
  `IndexCoverage`: what is accepted is a live session, which is in the index or about
  to expire.
* Workflows. `WorkflowsUseStore`: every behaviour of the composition is a behaviour of
  the store, so the store's theorems apply to it (`WorkflowsKeepStorePromises`); the
  invariant it needs (`RequestsOK`) says what a request knows at each step.
  `PasswordChangeEndsSessions` is one consequence: the cleanup of a password change
  leaves the user no accepted identity, save in the last half second of a session.
  With `NoResurrection` none comes back; what a login admitted before opens afterwards
  is the subject of `OldCredentialsDrain`. The four theorems on status
  rest on one invariant, `StoresAgree`: the block is in place before the row changes and
  only a reactivation of a row that says suspended lifts it (`BlockBeforeRow`), the
  converse for active rows (`ActiveUsersNotBlocked`), and an account that was never
  activated has met no login (`NewAccounts`). Any number of managers may overlap:
  `BlockBeforeRow` says of a user who is not `torn` that a reactivation and a blocking
  change are never both between their stores, because whichever wrote Redis second has
  crossed the other, so all that are there agree on what Redis should hold, and the rows
  they store agree with it. Failures, data loss and crossed changes need no
  assumption, because `torn` tells them apart; finding 1 shows that it has to.
  `OldCredentialsDrainHolds` does without `torn`: a request comes to
  write only with the version its row has (`AdmittedCurrent`), and versions only grow.
* Lifecycle. `LifecycleInv` ties the position of the lock's holder to the flags and to
  what is open: which resources are closed is a function of how far the one cleanup has
  come, and the worker and the server are gone before it gets there. `ReadinessIsTrueHolds`
  needs of it that PostgreSQL is closed only after Redis. `CallsAreShort` and
  `NoCircularWait` are the parts of `CallersReturn` that are safety: a call has at most
  eleven steps, nobody is thrown back, and whoever waits waits for a caller that holds
  the lock or for a worker that was told to stop.
* Rate limiter. `Remembered` is the strengthening: an admission that no script may have
  pruned yet is in the log, and the key lives until a script may prune it. The interval
  that contains a new admission then lies inside the log, which had room. A window of
  fractional seconds needs no assumption: it is remembered for `Memory`.
  `RetryAfterNearlySufficesHolds` adds that each request is answered once and that what a
  denial saw in the log covers the later log for as long as nobody is admitted; that the
  header is cut by less than a second and the body by less than half of one is arithmetic.
  `RefusalsJustifiedHolds` needs that no entry of the log is stamped later than lag and
  skew allow (`LogInTime`).
* Password gate. The number of elements in the channel is the number of requests between
  acquire and release (`GateInv`), by the effect of each step on that set; and the cost
  of every derivation is the supported one, because the parser accepts no other.
  `CallsAreShort` and `QueueHasAHolder` carry the liveness argument: a call has at most
  six steps, and while no slot is free somebody holds one who waits for nothing.
* User records. `Proves(u, v, pw)`: whoever read version `v` together with `pw` is right
  about the password while the row keeps that version, and the version never comes
  back. `RecordsInv` says it of logins under way and of sessions, and every statement is
  of one of four kinds as far as a row is concerned (`RowStep`). `RevokedForGood`
  follows from the same four kinds: none of them lowers a version or revives a deleted
  account, and no session has a version its account has yet to reach.
* Token lifetimes. `LifetimesInv` says where each expiry comes from: a token's is the
  minting clock plus the lifetime, cut to seconds (`Minted`); the keys were stored no
  earlier than the refresh token they carry was minted (`StoredAfter`), so they outlast
  it up to the cut; and a jti under way is on no token given out before. Two lemmas bound the cuts
  (`NumericDateCutsOff`, `WholeSecondsCutOff`): never upwards, and by less than a second.
* Roles. `IInv` adds to the properties what a request knows: while it waits to be
  authorized its observation is up to date (`Watched`), and once it has read its target
  the role it read is among the ones seen and within its actor's reach (`HasRead`).
  Every step leaves a request as it is or moves it in one of five shapes (`StepShape`),
  which keeps the induction short.
* Migrations. `LockHeld`: a job is past the lock exactly while it holds it, so at most
  one job has read the history (`InProgress`), and the history cannot move under it.
  What it has run is then the part of its release that follows the history, and a commit
  makes history and schema equal to the release (`CommitCompletes`). `JobsAreShort` and
  `NoCircularWait` carry the argument for `EveryJobEnds`: at most 2n + 6 statements for n
  migrations, and no wait but the one for the lock.

Every safety property that a run checks is stated by a theorem. Only model-checked are
the liveness properties `CallersReturn`, `CancelledLeaveQueue`, `EveryRequestAnswered` and
`EveryJobEnds`: they need fairness and with it ENABLED, which are out of the prover's
reach. What is proved towards them, for any number of processes, is that own steps lower
a bounded measure which other steps leave alone, and that nobody waits in a circle; that
the steps are enabled and taken is what the runs add.

## Plan

Done: the session store, the account workflows with failures and data loss, lifecycle,
bootstrap and readiness, the rate limiter, the password gate and its digests, user
records, token lifetimes, role administration and schema migrations, with the proofs
above. Next:

1. The paging of `list_sessions.lua` under concurrent expiry.
2. The role of the target in `ChangeStatus`, which is read and not repeated by the
   conditional update, in one model with the status.
