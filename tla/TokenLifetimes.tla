--------------------------- MODULE TokenLifetimes ---------------------------
(***************************************************************************)
(* How long what a client was given works: the lifetimes that              *)
(* internal/config accepts, the tokens that the JWT manager mints and      *)
(* parses (internal/infra/auth/jwt_manager.go) and the expiry of the two   *)
(* Redis keys of the session (usecase/session, create_session.lua and      *)
(* rotate_jti.lua), followed through one login and the refreshes after it. *)
(*                                                                         *)
(* Three clocks and two roundings meet here.  Each instance mints and      *)
(* checks tokens by its own clock, Redis expires keys by a third.  A token *)
(* carries whole seconds, a key lives for whole seconds, and the answer to *)
(* the client names the expiry with neither cut off.  Time passes between  *)
(* any two steps of a request.  Requests that race for one refresh token   *)
(* are the business of SessionStore and AccountWorkflows; here one login   *)
(* or refresh is under way at a time.                                      *)
(***************************************************************************)
EXTENDS Naturals

CONSTANTS
    Instances,          \* the instances of the server
    Second,             \* ticks in a second
    MinimumAccess,      \* minimumAccessTokenLifetime, in ticks
    MaximumAccess,      \* maximumAccessTokenLifetime, in ticks
    AccessLifetimes,    \* values of JWT_EXPIRATION
    RefreshLifetimes,   \* values of REFRESH_TOKEN_EXPIRATION
    SessionLifetimes,   \* values of SESSION_EXPIRATION
    MaxSkew,            \* how far an instance's clock may be ahead
    MaxTime,            \* bound on time
    MaxAnswers          \* bound on the logins and refreshes answered

ASSUME LifetimesAssumption ==
    /\ {Second, MinimumAccess} \subseteq Nat \ {0}
    /\ AccessLifetimes \cup RefreshLifetimes \cup SessionLifetimes \subseteq Nat
    /\ {MaximumAccess, MaxSkew, MaxTime, MaxAnswers} \subseteq Nat

VARIABLES
    config,     \* the lifetimes of the configuration
    skew,       \* how far each instance's clock is ahead of Redis
    now,        \* the time at Redis
    store,      \* the session hash and the jti key
    request,    \* the login or refresh under way
    answers,    \* the pairs of tokens handed to the client
    serial      \* the number of refresh identities generated

vars == <<config, skew, now, store, request, answers, serial>>

Clock(i) == now + skew[i]

NoSession == [jti |-> 0, jtiUntil |-> 0, until |-> 0]
NoRequest == [stage |-> "none"]

----------------------------------------------------------------------------
(* Configuration. *)

\* Mutant of Validate: access tokens may live as long as one likes.
ValidateWithoutMaximum(c) ==
    c.access >= MinimumAccess /\ c.refresh > 0 /\ c.session > 0

\* What Config.validate asks of the lifetimes.  It does not relate them to
\* each other, and a refresh or session lifetime below a second passes.
Validate(c) ==
    /\ c.access >= MinimumAccess /\ c.access <= MaximumAccess
    /\ c.refresh > 0
    /\ c.session > 0

Environments == [access: AccessLifetimes, refresh: RefreshLifetimes,
                 session: SessionLifetimes]

Init ==
    /\ config \in {c \in Environments : Validate(c)}
    /\ skew \in [Instances -> 0..MaxSkew]
    /\ now = 0
    /\ store = NoSession
    /\ request = NoRequest
    /\ answers = {}
    /\ serial = 0

----------------------------------------------------------------------------
(* Tokens. *)

\* Mutant of NumericDate: the next whole second.
NumericDateUp(t) == ((t + Second - 1) \div Second) * Second

\* jwt.NewNumericDate: the fraction of the second is cut off.
NumericDate(t) == (t \div Second) * Second

\* NewJWTClaims wants the expiry after the issue.
NewJWTClaims(expiresAt, issuedAt) == expiresAt > issuedAt

\* generateToken and tokenClaimsFromDomain.  Lifetimes are positive, so
\* NewJWTClaims accepts the claims.  Only access tokens carry an
\* authorization snapshot.  told and minted are the claims returned to the
\* use case: they are not part of the token.
GenerateToken(i, type, jti, lifetime) ==
    [type |-> type, jti |-> jti, snapshot |-> type = "access",
     exp |-> NumericDate(Clock(i) + lifetime),
     nbf |-> NumericDate(Clock(i)),
     iat |-> NumericDate(Clock(i)),
     told |-> Clock(i) + lifetime, minted |-> Clock(i), by |-> i]

\* toDomain: a snapshot in access tokens only, and claims that make sense
\* with the fraction cut off.
ToDomain(t) ==
    /\ t.snapshot <=> t.type = "access"
    /\ NewJWTClaims(t.exp, t.iat)

\* ValidateClaims: the claims that NewJWTClaims built have NotBefore equal to
\* IssuedAt.
ValidateClaims(i, t) == t.iat <= Clock(i) /\ Clock(i) < t.exp

\* ParseAndValidate on instance i: the library checks exp and nbf.
ParseAndValidate(i, t) ==
    /\ Clock(i) < t.exp
    /\ t.nbf <= Clock(i)
    /\ ToDomain(t)
    /\ ValidateClaims(i, t)

\* ValidateSession: both keys are there and the hash names this jti.
ValidateSession(jti) ==
    /\ store.jti = jti
    /\ now < store.jtiUntil
    /\ now < store.until

\* AuthMiddleware.Required lets a request with token t through.
Authenticates(i, t) ==
    /\ ParseAndValidate(i, t)
    /\ t.type = "access"
    /\ ValidateSession(t.jti)

\* Refresh goes on with token t.
Refreshes(i, t) ==
    /\ ParseAndValidate(i, t)
    /\ t.type = "refresh"
    /\ ValidateSession(t.jti)

----------------------------------------------------------------------------
(* The keys of the session. *)

\* int64(d.Seconds()) seconds, in ticks.
WholeSeconds(d) == (d \div Second) * Second

\* Mutant of Store: a refresh leaves the expiry of the session hash alone.
StoreWithoutExtending(jti) ==
    store' = [jti |-> jti, jtiUntil |-> now + WholeSeconds(config.refresh),
              until |-> IF store = NoSession
                        THEN now + WholeSeconds(config.session)
                        ELSE store.until]

\* create_session.lua and rotate_jti.lua set the expiry of both keys.
Store(jti) ==
    store' = [jti |-> jti, jtiUntil |-> now + WholeSeconds(config.refresh),
              until |-> now + WholeSeconds(config.session)]

Answer(refresh, access) ==
    /\ answers' = answers \cup {[refresh |-> refresh, access |-> access]}
    /\ request' = NoRequest

----------------------------------------------------------------------------
(* Login and refresh. *)

\* Login has checked the password and mints the refresh token.
LoginMint(i) ==
    /\ request = NoRequest
    /\ serial = 0
    /\ serial' = serial + 1
    /\ request' = [stage |-> "create", by |-> i,
                   refresh |-> GenerateToken(i, "refresh", serial + 1,
                                             config.refresh)]
    /\ UNCHANGED <<config, skew, now, store, answers>>

\* CreateSession: the repository refuses a life below one second.
LoginCreate ==
    /\ request.stage = "create"
    /\ IF WholeSeconds(config.session) = 0 \/ WholeSeconds(config.refresh) = 0
       THEN request' = NoRequest /\ UNCHANGED store
       ELSE /\ request' = [request EXCEPT !.stage = "access"]
            /\ Store(request.refresh.jti)
    /\ UNCHANGED <<config, skew, now, answers, serial>>

\* The access token is minted last, and the pair is answered.
LoginAnswer ==
    /\ request.stage = "access"
    /\ Answer(request.refresh,
              GenerateToken(request.by, "access", request.refresh.jti,
                            config.access))
    /\ UNCHANGED <<config, skew, now, store, serial>>

\* A refresh token is presented to instance i and is found valid.
RefreshBegin(i, t) ==
    /\ request = NoRequest
    /\ serial < MaxAnswers
    /\ Refreshes(i, t)
    /\ request' = [stage |-> "mint", by |-> i, old |-> t.jti]
    /\ UNCHANGED <<config, skew, now, store, answers, serial>>

\* The security state has been read; both tokens are minted.
RefreshMint ==
    /\ request.stage = "mint"
    /\ serial' = serial + 1
    /\ request' =
           [stage |-> "rotate", by |-> request.by, old |-> request.old,
            refresh |-> GenerateToken(request.by, "refresh", serial + 1,
                                      config.refresh),
            access |-> GenerateToken(request.by, "access", serial + 1,
                                     config.access)]
    /\ UNCHANGED <<config, skew, now, store, answers>>

\* RotateSessionJTI: the old jti must still lead to the session.
RefreshRotate ==
    /\ request.stage = "rotate"
    /\ IF ValidateSession(request.old)
       THEN /\ Store(request.refresh.jti)
            /\ Answer(request.refresh, request.access)
       ELSE /\ request' = NoRequest
            /\ UNCHANGED <<store, answers>>
    /\ UNCHANGED <<config, skew, now, serial>>

\* The request fails or its instance stops.
Abandon ==
    /\ request # NoRequest
    /\ request' = NoRequest
    /\ UNCHANGED <<config, skew, now, store, answers, serial>>

\* Logout, revocation or a blocked account: the keys are deleted.
EndSession ==
    /\ store # NoSession
    /\ store' = NoSession
    /\ UNCHANGED <<config, skew, now, request, answers, serial>>

Tick ==
    /\ now < MaxTime
    /\ now' = now + 1
    /\ UNCHANGED <<config, skew, store, request, answers, serial>>

Next ==
    \/ \E i \in Instances :
           LoginMint(i) \/ \E a \in answers : RefreshBegin(i, a.refresh)
    \/ LoginCreate \/ LoginAnswer \/ RefreshMint \/ RefreshRotate
    \/ Abandon \/ EndSession \/ Tick

Spec == Init /\ [][Next]_vars

----------------------------------------------------------------------------
(* Properties. *)

\* No instance accepts a token once its clock shows the expiry that the
\* client was told, and none accepts an access token, whose role and
\* permissions are those read when it was minted, for longer than the
\* longest lifetime the configuration may give: the fraction of a second cut
\* off by the encoding only ever shortens a life.
NeverPastTold ==
    \A a \in answers, i \in Instances :
        /\ Authenticates(i, a.access) =>
               /\ Clock(i) < a.access.told
               /\ Clock(i) < a.access.minted + MaximumAccess
        /\ Refreshes(i, a.refresh) => Clock(i) < a.refresh.told

\* The clock of the instance shows a time from the minting of the token to a
\* second before the expiry the client was told.
InLife(i, t) == t.minted <= Clock(i) /\ Clock(i) + Second <= t.told

\* Whatever lifetimes the configuration combines, the pair the client was
\* given last works on every instance from the moment its clock shows the
\* issue until a second before the told expiry, as long as the instance that
\* answered is a second short of the told expiry of the refresh token and of
\* the lifetime of the session: neither of the roundings, nor the time
\* between minting and storing, takes more than that second.
UsableThroughLife ==
    \A a \in answers, i \in Instances :
        LET home == Clock(a.refresh.by) + Second
        IN  (/\ store.jti = a.refresh.jti
             /\ home <= a.refresh.told
             /\ home <= a.refresh.minted + config.session)
            => /\ InLife(i, a.access) => Authenticates(i, a.access)
               /\ InLife(i, a.refresh) => Refreshes(i, a.refresh)

=============================================================================
