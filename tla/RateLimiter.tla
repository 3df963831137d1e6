---------------------------- MODULE RateLimiter ----------------------------
(***************************************************************************)
(* One key of the sliding-window limiter: RedisRateLimiter.Allow           *)
(* (internal/infra/ratelimiter), the script rate_limit.lua it runs, and    *)
(* the answer the middleware gives to a denied request.                    *)
(* Several instances of the API call it; each stamps a request with its    *)
(* own clock and the script sees the stamps in any order.                  *)
(*                                                                         *)
(* Time is counted in ticks, Second of them to a second.                   *)
(***************************************************************************)
EXTENDS Integers, FiniteSets

CONSTANTS
    Requests,   \* calls of Allow; a request is also its set member (a ULID)
    Limit,      \* admissions per window
    Window,     \* windowDuration
    Second,     \* ticks per second
    MaxLag,     \* how long a stamp may be under way to Redis
    MaxSkew,    \* how far a caller's clock may run ahead of Redis'
    MaxTime     \* bound on the modelled time

ASSUME RateLimiterAssumption ==
    /\ IsFiniteSet(Requests)
    /\ {Limit, Window, Second} \subseteq Nat \ {0}
    /\ {MaxLag, MaxSkew, MaxTime} \subseteq Nat

VARIABLES
    now,        \* Redis' clock
    pending,    \* the stamps of requests whose script has not run
    log,        \* the sorted set: members and their scores
    ttl,        \* what is left of the key's life
    admitted,   \* history: stamps of all requests that were admitted
    refused     \* history: each denial, with the script's reply, what the
                \* client was told of it, and the admissions before it

vars == <<now, pending, log, ttl, admitted, refused>>

Stamps == 0..(MaxTime + MaxSkew)
Stamped == [id: Requests, stamp: Stamps]
Refusal == [id: Requests, stamp: Stamps, retryAfter: Nat,
            header: Nat, body: Nat, seen: SUBSET Stamped]

TypeOK ==
    /\ now \in 0..MaxTime
    /\ pending \in SUBSET Stamped
    /\ log \in SUBSET Stamped
    /\ ttl \in Nat
    /\ admitted \in SUBSET Stamped
    /\ refused \in SUBSET Refusal

Init ==
    /\ now = 0
    /\ pending = {}
    /\ log = {}
    /\ ttl = 0
    /\ admitted = {}
    /\ refused = {}

----------------------------------------------------------------------------

\* windowSeconds: the window cut to whole seconds, but at least one.
ExpireSeconds ==
    IF Window \div Second = 0 THEN 1 ELSE Window \div Second

\* Mutant of Unexpired: what is exactly a window old still counts.
UnexpiredInclusive(stamp) == {e \in log : e.stamp >= stamp - Window}

\* What ZREMRANGEBYSCORE 0 .. stamp - window leaves.
Unexpired(stamp) == {e \in log : e.stamp > stamp - Window}

Oldest(S) == CHOOSE e \in S : \A f \in S : e.stamp <= f.stamp

\* Mutant of RetryAfter: a tick before the oldest entry leaves the window.
RetryAfterEarly(S, stamp) == Oldest(S).stamp + Window - stamp - 1

\* The script's reply to a denied request.  The clamp at zero never applies:
\* what is left of the log is newer than the window.
RetryAfter(S, stamp) == Oldest(S).stamp + Window - stamp

\* What the client is told, in seconds: the Retry-After header is cut ...
RetryAfterHeader(wait) == wait \div Second

\* ... and retry_after in the body rounded, halves up (Duration.Round).
RetryAfterBody(wait) == (2 * wait + Second) \div (2 * Second)

HasRoom(S) == Cardinality(S) < Limit

Known == {e.id : e \in pending \cup admitted \cup refused}

\* Allow reads its own clock.
Allow(r) ==
    /\ r \notin Known
    /\ \E stamp \in now..(now + MaxSkew) :
         pending' = pending \cup {[id |-> r, stamp |-> stamp]}
    /\ UNCHANGED <<now, log, ttl, admitted, refused>>

\* Mutant of Admit: EXPIRE only when the key is new.
AdmitWithoutExtending(q) ==
    LET kept == Unexpired(q.stamp) IN
    /\ q \in pending
    /\ HasRoom(kept)
    /\ log' = kept \cup {q}
    /\ ttl' = IF ttl = 0 THEN ExpireSeconds * Second ELSE ttl
    /\ pending' = pending \ {q}
    /\ admitted' = admitted \cup {q}
    /\ UNCHANGED <<now, refused>>

\* The script admits: ZADD and EXPIRE.
Admit(q) ==
    LET kept == Unexpired(q.stamp) IN
    /\ q \in pending
    /\ HasRoom(kept)
    /\ log' = kept \cup {q}
    /\ ttl' = ExpireSeconds * Second
    /\ pending' = pending \ {q}
    /\ admitted' = admitted \cup {q}
    /\ UNCHANGED <<now, refused>>

\* The script denies, having pruned all the same, and the middleware answers.
Deny(q) ==
    LET kept == Unexpired(q.stamp)
        wait == RetryAfter(kept, q.stamp) IN
    /\ q \in pending
    /\ ~HasRoom(kept)
    /\ log' = kept
    /\ pending' = pending \ {q}
    /\ refused' = refused \cup
         {[id |-> q.id, stamp |-> q.stamp, seen |-> admitted,
           retryAfter |-> wait, header |-> RetryAfterHeader(wait),
           body |-> RetryAfterBody(wait)]}
    /\ UNCHANGED <<now, ttl, admitted>>

\* The call fails before the script runs; the middleware refuses the request.
\* (A reply that is lost leaves the log as Admit or Deny does.)
AllowFails(q) ==
    /\ q \in pending
    /\ pending' = pending \ {q}
    /\ UNCHANGED <<now, log, ttl, admitted, refused>>

\* Time passes, and with it the life of the key.  A stamp reaches Redis
\* within MaxLag.
Tick ==
    /\ now < MaxTime
    /\ \A q \in pending : now < q.stamp + MaxLag
    /\ now' = now + 1
    /\ ttl' = IF ttl = 0 THEN 0 ELSE ttl - 1
    /\ log' = IF ttl <= 1 THEN {} ELSE log
    /\ UNCHANGED <<pending, admitted, refused>>

Next ==
    \/ \E r \in Requests : Allow(r)
    \/ \E q \in pending : Admit(q) \/ Deny(q) \/ AllowFails(q)
    \/ Tick

Spec == Init /\ [][Next]_vars

----------------------------------------------------------------------------
(* Properties. *)

\* What late and skewed stamps can hide from the script.
Slack == MaxLag + MaxSkew

\* What the log remembers: EXPIRE cuts the window to whole seconds, so a
\* window of a second and a half is forgotten after a second.
Memory == IF ExpireSeconds * Second < Window THEN ExpireSeconds * Second
                                             ELSE Window

\* The sliding window log keeps its promise: in no interval of the length it
\* remembers, less the disagreement of the clocks, are more than Limit
\* requests admitted, in whatever order their stamps reach rate_limit.lua and
\* although the key may expire before the window is over.
SlidingWindowLimit ==
    \A t \in Stamps :
        Cardinality({a \in admitted : /\ a.stamp <= t
                                      /\ a.stamp > t - (Memory - Slack)})
          <= Limit

\* Waiting as told nearly suffices: as long as nobody else was admitted, a
\* denied request that waits less than a second longer than the Retry-After
\* header says, or less than half a second longer than the body says, finds
\* room in the log.  (It may be refused when it waits exactly as told: both are
\* whole seconds, and the header is cut; allow in middleware/rate_limit.go.)
RetryAfterNearlySuffices ==
    \A d \in refused : d.seen = admitted =>
        /\ HasRoom(Unexpired(d.stamp + d.header * Second + (Second - 1)))
        /\ HasRoom(Unexpired(d.stamp + d.body * Second + (Second - 1) \div 2))

\* Nobody is refused without cause: Limit requests were admitted in the window
\* before a refused one, or after it by no more than stamps can be late, and
\* the wait the script replies is neither nothing nor longer than that (of
\* which a header in whole seconds may leave 0).  The log may be shared by
\* callers whose clocks disagree, but it makes none of them wait for admissions
\* that are out of the window (rate_limit.lua).
RefusalsJustified ==
    \A d \in refused :
        /\ Cardinality({a \in d.seen : /\ a.stamp > d.stamp - Window
                                       /\ a.stamp <= d.stamp + Slack})
             >= Limit
        /\ d.retryAfter \in 1..(Window + Slack)

=============================================================================
