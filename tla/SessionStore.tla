---------------------------- MODULE SessionStore ----------------------------
(***************************************************************************)
(* The Redis session store: the keyspace that                              *)
(* internal/infra/storage/redis/session/repository.go and its Lua scripts  *)
(* read and write.  Redis runs a script atomically, so every repository    *)
(* method is one action.  A script that returns early without writing is a *)
(* step that changes nothing; its condition is the guard that the action   *)
(* negates.                                                                *)
(*                                                                         *)
(*   session:id:<sid>     hash, expires      session[sid]                  *)
(*   session:jti:<jti>    string, expires    jtiKey[jti]                   *)
(*   session:user:<user>  zset, expires      index[user], indexTTL[user]   *)
(*   session:access:<u>   hash, permanent    access[user]                  *)
(*                                                                         *)
(* A key with a time to live of 0 does not exist.                          *)
(***************************************************************************)
EXTENDS Naturals, FiniteSets

CONSTANTS
    Users,          \* user identifiers
    Sessions,       \* session identifiers (ULIDs, never reused)
    JTIs,           \* refresh-token identifiers (ULIDs, never reused)
    Versions,       \* credential versions a login may carry
    Nil,            \* the value of a field of a missing key
    SessionTTL,     \* lifetime of a session hash, in ticks
    JTITTL,         \* lifetime of a jti key, in ticks
    HalfSecond,     \* ticks in half a second; 0 when a tick is whole seconds
    MaxGeneration   \* maxSafeGeneration of the scripts (2^53 - 1)

ASSUME StoreAssumption ==
    /\ Nil \notin Users \cup Sessions \cup JTIs
    /\ Versions \subseteq Nat \ {0}
    /\ SessionTTL \in Nat \ {0}
    /\ JTITTL \in Nat \ {0}
    /\ HalfSecond \in Nat
    /\ MaxGeneration \in Nat \ {0}

VARIABLES
    session,    \* session hashes
    jtiKey,     \* jti -> session key
    index,      \* members of the user's session index
    indexTTL,   \* remaining life of that index
    access,     \* the user's access state; gen = 0 when the key is missing
    issued      \* history: every refresh identity handed out so far

store == <<session, jtiKey, index, indexTTL, access>>
vars == <<session, jtiKey, index, indexTTL, access, issued>>

\* What a token carries and a request presents: valueobject.TokenIdentity.
Claims == [user: Users, sid: Sessions, jti: JTIs, cred: Versions]

NoSession == [user |-> Nil, jti |-> Nil, cred |-> 0, gen |-> 0, ttl |-> 0]
NoJTI == [sid |-> Nil, ttl |-> 0]
NoAccess == [blocked |-> FALSE, gen |-> 0]

LiveSession == [user: Users, jti: JTIs, cred: Versions,
                gen: 1..MaxGeneration, ttl: 1..SessionTTL]
LiveJTI == [sid: Sessions, ttl: 1..JTITTL]

TypeOK ==
    /\ session \in [Sessions -> LiveSession \cup {NoSession}]
    /\ jtiKey \in [JTIs -> LiveJTI \cup {NoJTI}]
    /\ index \in [Users -> SUBSET Sessions]
    /\ indexTTL \in [Users -> 0..SessionTTL]
    /\ access \in [Users -> [blocked: BOOLEAN, gen: 0..MaxGeneration]]
    /\ issued \in SUBSET Claims

Init ==
    /\ session = [s \in Sessions |-> NoSession]
    /\ jtiKey = [j \in JTIs |-> NoJTI]
    /\ index = [u \in Users |-> {}]
    /\ indexTTL = [u \in Users |-> 0]
    /\ access = [u \in Users |-> NoAccess]
    /\ issued = {}

----------------------------------------------------------------------------
(* Reading the keyspace. *)

Live(s) == session[s].ttl > 0
JTILive(j) == jtiKey[j].ttl > 0

\* The access-state prologue of the lookup and rotation scripts: a missing or
\* a blocked access state ends them before they read anything else.
AccessOpen(u) == access[u].gen > 0 /\ ~access[u].blocked

\* The jti key leads to a hash that still exists and still names this jti.
Resolves(j) ==
    /\ JTILive(j)
    /\ Live(jtiKey[j].sid)
    /\ session[jtiKey[j].sid].jti = j

\* Mutant of Accepts: the generation of the session is not compared.
AcceptsAnyGeneration(c) ==
    /\ AccessOpen(c.user)
    /\ Resolves(c.jti)
    /\ jtiKey[c.jti].sid = c.sid
    /\ session[c.sid].user = c.user
    /\ session[c.sid].cred = c.cred

\* FindByJTI returns the session (and ValidateSession answers true) exactly
\* for these claims.
Accepts(c) ==
    /\ AccessOpen(c.user)
    /\ Resolves(c.jti)
    /\ jtiKey[c.jti].sid = c.sid
    /\ session[c.sid].user = c.user
    /\ session[c.sid].cred = c.cred
    /\ session[c.sid].gen = access[c.user].gen

\* Live sessions of u the index of u refers to.
OwnedIndexed(u) == {s \in index[u] : Live(s) /\ session[s].user = u}

FreshSession(s) == \A c \in issued : c.sid # s
FreshJTI(j) == \A c \in issued : c.jti # j

----------------------------------------------------------------------------
(* Writing the keyspace. *)

DelSessions(S) ==
    session' = [s \in Sessions |-> IF s \in S THEN NoSession ELSE session[s]]

DelJTIs(J) ==
    jtiKey' = [j \in JTIs |-> IF j \in J THEN NoJTI ELSE jtiKey[j]]

\* Redis removes a sorted set, and its expiry, with its last member.
SetIndex(u, S) ==
    /\ index' = [index EXCEPT ![u] = S]
    /\ indexTTL' = [indexTTL EXCEPT ![u] = IF S = {} THEN 0 ELSE @]

\* The TTL command answers in seconds rounded to the nearest, so the reply is
\* below the session lifetime exactly when this holds.
TTLReplyBelowSession(ttl) == ttl + HalfSecond < SessionTTL

\* Mutant of AddToIndex: an existing index keeps its shorter life.
AddToIndexWithoutExtending(u, s) ==
    /\ index' = [index EXCEPT ![u] = @ \cup {s}]
    /\ indexTTL' = [indexTTL EXCEPT ![u] = IF @ = 0 THEN SessionTTL ELSE @]

\* TTL, then ZADD, then EXPIRE when the index had no key or too short a life.
AddToIndex(u, s) ==
    /\ index' = [index EXCEPT ![u] = @ \cup {s}]
    /\ indexTTL' = [indexTTL EXCEPT
                      ![u] = IF @ = 0 \/ TTLReplyBelowSession(@)
                             THEN SessionTTL ELSE @]

\* The jti keys the bulk deletion removes: only those that map back.
MappedJTIs(S) == {j \in JTIs : \E s \in S : session[s].jti = j
                                            /\ jtiKey[j].sid = s}

----------------------------------------------------------------------------
(* One action per repository method. *)

\* Mutant of MayCreate: the blocked flag is not looked at.
MayCreateAlways(u) == TRUE

\* A blocked user gets no session; a missing access state is not blocked.
MayCreate(u) == ~access[u].blocked

\* Create: refuses a blocked user, initialises a missing access state at
\* generation 1, and stamps the session with the current generation.
Create(c) ==
    LET generation == IF access[c.user].gen = 0 THEN 1
                                                ELSE access[c.user].gen
    IN  /\ MayCreate(c.user)
        /\ FreshSession(c.sid) /\ FreshJTI(c.jti)
        /\ access' = [access EXCEPT ![c.user].gen = generation]
        /\ session' = [session EXCEPT ![c.sid] =
                         [user |-> c.user, jti |-> c.jti, cred |-> c.cred,
                          gen |-> generation, ttl |-> SessionTTL]]
        /\ jtiKey' = [jtiKey EXCEPT ![c.jti] =
                         [sid |-> c.sid, ttl |-> JTITTL]]
        /\ AddToIndex(c.user, c.sid)
        /\ issued' = issued \cup {c}

\* FindByJTI writes only to drop a jti key that no longer resolves.
FindByJTI(c) ==
    /\ AccessOpen(c.user)
    /\ JTILive(c.jti)
    /\ ~Resolves(c.jti)
    /\ DelJTIs({c.jti})
    /\ UNCHANGED <<session, index, indexTTL, access, issued>>

\* Mutant of ExchangeJTI: the old jti key is left behind.
ExchangeJTIKeepingOld(old, new, s) ==
    jtiKey' = [jtiKey EXCEPT ![new] = [sid |-> s, ttl |-> JTITTL]]

\* DEL of the old jti key and SET of the new one.
ExchangeJTI(old, new, s) ==
    jtiKey' = [jtiKey EXCEPT ![old] = NoJTI,
                             ![new] = [sid |-> s, ttl |-> JTITTL]]

\* RotateJTI: the old jti key is exchanged for a new one, the session's life
\* starts again and the index is extended or repaired.
Rotate(c, j) ==
    /\ Accepts(c)
    /\ FreshJTI(j)
    /\ ExchangeJTI(c.jti, j, c.sid)
    /\ session' = [session EXCEPT ![c.sid].jti = j,
                                  ![c.sid].ttl = SessionTTL]
    /\ AddToIndex(c.user, c.sid)
    /\ issued' = issued \cup {[c EXCEPT !.jti = j]}
    /\ UNCHANGED access

\* The jti key is there but its session is gone.
Dangling(c) ==
    /\ AccessOpen(c.user)
    /\ JTILive(c.jti)
    /\ ~Live(jtiKey[c.jti].sid)

\* RotateJTI on such a key drops it and answers 0.
RotateDangling(c) ==
    /\ Dangling(c)
    /\ DelJTIs({c.jti})
    /\ UNCHANGED <<session, index, indexTTL, access, issued>>

\* Delete: the ownership-blind deletion of a set of sessions.
Delete(S) ==
    LET dead == {s \in S : Live(s)}
        left(u) == index[u] \ {s \in dead : session[s].user = u}
    IN  /\ dead # {}
        /\ index' = [u \in Users |-> left(u)]
        /\ indexTTL' = [u \in Users |->
                          IF left(u) = {} THEN 0 ELSE indexTTL[u]]
        /\ DelJTIs({session[s].jti : s \in dead})
        /\ DelSessions(dead)
        /\ UNCHANGED <<access, issued>>

\* Mutant of MayDelete: the owner of a target is not compared.
MayDeleteAnyLive(u, S) == \A s \in S : Live(s)

\* The validation pass: every target exists and belongs to the user.
MayDelete(u, S) == \A s \in S : Live(s) /\ session[s].user = u

\* DeleteByUser: nothing is written unless every target is live and owned.
DeleteByUser(u, S) ==
    /\ S # {}
    /\ MayDelete(u, S)
    /\ SetIndex(u, index[u] \ S)
    /\ DelJTIs({session[s].jti : s \in S})
    /\ DelSessions(S)
    /\ UNCHANGED <<access, issued>>

\* DeleteAllByUser: mode "all".
DeleteAllByUser(u) ==
    /\ SetIndex(u, {})
    /\ DelJTIs(MappedJTIs(OwnedIndexed(u)))
    /\ DelSessions(OwnedIndexed(u))
    /\ UNCHANGED <<access, issued>>

\* DeleteOthersByUser: mode "others"; the current session must be live and
\* owned, and every other member leaves the index.
DeleteOthersByUser(u, current) ==
    LET others == OwnedIndexed(u) \ {current}
    IN  /\ Live(current) /\ session[current].user = u
        /\ SetIndex(u, index[u] \cap {current})
        /\ DelJTIs(MappedJTIs(others))
        /\ DelSessions(others)
        /\ UNCHANGED <<access, issued>>

\* Mutant of NextGeneration: blocking does not advance the generation.
SameGeneration(u) == IF access[u].gen = 0 THEN 1 ELSE access[u].gen

\* The generation a block installs: advanced, unless the user is blocked.
NextGeneration(u) ==
    IF access[u].blocked THEN access[u].gen ELSE access[u].gen + 1

\* Mutant of GenerationLeft: the exhaustion check is off by one.
GenerationLeftOffByOne(u) ==
    access[u].blocked \/ access[u].gen <= MaxGeneration

\* generation >= maxSafeGeneration is refused for an unblocked user.
GenerationLeft(u) == access[u].blocked \/ access[u].gen < MaxGeneration

\* BlockAndDeleteAllByUser: mode "block_all".  An unblocked user at the
\* largest generation cannot be blocked (user_session_generation_exhausted).
BlockAndDeleteAllByUser(u) ==
    /\ GenerationLeft(u)
    /\ access' = [access EXCEPT ![u] = [blocked |-> TRUE,
                                        gen |-> NextGeneration(u)]]
    /\ SetIndex(u, {})
    /\ DelJTIs(MappedJTIs(OwnedIndexed(u)))
    /\ DelSessions(OwnedIndexed(u))
    /\ UNCHANGED issued

\* UnblockUser fails on a missing access state and keeps the generation.
UnblockUser(u) ==
    /\ access[u].gen > 0
    /\ access' = [access EXCEPT ![u].blocked = FALSE]
    /\ UNCHANGED <<session, jtiKey, index, indexTTL, issued>>

\* ListByUser answers with OwnedIndexed(u) and prunes every other member.
\* (Hashes are written whole, so an owned member is never incomplete and the
\* revoking branch of the cleanup does not arise.)
ListByUser(u) ==
    /\ SetIndex(u, OwnedIndexed(u))
    /\ UNCHANGED <<session, jtiKey, access, issued>>

\* DeleteOrphanSessions runs its script once per index key found by SCAN;
\* this is one such run.
DeleteOrphanSessions(u) ==
    /\ SetIndex(u, {s \in index[u] : Live(s)})
    /\ UNCHANGED <<session, jtiKey, access, issued>>

----------------------------------------------------------------------------
(* The environment: time, and a Redis server that lost its data. *)

Older(n) == IF n = 0 THEN 0 ELSE n - 1

Tick ==
    /\ session' = [s \in Sessions |->
                     IF session[s].ttl <= 1 THEN NoSession
                     ELSE [session[s] EXCEPT !.ttl = @ - 1]]
    /\ jtiKey' = [j \in JTIs |->
                     IF jtiKey[j].ttl <= 1 THEN NoJTI
                     ELSE [jtiKey[j] EXCEPT !.ttl = @ - 1]]
    /\ indexTTL' = [u \in Users |-> Older(indexTTL[u])]
    /\ index' = [u \in Users |-> IF indexTTL[u] <= 1 THEN {} ELSE index[u]]
    /\ UNCHANGED <<access, issued>>

\* A restart without its data: every key is missing, including access states.
DataLoss ==
    /\ session' = [s \in Sessions |-> NoSession]
    /\ jtiKey' = [j \in JTIs |-> NoJTI]
    /\ index' = [u \in Users |-> {}]
    /\ indexTTL' = [u \in Users |-> 0]
    /\ access' = [u \in Users |-> NoAccess]
    /\ UNCHANGED issued

\* What one user's requests may do to the store.  Tokens are signed, so only
\* identities that were issued are ever presented.
UserStep(u) ==
    \/ \E c \in Claims : c.user = u /\ Create(c)
    \/ \E c \in issued : c.user = u /\ FindByJTI(c)
    \/ \E c \in issued, j \in JTIs : c.user = u /\ Rotate(c, j)
    \/ \E c \in issued : c.user = u /\ RotateDangling(c)
    \/ \E S \in SUBSET Sessions : DeleteByUser(u, S)
    \/ DeleteAllByUser(u)
    \/ \E s \in Sessions : DeleteOthersByUser(u, s)
    \/ BlockAndDeleteAllByUser(u)
    \/ UnblockUser(u)
    \/ ListByUser(u)
    \/ DeleteOrphanSessions(u)

Next ==
    \/ \E u \in Users : UserStep(u)
    \/ \E S \in SUBSET Sessions : Delete(S)
    \/ Tick
    \/ DataLoss

Spec == Init /\ [][Next]_vars

----------------------------------------------------------------------------
(* Correctness. *)

\* A live session is in its owner's index, and the index lives as long as the
\* session up to the rounding of the TTL command (create_session.lua and
\* rotate_jti.lua extend the index; the bulk deletions find sessions only
\* through it).  A session may be missing from the index only during its own
\* last half second.
IndexCoverage ==
    \A s \in Sessions : Live(s) =>
        \/ session[s].ttl <= HalfSecond
        \/ LET u == session[s].user
           IN  s \in index[u] /\ session[s].ttl <= indexTTL[u] + HalfSecond

\* Only the current jti of a live session maps to it: a refresh identity that
\* was rotated away leaves no key behind (rotate_jti.lua), and neither does a
\* session deletion leave a jti key pointing at a session with another jti.
OneLiveJTIPerSession ==
    \A j \in JTIs : JTILive(j) /\ Live(jtiKey[j].sid)
                        => session[jtiKey[j].sid].jti = j

\* The generation fence behind suspension: no session is ahead of its user's
\* generation, and while the user is blocked every surviving session is
\* strictly behind it, so that unblocking at the same generation revives
\* none (delete_other_sessions.lua block_all, unblock_user.lua).
GenerationFence ==
    \A s \in Sessions : Live(s) =>
        LET a == access[session[s].user]
        IN  session[s].gen <= a.gen /\ (a.blocked => session[s].gen < a.gen)

\* An identity that is not accepted stays unaccepted for ever: no sequence of
\* rotations, deletions, blocks, unblocks, expiries and data loss makes the
\* lookup of get_session_by_jti.lua accept an old identity again.
NoResurrection ==
    [][\A c \in issued : Accepts(c)' => Accepts(c)]_vars

\* A store operation made for one user neither revokes nor revives another
\* user's identities (the ownership checks of delete_owned_sessions.lua and
\* delete_other_sessions.lua).
OwnershipIsolation ==
    [][\A u \in Users : UserStep(u) =>
          \A c \in issued : c.user # u => (Accepts(c)' <=> Accepts(c))]_vars

\* "All sessions" and "all other sessions" mean it: after a bulk deletion of u
\* (delete_other_sessions.lua, which only looks into the index) no identity of
\* u is accepted but those of the session it was told to spare and of sessions
\* in their own last half second, however logins, refreshes, expiries and
\* cleanups of the index came before it.
BulkDeletionsReachAll ==
    [][\A u \in Users, spared \in Sessions :
          \/ DeleteAllByUser(u)
          \/ BlockAndDeleteAllByUser(u)
          \/ DeleteOthersByUser(u, spared)
          => \A c \in issued : c.user = u /\ Accepts(c)' =>
                \/ session[c.sid].ttl <= HalfSecond
                \/ DeleteOthersByUser(u, spared) /\ c.sid = spared]_vars

\* Every key that exists was written for an identity that was issued; with it
\* the invariants above are inductive.
KeysIssued ==
    /\ \A j \in JTIs : JTILive(j) =>
          \E c \in issued : c.jti = j /\ c.sid = jtiKey[j].sid
    /\ \A s \in Sessions : Live(s) =>
          \E c \in issued : c.sid = s /\ c.jti = session[s].jti

StoreInv == /\ TypeOK
            /\ IndexCoverage
            /\ OneLiveJTIPerSession
            /\ GenerationFence
            /\ KeysIssued

\* The store implements the abstract AccessGrants specification, an identity
\* being honoured when get_session_by_jti.lua accepts it.
Honoured == {c \in issued : Accepts(c)}
BlockedUsers == {u \in Users : access[u].blocked}

Grants == INSTANCE AccessGrants WITH
    honoured <- Honoured, blocked <- BlockedUsers

\* The refinement as a property of the runs.
ImplementsAccessGrants == Grants!Spec
=============================================================================
