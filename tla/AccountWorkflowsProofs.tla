----------------------- MODULE AccountWorkflowsProofs -----------------------
(***************************************************************************)
(* Theorems about the Redis session store, for any number of users,        *)
(* sessions and tokens and any lifetimes, and about the account workflows  *)
(* that use it, for any number of accounts and of concurrent requests.     *)
(***************************************************************************)
EXTENDS AccountWorkflows, TLAPS

----------------------------------------------------------------------------
(* Part one: the session store.  The lemmas and theorems of this part are  *)
(* about Spec, the specification of module SessionStore.                   *)

USE StoreAssumption

\* The type invariant is inductive: every script writes well-formed values.
LEMMA TypeStep == TypeOK /\ [Next]_vars => TypeOK'
<1> SUFFICES ASSUME TypeOK, [Next]_vars PROVE TypeOK'
  OBVIOUS
<1> USE DEF TypeOK, LiveSession, LiveJTI, NoSession, NoJTI, NoAccess, Claims
<1>1. ASSUME NEW u \in Users, UserStep(u) PROVE TypeOK'
  <2>1. ASSUME NEW c \in Claims, Create(c) PROVE TypeOK'
    BY <2>1 DEF Create, AddToIndex
  <2>2. ASSUME NEW c \in issued, FindByJTI(c) PROVE TypeOK'
    BY <2>2 DEF FindByJTI, DelJTIs
  <2>3. ASSUME NEW c \in issued, NEW j \in JTIs, Rotate(c, j) PROVE TypeOK'
    <3>1. c \in Claims /\ [c EXCEPT !.jti = j] \in Claims
      OBVIOUS
    <3>2. session[c.sid] \in LiveSession
      BY <2>3, <3>1 DEF Rotate, Accepts, Resolves, Live
    <3>3. session' \in [Sessions -> LiveSession \cup {NoSession}]
      BY <2>3, <3>1, <3>2 DEF Rotate
    <3>4. jtiKey' \in [JTIs -> LiveJTI \cup {NoJTI}]
      BY <2>3, <3>1 DEF Rotate, ExchangeJTI
    <3>5. index' \in [Users -> SUBSET Sessions] /\ indexTTL' \in [Users -> 0..SessionTTL]
      BY <2>3, <3>1 DEF Rotate, AddToIndex
    <3> QED
      BY <2>3, <3>1, <3>3, <3>4, <3>5 DEF Rotate
  <2>4. ASSUME NEW c \in issued, RotateDangling(c) PROVE TypeOK'
    BY <2>4 DEF RotateDangling, Dangling, DelJTIs
  <2>5. ASSUME NEW S \in SUBSET Sessions, DeleteByUser(u, S) PROVE TypeOK'
    BY <2>5 DEF DeleteByUser, SetIndex, DelJTIs, DelSessions
  <2>6. CASE DeleteAllByUser(u)
    BY <2>6 DEF DeleteAllByUser, SetIndex, DelJTIs, DelSessions
  <2>7. ASSUME NEW s \in Sessions, DeleteOthersByUser(u, s) PROVE TypeOK'
    BY <2>7 DEF DeleteOthersByUser, SetIndex, DelJTIs, DelSessions
  <2>8. CASE BlockAndDeleteAllByUser(u)
    BY <2>8 DEF BlockAndDeleteAllByUser, GenerationLeft, NextGeneration,
                SetIndex, DelJTIs, DelSessions
  <2>9. CASE UnblockUser(u)
    BY <2>9 DEF UnblockUser
  <2>10. CASE ListByUser(u)
    BY <2>10 DEF ListByUser, SetIndex, OwnedIndexed
  <2>11. CASE DeleteOrphanSessions(u)
    BY <2>11 DEF DeleteOrphanSessions, SetIndex
  <2> HIDE DEF TypeOK, Claims, LiveSession, LiveJTI
  <2> QED
    BY <1>1, <2>1, <2>2, <2>3, <2>4, <2>5, <2>6, <2>7, <2>8, <2>9, <2>10,
       <2>11 DEF UserStep
<1>2. ASSUME NEW S \in SUBSET Sessions, Delete(S) PROVE TypeOK'
  BY <1>2 DEF Delete, DelJTIs, DelSessions
<1>3. CASE Tick
  <2>1. session' \in [Sessions -> LiveSession \cup {NoSession}]
    <3>1. ASSUME NEW s \in Sessions, ~(session[s].ttl <= 1)
          PROVE  [session[s] EXCEPT !.ttl = session[s].ttl - 1] \in LiveSession
      <4>1. session[s] \in LiveSession
        BY <3>1
      <4> QED
        BY <3>1, <4>1
    <3> QED
      BY <1>3, <3>1 DEF Tick
  <2>2. jtiKey' \in [JTIs -> LiveJTI \cup {NoJTI}]
    <3>1. ASSUME NEW j \in JTIs, ~(jtiKey[j].ttl <= 1)
          PROVE  [jtiKey[j] EXCEPT !.ttl = jtiKey[j].ttl - 1] \in LiveJTI
      <4>1. jtiKey[j] \in LiveJTI
        BY <3>1
      <4> QED
        BY <3>1, <4>1
    <3> QED
      BY <1>3, <3>1 DEF Tick
  <2>3. /\ index' \in [Users -> SUBSET Sessions]
        /\ indexTTL' \in [Users -> 0..SessionTTL]
    BY <1>3 DEF Tick, Older
  <2> QED
    BY <1>3, <2>1, <2>2, <2>3 DEF Tick
<1>4. CASE DataLoss
  BY <1>4 DEF DataLoss
<1>5. CASE UNCHANGED vars
  BY <1>5 DEF vars
<1> HIDE DEF TypeOK
<1> QED
  BY <1>1, <1>2, <1>3, <1>4, <1>5 DEF Next

\* Every reachable state of the store is well typed: keys that exist hold
\* complete hashes with a positive generation and a bounded lifetime, and no
\* generation passes maxSafeGeneration.
THEOREM TypeCorrect == Spec => []TypeOK
<1>1. Init => TypeOK
  BY DEF Init, TypeOK, NoSession, NoJTI, NoAccess
<1> QED
  BY <1>1, TypeStep, PTL DEF Spec

----------------------------------------------------------------------------
(* Most steps only remove keys or shorten their lives. *)

KeysOnlyVanish ==
    /\ \A s \in Sessions : session'[s].ttl > 0 =>
          /\ session[s].ttl > 0
          /\ session'[s].user = session[s].user
          /\ session'[s].jti = session[s].jti
          /\ session'[s].cred = session[s].cred
          /\ session'[s].gen = session[s].gen
    /\ \A j \in JTIs : jtiKey'[j].ttl > 0 =>
          /\ jtiKey[j].ttl > 0
          /\ jtiKey'[j].sid = jtiKey[j].sid
    /\ issued' = issued

\* The steps that are neither a login nor a rotation.
Vanishing ==
    \/ \E c \in issued : FindByJTI(c) \/ RotateDangling(c)
    \/ \E S \in SUBSET Sessions : Delete(S)
    \/ \E u \in Users :
          \/ \E S \in SUBSET Sessions : DeleteByUser(u, S)
          \/ DeleteAllByUser(u)
          \/ \E s \in Sessions : DeleteOthersByUser(u, s)
          \/ BlockAndDeleteAllByUser(u)
          \/ UnblockUser(u)
          \/ ListByUser(u)
          \/ DeleteOrphanSessions(u)
    \/ Tick
    \/ DataLoss

\* Deletions, lookups, listing, cleanup, blocking, unblocking, time and data
\* loss never write a session or a jti key that was not there before.
LEMMA VanishingSteps ==
    ASSUME TypeOK, Vanishing PROVE KeysOnlyVanish
<1> USE DEF TypeOK, KeysOnlyVanish, NoSession, NoJTI
<1>1. ASSUME NEW c \in issued, FindByJTI(c) \/ RotateDangling(c)
      PROVE  KeysOnlyVanish
  BY <1>1 DEF FindByJTI, RotateDangling, Dangling, DelJTIs
<1>2. ASSUME NEW u \in Users, NEW S \in SUBSET Sessions,
             DeleteByUser(u, S)
      PROVE  KeysOnlyVanish
  BY <1>2 DEF DeleteByUser, DelJTIs, DelSessions
<1>3. ASSUME NEW S \in SUBSET Sessions, Delete(S) PROVE KeysOnlyVanish
  BY <1>3 DEF Delete, DelJTIs, DelSessions
<1>4. ASSUME NEW u \in Users, DeleteAllByUser(u)
      PROVE  KeysOnlyVanish
  BY <1>4 DEF DeleteAllByUser, DelJTIs, DelSessions
<1>5. ASSUME NEW u \in Users, NEW s \in Sessions,
             DeleteOthersByUser(u, s)
      PROVE  KeysOnlyVanish
  BY <1>5 DEF DeleteOthersByUser, DelJTIs, DelSessions
<1>6. ASSUME NEW u \in Users, BlockAndDeleteAllByUser(u)
      PROVE  KeysOnlyVanish
  BY <1>6 DEF BlockAndDeleteAllByUser, DelJTIs, DelSessions
<1>7. ASSUME NEW u \in Users, UnblockUser(u) \/ ListByUser(u) \/ DeleteOrphanSessions(u)
      PROVE  KeysOnlyVanish
  BY <1>7 DEF UnblockUser, ListByUser, DeleteOrphanSessions
<1>8. CASE Tick
  <2>1. ASSUME NEW s \in Sessions, session'[s].ttl > 0
        PROVE  /\ session[s].ttl > 0
               /\ session'[s].user = session[s].user
               /\ session'[s].jti = session[s].jti
               /\ session'[s].cred = session[s].cred
               /\ session'[s].gen = session[s].gen
    <3>1. ~(session[s].ttl <= 1) /\ session[s] \in LiveSession
      BY <1>8, <2>1 DEF Tick, LiveSession
    <3>2. session'[s] = [session[s] EXCEPT !.ttl = session[s].ttl - 1]
      BY <1>8, <3>1 DEF Tick
    <3> QED
      BY <3>1, <3>2 DEF LiveSession
  <2>2. ASSUME NEW j \in JTIs, jtiKey'[j].ttl > 0
        PROVE  jtiKey[j].ttl > 0 /\ jtiKey'[j].sid = jtiKey[j].sid
    <3>1. ~(jtiKey[j].ttl <= 1) /\ jtiKey[j] \in LiveJTI
      BY <1>8, <2>2 DEF Tick, LiveJTI
    <3>2. jtiKey'[j] = [jtiKey[j] EXCEPT !.ttl = jtiKey[j].ttl - 1]
      BY <1>8, <3>1 DEF Tick
    <3> QED
      BY <3>1, <3>2 DEF LiveJTI
  <2> QED
    BY <1>8, <2>1, <2>2 DEF Tick
<1>9. CASE DataLoss
  BY <1>9 DEF DataLoss
<1> HIDE DEF TypeOK, KeysOnlyVanish
<1> QED
  BY <1>1, <1>2, <1>3, <1>4, <1>5, <1>6, <1>7, <1>8, <1>9 DEF Vanishing

----------------------------------------------------------------------------
(* The keys: one jti key per session, every key issued. *)

\* A step that only removes keys keeps both facts about keys.
LEMMA VanishKeepsKeys ==
    ASSUME TypeOK, OneLiveJTIPerSession, KeysIssued, KeysOnlyVanish
    PROVE  OneLiveJTIPerSession' /\ KeysIssued'
<1>1. \A j \in JTIs : jtiKey[j].ttl > 0 => jtiKey[j].sid \in Sessions
  BY DEF TypeOK, LiveJTI, NoJTI
<1>2. OneLiveJTIPerSession'
  BY <1>1 DEF OneLiveJTIPerSession, KeysOnlyVanish, JTILive, Live
<1>3. KeysIssued'
  BY <1>1 DEF KeysIssued, KeysOnlyVanish, JTILive, Live
<1> QED
  BY <1>2, <1>3

\* Create writes its session and jti keys under identifiers nobody used.
LEMMA CreateKeepsKeys ==
    ASSUME TypeOK, OneLiveJTIPerSession, KeysIssued,
           NEW c \in Claims, Create(c)
    PROVE  OneLiveJTIPerSession' /\ KeysIssued'
<1> USE DEF JTILive, Live
<1>1. \A j \in JTIs : jtiKey[j].ttl > 0 =>
        /\ j # c.jti
        /\ jtiKey[j].sid # c.sid
        /\ jtiKey[j].sid \in Sessions
  BY DEF TypeOK, LiveJTI, NoJTI, KeysIssued, Create, FreshJTI, FreshSession
<1>2. c.jti \in JTIs /\ c.sid \in Sessions
  BY DEF Claims
<1>3. /\ jtiKey'[c.jti].sid = c.sid
      /\ session'[c.sid].jti = c.jti
      /\ \A j \in JTIs : j # c.jti => jtiKey'[j] = jtiKey[j]
      /\ \A s \in Sessions : s # c.sid => session'[s] = session[s]
      /\ issued' = issued \cup {c}
  BY <1>2 DEF Create, TypeOK
<1>4. OneLiveJTIPerSession'
  BY <1>1, <1>2, <1>3 DEF OneLiveJTIPerSession
<1>5. KeysIssued'
  BY <1>1, <1>2, <1>3 DEF KeysIssued
<1> QED
  BY <1>4, <1>5

\* Rotate leaves the new jti as the only key of the session it rotates.
LEMMA RotateKeepsKeys ==
    ASSUME TypeOK, OneLiveJTIPerSession, KeysIssued,
           NEW c \in issued, NEW j \in JTIs, Rotate(c, j)
    PROVE  OneLiveJTIPerSession' /\ KeysIssued'
<1> USE DEF JTILive, Live
<1>1. c \in Claims /\ c.jti \in JTIs /\ c.sid \in Sessions /\ c.jti # j
  BY DEF TypeOK, Claims, Rotate, FreshJTI
<1>2. /\ jtiKey[c.jti].ttl > 0 /\ jtiKey[c.jti].sid = c.sid
      /\ session[c.sid].ttl > 0 /\ session[c.sid].jti = c.jti
  BY DEF Rotate, Accepts, Resolves
<1>3. /\ jtiKey'[c.jti].ttl = 0
      /\ jtiKey'[j].sid = c.sid
      /\ session'[c.sid].jti = j
      /\ \A k \in JTIs : k # j /\ k # c.jti => jtiKey'[k] = jtiKey[k]
      /\ \A s \in Sessions : s # c.sid => session'[s] = session[s]
  BY <1>1, <1>2 DEF Rotate, ExchangeJTI, TypeOK, NoJTI, LiveSession, NoSession
<1>4. \A k \in JTIs : jtiKey[k].ttl > 0 => jtiKey[k].sid \in Sessions
  BY DEF TypeOK, LiveJTI, NoJTI
<1>5. OneLiveJTIPerSession'
  BY <1>1, <1>2, <1>3, <1>4 DEF OneLiveJTIPerSession
<1>6. PICK d \in issued' : d.sid = c.sid /\ d.jti = j
  <2>1. [c EXCEPT !.jti = j] \in issued'
    BY DEF Rotate
  <2>2. [c EXCEPT !.jti = j].sid = c.sid /\ [c EXCEPT !.jti = j].jti = j
    BY <1>1 DEF Claims
  <2> QED
    BY <2>1, <2>2
<1>7. issued \subseteq issued'
  BY DEF Rotate
<1>8. KeysIssued'
  BY <1>1, <1>2, <1>3, <1>4, <1>6, <1>7 DEF KeysIssued
<1> QED
  BY <1>5, <1>8

----------------------------------------------------------------------------
(* The generation fence. *)

\* A block moves the generation past every session it does not delete, and
\* an unblock at that generation therefore meets no session of it.
LEMMA FenceStep ==
    ASSUME TypeOK, GenerationFence,
           \/ Vanishing
           \/ \E c \in Claims : Create(c)
           \/ \E c \in issued, j \in JTIs : Rotate(c, j)
    PROVE  GenerationFence'
<1> USE DEF Live
<1>1. \A s \in Sessions : session[s].ttl > 0 =>
        session[s].user \in Users /\ session[s].gen \in 1..MaxGeneration
  BY DEF TypeOK, LiveSession, NoSession
<1>2. ASSUME NEW c \in Claims, Create(c) PROVE GenerationFence'
  <2>1. c.user \in Users /\ c.sid \in Sessions
    BY DEF Claims
  <2>2. /\ session'[c.sid].user = c.user
        /\ session'[c.sid].gen = access'[c.user].gen
        /\ \A s \in Sessions : s # c.sid => session'[s] = session[s]
        /\ ~access'[c.user].blocked
        /\ access'[c.user].gen >= access[c.user].gen
        /\ access'[c.user].gen \in Nat
        /\ \A v \in Users : v # c.user => access'[v] = access[v]
        /\ ~access[c.user].blocked
    BY <1>2, <2>1 DEF Create, MayCreate, TypeOK
  <2>3. ASSUME NEW s \in Sessions, session'[s].ttl > 0
        PROVE  LET a == access'[session'[s].user]
               IN  /\ session'[s].gen <= a.gen
                   /\ a.blocked => session'[s].gen < a.gen
    <3>1. CASE s = c.sid
      BY <2>2, <3>1
    <3>2. CASE s # c.sid
      BY <1>1, <2>1, <2>2, <2>3, <3>2 DEF GenerationFence, TypeOK
    <3> QED
      BY <3>1, <3>2
  <2> QED
    BY <2>3 DEF GenerationFence
<1>3. ASSUME NEW c \in issued, NEW j \in JTIs, Rotate(c, j)
      PROVE  GenerationFence'
  <2>1. c.sid \in Sessions /\ session[c.sid].ttl > 0
    BY <1>3 DEF TypeOK, Claims, Rotate, Accepts, Resolves
  <2>2. /\ access' = access
        /\ \A s \in Sessions : /\ session'[s].user = session[s].user
                               /\ session'[s].gen = session[s].gen
                               /\ session'[s].ttl > 0 => session[s].ttl > 0
    BY <1>3, <2>1 DEF Rotate, TypeOK, LiveSession, NoSession
  <2> QED
    BY <2>2 DEF GenerationFence
<1>4. CASE Vanishing
  <2>1. KeysOnlyVanish
    BY <1>4, VanishingSteps
  <2>2. CASE access' = access
    BY <2>1, <2>2 DEF KeysOnlyVanish, GenerationFence
  <2>3. ASSUME NEW u \in Users, BlockAndDeleteAllByUser(u)
      PROVE  GenerationFence'
    <3>1. /\ access'[u].gen = IF access[u].blocked THEN access[u].gen
                                                    ELSE access[u].gen + 1
          /\ \A v \in Users : v # u => access'[v] = access[v]
          /\ access[u].gen \in Nat
      BY <2>3 DEF BlockAndDeleteAllByUser, NextGeneration, TypeOK
    <3> QED
      BY <1>1, <2>1, <3>1 DEF KeysOnlyVanish, GenerationFence
  <2>4. ASSUME NEW u \in Users, UnblockUser(u)
      PROVE  GenerationFence'
    <3>1. /\ access'[u].gen = access[u].gen
          /\ ~access'[u].blocked
          /\ \A v \in Users : v # u => access'[v] = access[v]
      BY <2>4 DEF UnblockUser, TypeOK
    <3> QED
      BY <1>1, <2>1, <3>1 DEF KeysOnlyVanish, GenerationFence
  <2>5. CASE DataLoss
    BY <2>5 DEF DataLoss, GenerationFence, NoSession
  <2> QED
    BY <1>4, <2>2, <2>3, <2>4, <2>5
       DEF Vanishing, FindByJTI, RotateDangling, DeleteByUser, Delete,
           DeleteAllByUser, DeleteOthersByUser, ListByUser,
           DeleteOrphanSessions, Tick
<1> QED
  BY <1>2, <1>3, <1>4

----------------------------------------------------------------------------
(* The index. *)

\* Adding a session whose life starts now leaves it covered: either the index
\* is extended or the rounded TTL reply was already that long.
LEMMA AddToIndexCovers ==
    ASSUME TypeOK, NEW u \in Users, NEW s \in Sessions, AddToIndex(u, s)
    PROVE  /\ s \in index'[u]
           /\ SessionTTL <= indexTTL'[u] + HalfSecond
           /\ \A v \in Users : /\ index[v] \subseteq index'[v]
                               /\ indexTTL[v] <= indexTTL'[v]
  BY DEF AddToIndex, TTLReplyBelowSession, TypeOK

\* Every step keeps live sessions covered by their owner's index.
LEMMA CoverageStep ==
    ASSUME TypeOK, IndexCoverage,
           \/ Vanishing
           \/ \E c \in Claims : Create(c)
           \/ \E c \in issued, j \in JTIs : Rotate(c, j)
    PROVE  IndexCoverage'
<1> USE DEF Live
<1>1. \A s \in Sessions : session[s].ttl > 0 => session[s].user \in Users
  BY DEF TypeOK, LiveSession, NoSession
<1>2. ASSUME NEW c \in Claims, Create(c) PROVE IndexCoverage'
  <2>1. c.user \in Users /\ c.sid \in Sessions
    BY DEF Claims
  <2>2. /\ session'[c.sid].user = c.user
        /\ session'[c.sid].ttl = SessionTTL
        /\ \A s \in Sessions : s # c.sid => session'[s] = session[s]
    BY <1>2, <2>1 DEF Create, TypeOK
  <2>3. AddToIndex(c.user, c.sid)
    BY <1>2 DEF Create
  <2>4. /\ \A s \in Sessions : session[s].ttl \in Nat
        /\ \A v \in Users : indexTTL[v] \in Nat /\ indexTTL'[v] \in Nat
    BY <2>1, <2>3 DEF TypeOK, LiveSession, NoSession, AddToIndex
  <2> QED
    BY <1>1, <2>1, <2>2, <2>3, <2>4, AddToIndexCovers DEF IndexCoverage
<1>3. ASSUME NEW c \in issued, NEW j \in JTIs, Rotate(c, j)
      PROVE  IndexCoverage'
  <2>1. /\ c.user \in Users /\ c.sid \in Sessions
        /\ session[c.sid].ttl > 0 /\ session[c.sid].user = c.user
    BY <1>3 DEF TypeOK, Claims, Rotate, Accepts, Resolves
  <2>2. /\ session'[c.sid].user = c.user
        /\ session'[c.sid].ttl = SessionTTL
        /\ \A s \in Sessions : s # c.sid => session'[s] = session[s]
    BY <1>3, <2>1 DEF Rotate, TypeOK, LiveSession, NoSession
  <2>3. AddToIndex(c.user, c.sid)
    BY <1>3 DEF Rotate
  <2>4. /\ \A s \in Sessions : session[s].ttl \in Nat
        /\ \A v \in Users : indexTTL[v] \in Nat /\ indexTTL'[v] \in Nat
    BY <2>1, <2>3 DEF TypeOK, LiveSession, NoSession, AddToIndex
  <2> QED
    BY <1>1, <2>1, <2>2, <2>3, <2>4, AddToIndexCovers DEF IndexCoverage
<1> DEFINE Kept ==
        \A s \in Sessions : session'[s].ttl > 0 =>
            /\ session'[s] = session[s]
            /\ s \in index[session[s].user] =>
                 /\ s \in index'[session[s].user]
                 /\ indexTTL'[session[s].user] = indexTTL[session[s].user]
<1>4. ASSUME Kept PROVE IndexCoverage'
  BY <1>4 DEF IndexCoverage
<1> HIDE DEF Kept
<1>5. ASSUME NEW c \in issued, FindByJTI(c) \/ RotateDangling(c)
      PROVE  Kept
  BY <1>5 DEF FindByJTI, RotateDangling, Dangling, Kept
<1>6. ASSUME NEW u \in Users, NEW S \in SUBSET Sessions,
             DeleteByUser(u, S) PROVE Kept
  BY <1>1, <1>6 DEF DeleteByUser, SetIndex, DelSessions, TypeOK, NoSession, Kept
<1>7. ASSUME NEW S \in SUBSET Sessions, Delete(S) PROVE Kept
  BY <1>1, <1>7 DEF Delete, DelSessions, TypeOK, NoSession, Kept
<1>8. ASSUME NEW u \in Users, DeleteAllByUser(u) \/ BlockAndDeleteAllByUser(u)
      PROVE  IndexCoverage'
  <2>1. Kept
    BY <1>1, <1>8 DEF DeleteAllByUser, BlockAndDeleteAllByUser, OwnedIndexed,
                 SetIndex, DelSessions, TypeOK, NoSession, Kept
  <2> QED
    BY <1>4, <2>1
<1>9. ASSUME NEW u \in Users, NEW s \in Sessions,
             DeleteOthersByUser(u, s) PROVE Kept
  BY <1>1, <1>9 DEF DeleteOthersByUser, OwnedIndexed, SetIndex, DelSessions,
                    TypeOK, NoSession, Kept
<1>10. ASSUME NEW u \in Users, ListByUser(u) \/ DeleteOrphanSessions(u) \/ UnblockUser(u)
      PROVE  IndexCoverage'
  <2>1. Kept
    BY <1>1, <1>10 DEF ListByUser, DeleteOrphanSessions, UnblockUser,
                       OwnedIndexed, SetIndex, TypeOK, Kept
  <2> QED
    BY <1>4, <2>1
<1>11. CASE DataLoss
  BY <1>11 DEF DataLoss, NoSession, IndexCoverage
<1>12. CASE Tick
  <2> SUFFICES ASSUME NEW s \in Sessions, session'[s].ttl > 0
               PROVE  \/ session'[s].ttl <= HalfSecond
                      \/ /\ s \in index'[session'[s].user]
                         /\ session'[s].ttl
                              <= indexTTL'[session'[s].user] + HalfSecond
    BY DEF IndexCoverage
  <2> DEFINE v == session[s].user
  <2>1. session[s] \in LiveSession /\ ~(session[s].ttl <= 1)
    BY <1>12 DEF Tick, TypeOK, NoSession
  <2>2. session'[s] = [session[s] EXCEPT !.ttl = session[s].ttl - 1]
    BY <1>12, <2>1 DEF Tick
  <2>3. /\ session'[s].ttl = session[s].ttl - 1 /\ session'[s].user = v
        /\ session[s].ttl \in Nat /\ v \in Users /\ indexTTL[v] \in Nat
    BY <2>1, <2>2 DEF LiveSession, TypeOK
  <2>4. /\ indexTTL'[v] = IF indexTTL[v] = 0 THEN 0 ELSE indexTTL[v] - 1
        /\ index'[v] = IF indexTTL[v] <= 1 THEN {} ELSE index[v]
    BY <1>12, <2>3 DEF Tick, Older
  <2>5. \/ session[s].ttl <= HalfSecond
        \/ s \in index[v] /\ session[s].ttl <= indexTTL[v] + HalfSecond
    BY <2>1, <2>3 DEF IndexCoverage
  <2> HIDE DEF v
  <2> QED
    BY <2>3, <2>4, <2>5
<1> QED
  BY <1>2, <1>3, <1>4, <1>5, <1>6, <1>7, <1>8, <1>9, <1>10, <1>11, <1>12
     DEF Vanishing

----------------------------------------------------------------------------
(* The invariants. *)

\* A step of the store is a login, a rotation or a vanishing step.
LEMMA StepKinds ==
    ASSUME Next
    PROVE  \/ Vanishing
           \/ \E c \in Claims : Create(c)
           \/ \E c \in issued, j \in JTIs : Rotate(c, j)
  BY DEF Next, UserStep, Vanishing

\* The conjunction of the invariants is inductive.
LEMMA StoreInvStep == StoreInv /\ [Next]_vars => StoreInv'
<1> SUFFICES ASSUME StoreInv, [Next]_vars PROVE StoreInv'
  OBVIOUS
<1> USE DEF StoreInv
<1>1. CASE Next
  <2>1. TypeOK'
    BY <1>1, TypeStep
  <2>2. GenerationFence' /\ IndexCoverage'
    BY <1>1, StepKinds, FenceStep, CoverageStep
  <2>3. OneLiveJTIPerSession' /\ KeysIssued'
    BY <1>1, StepKinds, VanishingSteps, VanishKeepsKeys, CreateKeepsKeys,
       RotateKeepsKeys
  <2> QED
    BY <2>1, <2>2, <2>3
<1>2. CASE UNCHANGED vars
  BY <1>2 DEF vars, TypeOK, IndexCoverage, OneLiveJTIPerSession,
              GenerationFence, KeysIssued, Live, JTILive
<1> QED
  BY <1>1, <1>2

\* The invariant holds initially, when the keyspace is empty.
LEMMA StoreInvInit == Init => StoreInv
  BY DEF Init, StoreInv, TypeOK, IndexCoverage, OneLiveJTIPerSession,
         GenerationFence, KeysIssued, Live, JTILive, NoSession, NoJTI, NoAccess

\* Every invariant of the store at once.
LEMMA StoreInvariant == Spec => []StoreInv
  BY StoreInvInit, StoreInvStep, PTL DEF Spec

\* Bulk deletions find every live session through its owner's index, except
\* within the last half second of the session's life, for any lifetimes.
THEOREM IndexCoverageHolds == Spec => []IndexCoverage
<1>1. StoreInv => IndexCoverage
  BY DEF StoreInv
<1> QED
  BY <1>1, StoreInvariant, PTL

\* While a user is blocked every surviving session is of an older generation,
\* for any number of blocks and unblocks up to maxSafeGeneration.
THEOREM GenerationFenceHolds == Spec => []GenerationFence
<1>1. StoreInv => GenerationFence
  BY DEF StoreInv
<1> QED
  BY <1>1, StoreInvariant, PTL

\* A rotated-away refresh identity leaves no jti key of a live session behind.
THEOREM OneLiveJTIPerSessionHolds == Spec => []OneLiveJTIPerSession
<1>1. StoreInv => OneLiveJTIPerSession
  BY DEF StoreInv
<1> QED
  BY <1>1, StoreInvariant, PTL

----------------------------------------------------------------------------
(* Identities never come back. *)

\* Logging in somebody leaves the acceptance of older identities alone.
LEMMA CreateAccepts ==
    ASSUME StoreInv, NEW d \in Claims, Create(d)
    PROVE  /\ \A c \in issued : Accepts(c)' <=> Accepts(c)
           /\ Accepts(d)'
           /\ BlockedUsers' = BlockedUsers
<1> USE DEF StoreInv, Live, JTILive
<1>1. d.user \in Users /\ d.sid \in Sessions /\ d.jti \in JTIs
  BY DEF Claims
<1>2. /\ session'[d.sid].user = d.user
      /\ session'[d.sid].jti = d.jti
      /\ session'[d.sid].cred = d.cred
      /\ session'[d.sid].gen = access'[d.user].gen
      /\ session'[d.sid].ttl > 0
      /\ jtiKey'[d.jti].sid = d.sid
      /\ jtiKey'[d.jti].ttl > 0
      /\ access'[d.user].gen > 0
      /\ access[d.user].gen > 0 => access'[d.user].gen = access[d.user].gen
      /\ access'[d.user].blocked = access[d.user].blocked
      /\ ~access[d.user].blocked
      /\ \A s \in Sessions : s # d.sid => session'[s] = session[s]
      /\ \A j \in JTIs : j # d.jti => jtiKey'[j] = jtiKey[j]
      /\ \A u \in Users : u # d.user => access'[u] = access[u]
  BY <1>1 DEF Create, MayCreate, TypeOK
<1>3. Accepts(d)'
  BY <1>1, <1>2 DEF Accepts, AccessOpen, Resolves
<1>4. ASSUME NEW c \in issued PROVE Accepts(c)' <=> Accepts(c)
  <2>1. /\ c.user \in Users /\ c.sid \in Sessions /\ c.jti \in JTIs
        /\ c.sid # d.sid /\ c.jti # d.jti
    BY DEF TypeOK, Claims, Create, FreshSession, FreshJTI
  <2>2. jtiKey'[c.jti] = jtiKey[c.jti] /\ session'[c.sid] = session[c.sid]
    BY <1>2, <2>1
  <2>3. /\ access[c.user].gen \in Nat
        /\ session[c.sid].ttl > 0 => /\ session[c.sid].gen \in Nat \ {0}
                                     /\ session[c.sid].gen
                                          <= access[session[c.sid].user].gen
    BY <2>1 DEF TypeOK, LiveSession, NoSession, GenerationFence
  <2>4. CASE c.user = d.user
    BY <1>1, <1>2, <2>1, <2>2, <2>3, <2>4 DEF Accepts, AccessOpen, Resolves
  <2>5. CASE c.user # d.user
    BY <1>2, <2>1, <2>2, <2>5 DEF Accepts, AccessOpen, Resolves
  <2> QED
    BY <2>4, <2>5
<1>5. BlockedUsers' = BlockedUsers
  BY <1>2 DEF BlockedUsers
<1> QED
  BY <1>3, <1>4, <1>5

\* A rotation exchanges exactly one accepted identity for its successor.
LEMMA RotateAccepts ==
    ASSUME StoreInv, NEW d \in issued, NEW j \in JTIs, Rotate(d, j)
    PROVE  /\ \A c \in issued : Accepts(c)' <=> Accepts(c) /\ c # d
           /\ Accepts([d EXCEPT !.jti = j])'
<1> USE DEF StoreInv, Live, JTILive
<1>1. /\ d \in Claims /\ d.user \in Users
      /\ d.sid \in Sessions /\ d.jti \in JTIs /\ d.jti # j
  BY DEF TypeOK, Claims, Rotate, FreshJTI
<1>2. /\ jtiKey[d.jti].ttl > 0 /\ jtiKey[d.jti].sid = d.sid
      /\ session[d.sid].ttl > 0 /\ session[d.sid].jti = d.jti
      /\ session[d.sid].user = d.user /\ session[d.sid].cred = d.cred
      /\ session[d.sid].gen = access[d.user].gen
      /\ AccessOpen(d.user)
  BY DEF Rotate, Accepts, Resolves
<1>3. /\ jtiKey'[d.jti].ttl = 0
      /\ jtiKey'[j].sid = d.sid /\ jtiKey'[j].ttl > 0
      /\ \A k \in JTIs : k # j /\ k # d.jti => jtiKey'[k] = jtiKey[k]
  BY <1>1 DEF Rotate, ExchangeJTI, TypeOK, NoJTI
<1>4. /\ session'[d.sid].jti = j /\ session'[d.sid].ttl > 0
      /\ session'[d.sid].user = d.user /\ session'[d.sid].cred = d.cred
      /\ session'[d.sid].gen = session[d.sid].gen
      /\ \A s \in Sessions : s # d.sid => session'[s] = session[s]
      /\ access' = access
  BY <1>1, <1>2 DEF Rotate, TypeOK, LiveSession, NoSession
<1>5. ASSUME NEW c \in issued PROVE Accepts(c)' <=> Accepts(c) /\ c # d
  <2>1. /\ c \in Claims /\ c.user \in Users
        /\ c.sid \in Sessions /\ c.jti \in JTIs /\ c.jti # j
    BY DEF TypeOK, Claims, Rotate, FreshJTI
  <2>2. c = d <=> /\ c.user = d.user /\ c.sid = d.sid
                  /\ c.jti = d.jti /\ c.cred = d.cred
    BY <1>1, <2>1 DEF Claims
  <2>3. CASE c.jti = d.jti
    BY <1>1, <1>2, <1>3, <2>1, <2>2, <2>3 DEF Accepts, Resolves
  <2>4. CASE c.jti # d.jti /\ c.sid = d.sid
    BY <1>2, <1>3, <1>4, <2>1, <2>2, <2>4 DEF Accepts, Resolves
  <2>5. CASE c.jti # d.jti /\ c.sid # d.sid
    BY <1>3, <1>4, <2>1, <2>2, <2>5 DEF Accepts, Resolves, AccessOpen
  <2> QED
    BY <2>3, <2>4, <2>5
<1>6. Accepts([d EXCEPT !.jti = j])'
  <2> DEFINE e == [d EXCEPT !.jti = j]
  <2>1. e.user = d.user /\ e.sid = d.sid /\ e.jti = j /\ e.cred = d.cred
    BY <1>1 DEF Claims
  <2> HIDE DEF e
  <2>2. Accepts(e)'
    BY <1>2, <1>3, <1>4, <2>1 DEF Accepts, Resolves, AccessOpen
  <2> QED
    BY <2>2 DEF e
<1> QED
  BY <1>5, <1>6

\* A vanishing step makes no identity acceptable; the interesting case is the
\* unblock, where the generation fence is what rules it out.
LEMMA VanishAccepts ==
    ASSUME StoreInv, Vanishing, NEW c \in issued, Accepts(c)'
    PROVE  Accepts(c)
<1> USE DEF StoreInv, Live, JTILive
<1>1. c.user \in Users /\ c.sid \in Sessions /\ c.jti \in JTIs
  BY DEF TypeOK, Claims
<1>2. KeysOnlyVanish
  BY VanishingSteps
<1>3. /\ jtiKey[c.jti].ttl > 0 /\ jtiKey[c.jti].sid = c.sid
      /\ session[c.sid].ttl > 0 /\ session[c.sid].jti = c.jti
      /\ session[c.sid].user = c.user /\ session[c.sid].cred = c.cred
      /\ session[c.sid].gen = access'[c.user].gen
      /\ access'[c.user].gen > 0 /\ ~access'[c.user].blocked
  BY <1>1, <1>2 DEF KeysOnlyVanish, Accepts, Resolves, AccessOpen
<1>4. CASE access'[c.user] = access[c.user]
  BY <1>3, <1>4 DEF Accepts, Resolves, AccessOpen
<1>5. ASSUME NEW u \in Users, BlockAndDeleteAllByUser(u)
      PROVE  access'[c.user] = access[c.user]
  <2>1. /\ access'[u].blocked
        /\ \A v \in Users : v # u => access'[v] = access[v]
    BY <1>5 DEF BlockAndDeleteAllByUser, TypeOK
  <2> QED
    BY <1>1, <1>3, <2>1
<1>6. ASSUME NEW u \in Users, UnblockUser(u)
      PROVE  access'[c.user] = access[c.user]
  <2>1. /\ access'[u].gen = access[u].gen
        /\ \A v \in Users : v # u => access'[v] = access[v]
        /\ access'[u] = [access[u] EXCEPT !.blocked = FALSE]
        /\ access[u] \in [blocked: BOOLEAN, gen: 0..MaxGeneration]
    BY <1>6 DEF UnblockUser, TypeOK
  <2>2. CASE c.user = u
    <3>1. ~access[u].blocked
      BY <1>1, <1>3, <2>1, <2>2 DEF GenerationFence, TypeOK
    <3>2. access[u] = [access[u] EXCEPT !.blocked = FALSE]
      <4>1. access[u].blocked = FALSE
        BY <2>1, <3>1
      <4> QED
        BY <2>1, <4>1
    <3> QED
      BY <2>1, <2>2, <3>2
  <2> QED
    BY <1>1, <2>1, <2>2
<1>7. CASE DataLoss
  BY <1>1, <1>3, <1>7 DEF DataLoss, NoAccess
<1> QED
  BY <1>4, <1>5, <1>6, <1>7
     DEF Vanishing, FindByJTI, RotateDangling, DeleteByUser, Delete,
         DeleteAllByUser, DeleteOthersByUser, ListByUser,
         DeleteOrphanSessions, Tick

\* No step makes an identity acceptable that was issued before and is not
\* accepted now.
LEMMA NoResurrectionStep ==
    ASSUME StoreInv, Next, NEW c \in issued, Accepts(c)' PROVE Accepts(c)
  BY StepKinds, CreateAccepts, RotateAccepts, VanishAccepts

\* Once get_session_by_jti.lua refuses an issued identity it refuses it for
\* ever: rotated, logged-out, revoked, blocked and expired tokens stay dead.
THEOREM NoResurrectionHolds == Spec => NoResurrection
<1>1. StoreInv /\ [Next]_vars
        => [\A c \in issued : Accepts(c)' => Accepts(c)]_vars
  <2> SUFFICES ASSUME StoreInv, Next
               PROVE  \A c \in issued : Accepts(c)' => Accepts(c)
    BY DEF vars
  <2> QED
    BY NoResurrectionStep
<1> QED
  BY <1>1, StoreInvariant, PTL DEF Spec, NoResurrection

----------------------------------------------------------------------------
(* One user's requests leave the identities of the others alone. *)

\* A jti is issued once: two identities with the same jti are the same.
IdentitiesDistinct == \A c, d \in issued : c.jti = d.jti => c = d

\* A login and a rotation take a jti that was never issued.
LEMMA DistinctStep ==
    StoreInv /\ IdentitiesDistinct /\ [Next]_vars => IdentitiesDistinct'
<1> SUFFICES ASSUME StoreInv, IdentitiesDistinct, [Next]_vars
             PROVE  IdentitiesDistinct'
  OBVIOUS
<1>1. ASSUME NEW e, issued' = issued \cup {e}, FreshJTI(e.jti)
      PROVE  IdentitiesDistinct'
  BY <1>1 DEF IdentitiesDistinct, FreshJTI
<1>2. ASSUME NEW e \in Claims, Create(e) PROVE IdentitiesDistinct'
  BY <1>1, <1>2 DEF Create
<1>3. ASSUME NEW d \in issued, NEW j \in JTIs, Rotate(d, j)
      PROVE  IdentitiesDistinct'
  <2> DEFINE e == [d EXCEPT !.jti = j]
  <2>1. e.jti = j
    BY DEF StoreInv, TypeOK, Claims
  <2>2. issued' = issued \cup {e} /\ FreshJTI(j)
    BY <1>3 DEF Rotate
  <2> HIDE DEF e
  <2> QED
    BY <1>1, <2>1, <2>2
<1>4. CASE issued' = issued
  BY <1>4 DEF IdentitiesDistinct
<1>5. CASE Vanishing
  BY <1>4, <1>5, VanishingSteps DEF StoreInv, KeysOnlyVanish
<1>6. CASE UNCHANGED vars
  BY <1>4, <1>6 DEF vars
<1> QED
  BY <1>2, <1>3, <1>5, <1>6, StepKinds

\* No two identities share a jti, so a jti key belongs to one session.
LEMMA DistinctInvariant == Spec => []IdentitiesDistinct
<1>1. Init => IdentitiesDistinct
  BY DEF Init, IdentitiesDistinct
<1> QED
  BY <1>1, DistinctStep, StoreInvariant, PTL DEF Spec

\* An identity stays accepted when its session, its jti key and the access
\* state of its user stay what they are.
LEMMA UntouchedAccepts ==
    ASSUME NEW c \in issued, Accepts(c),
           session'[c.sid] = session[c.sid],
           jtiKey'[c.jti] = jtiKey[c.jti],
           access'[c.user] = access[c.user]
    PROVE  Accepts(c)'
  BY DEF Accepts, Resolves, AccessOpen, Live, JTILive

\* The bulk deletions remove sessions that the index of u leads to and u owns,
\* and jti keys that map back to one of them.
LEMMA BulkDeletionSpares ==
    ASSUME NEW u \in Users, NEW S \in SUBSET OwnedIndexed(u),
           TypeOK, DelJTIs(MappedJTIs(S)), DelSessions(S),
           NEW c \in issued, c.user # u, Accepts(c)
    PROVE  /\ session'[c.sid] = session[c.sid]
           /\ jtiKey'[c.jti] = jtiKey[c.jti]
<1>1. c.sid \in Sessions /\ c.jti \in JTIs
  BY DEF TypeOK, Claims
<1>2. session[c.sid].user = c.user /\ jtiKey[c.jti].sid = c.sid
  BY DEF Accepts
<1>3. c.sid \notin S
  BY <1>2 DEF OwnedIndexed
<1>4. c.jti \notin MappedJTIs(S)
  BY <1>2, <1>3 DEF MappedJTIs
<1> QED
  BY <1>1, <1>3, <1>4 DEF DelJTIs, DelSessions

\* The deletion of named sessions removes their jti keys without looking where
\* they lead; none of them is another user's, because a jti was issued for one
\* session.
LEMMA OwnedDeletionSpares ==
    ASSUME StoreInv, IdentitiesDistinct,
           NEW u \in Users, NEW S \in SUBSET Sessions, DeleteByUser(u, S),
           NEW c \in issued, c.user # u, Accepts(c)
    PROVE  /\ session'[c.sid] = session[c.sid]
           /\ jtiKey'[c.jti] = jtiKey[c.jti]
<1>1. c.sid \in Sessions /\ c.jti \in JTIs
  BY DEF StoreInv, TypeOK, Claims
<1>2. session[c.sid].user = c.user
  BY DEF Accepts
<1>3. c.sid \notin S
  BY <1>2 DEF DeleteByUser, MayDelete
<1>4. ASSUME NEW s \in S, session[s].jti = c.jti PROVE FALSE
  <2>1. PICK d \in issued : d.sid = s /\ d.jti = session[s].jti
    BY DEF StoreInv, KeysIssued, DeleteByUser, MayDelete
  <2>2. d = c
    BY <1>4, <2>1 DEF IdentitiesDistinct
  <2> QED
    BY <1>3, <2>1, <2>2
<1> QED
  BY <1>1, <1>3, <1>4 DEF DeleteByUser, DelJTIs, DelSessions

\* What one user's requests do to the identities of another: nothing.
LEMMA OwnershipStep ==
    ASSUME StoreInv, IdentitiesDistinct, NEW u \in Users, UserStep(u),
           NEW c \in issued, c.user # u
    PROVE  Accepts(c)' <=> Accepts(c)
<1>1. /\ TypeOK /\ c.user \in Users /\ c.sid \in Sessions /\ c.jti \in JTIs
  BY DEF StoreInv, TypeOK, Claims
<1>2. ASSUME NEW d \in Claims, d.user = u, Create(d)
      PROVE  Accepts(c)' <=> Accepts(c)
  BY <1>2, CreateAccepts
<1>3. ASSUME NEW d \in issued, NEW j \in JTIs, d.user = u, Rotate(d, j)
      PROVE  Accepts(c)' <=> Accepts(c)
  BY <1>3, RotateAccepts
<1>4. ASSUME Vanishing,
             Accepts(c) => /\ session'[c.sid] = session[c.sid]
                           /\ jtiKey'[c.jti] = jtiKey[c.jti]
                           /\ access'[c.user] = access[c.user]
      PROVE  Accepts(c)' <=> Accepts(c)
  BY <1>4, UntouchedAccepts, VanishAccepts
<1>5. ASSUME NEW d \in issued, d.user = u, FindByJTI(d) \/ RotateDangling(d)
      PROVE  Accepts(c)' <=> Accepts(c)
  <2>1. ~Resolves(d.jti)
    BY <1>5 DEF FindByJTI, RotateDangling, Dangling, Resolves
  <2>2. Accepts(c) => c.jti # d.jti
    BY <2>1 DEF Accepts
  <2>3. /\ session' = session /\ access' = access
        /\ Accepts(c) => jtiKey'[c.jti] = jtiKey[c.jti]
    BY <1>1, <1>5, <2>2 DEF FindByJTI, RotateDangling, DelJTIs
  <2> QED
    BY <1>4, <1>5, <2>3 DEF Vanishing
<1>6. ASSUME NEW S \in SUBSET Sessions, DeleteByUser(u, S)
      PROVE  Accepts(c)' <=> Accepts(c)
  <2>1. access' = access
    BY <1>6 DEF DeleteByUser
  <2> QED
    BY <1>4, <1>6, <2>1, OwnedDeletionSpares DEF Vanishing
<1>7. CASE DeleteAllByUser(u)
  <2>1. access' = access
    BY <1>7 DEF DeleteAllByUser
  <2>2. Accepts(c) => /\ session'[c.sid] = session[c.sid]
                      /\ jtiKey'[c.jti] = jtiKey[c.jti]
    BY <1>1, <1>7, BulkDeletionSpares DEF DeleteAllByUser
  <2> QED
    BY <1>4, <1>7, <2>1, <2>2 DEF Vanishing
<1>8. ASSUME NEW s \in Sessions, DeleteOthersByUser(u, s)
      PROVE  Accepts(c)' <=> Accepts(c)
  <2>1. /\ access' = access
        /\ DelJTIs(MappedJTIs(OwnedIndexed(u) \ {s}))
        /\ DelSessions(OwnedIndexed(u) \ {s})
    BY <1>8 DEF DeleteOthersByUser
  <2>2. OwnedIndexed(u) \ {s} \in SUBSET OwnedIndexed(u)
    OBVIOUS
  <2>3. Accepts(c) => /\ session'[c.sid] = session[c.sid]
                      /\ jtiKey'[c.jti] = jtiKey[c.jti]
    BY <1>1, <2>1, <2>2, BulkDeletionSpares
  <2> QED
    BY <1>4, <1>8, <2>1, <2>3 DEF Vanishing
<1>9. CASE BlockAndDeleteAllByUser(u)
  <2>1. access'[c.user] = access[c.user]
    BY <1>1, <1>9 DEF BlockAndDeleteAllByUser, TypeOK
  <2>2. Accepts(c) => /\ session'[c.sid] = session[c.sid]
                      /\ jtiKey'[c.jti] = jtiKey[c.jti]
    BY <1>1, <1>9, BulkDeletionSpares DEF BlockAndDeleteAllByUser
  <2> QED
    BY <1>4, <1>9, <2>1, <2>2 DEF Vanishing
<1>10. CASE UnblockUser(u) \/ ListByUser(u) \/ DeleteOrphanSessions(u)
  <2>1. /\ session' = session /\ jtiKey' = jtiKey
        /\ access'[c.user] = access[c.user]
    BY <1>1, <1>10
       DEF UnblockUser, ListByUser, DeleteOrphanSessions, TypeOK
  <2> QED
    BY <1>4, <1>10, <2>1 DEF Vanishing
<1> QED
  BY <1>2, <1>3, <1>5, <1>6, <1>7, <1>8, <1>9, <1>10 DEF UserStep

\* Logins, refreshes, logouts, revocations, listings, blocks and unblocks of
\* one user neither revoke nor revive an identity of another, although
\* delete_owned_sessions.lua deletes jti keys without reading them.
THEOREM OwnershipIsolationHolds == Spec => OwnershipIsolation
<1>1. StoreInv /\ IdentitiesDistinct /\ [Next]_vars
        => [\A u \in Users : UserStep(u) =>
               \A c \in issued : c.user # u => (Accepts(c)' <=> Accepts(c))]_vars
  BY OwnershipStep
<1> QED
  BY <1>1, StoreInvariant, DistinctInvariant, PTL DEF Spec, OwnershipIsolation

----------------------------------------------------------------------------
(* Bulk deletions reach every session. *)

\* The index leads to the session of every identity that is accepted, except
\* in the last half second of the session.
LEMMA AcceptedIsIndexed ==
    ASSUME StoreInv, NEW c \in issued, Accepts(c),
           ~(session[c.sid].ttl <= HalfSecond)
    PROVE  c.sid \in OwnedIndexed(c.user)
<1>1. c.sid \in Sessions
  BY DEF StoreInv, TypeOK, Claims
<1>2. Live(c.sid) /\ session[c.sid].user = c.user
  BY DEF Accepts, Resolves
<1>3. c.sid \in index[c.user]
  BY <1>1, <1>2 DEF StoreInv, IndexCoverage
<1> QED
  BY <1>2, <1>3 DEF OwnedIndexed

\* An identity whose session was deleted is not accepted.
LEMMA DeletedIsRefused ==
    ASSUME StoreInv, NEW S, DelSessions(S), NEW c \in issued, c.sid \in S
    PROVE  ~Accepts(c)'
<1>1. session'[c.sid] = NoSession
  BY DEF DelSessions, StoreInv, TypeOK, Claims
<1> QED
  BY <1>1 DEF Accepts, Resolves, Live, NoSession

\* What a bulk deletion of u leaves of the identities of u.
LEMMA BulkDeletionStep ==
    ASSUME StoreInv, NEW u \in Users, NEW spared \in Sessions,
           \/ DeleteAllByUser(u)
           \/ BlockAndDeleteAllByUser(u)
           \/ DeleteOthersByUser(u, spared),
           NEW c \in issued, c.user = u, Accepts(c)'
    PROVE  \/ session[c.sid].ttl <= HalfSecond
           \/ DeleteOthersByUser(u, spared) /\ c.sid = spared
<1>1. Accepts(c)
  BY VanishAccepts DEF Vanishing
<1>2. ~(session[c.sid].ttl <= HalfSecond) => c.sid \in OwnedIndexed(u)
  BY <1>1, AcceptedIsIndexed
<1>3. CASE DeleteAllByUser(u) \/ BlockAndDeleteAllByUser(u)
  <2>1. DelSessions(OwnedIndexed(u))
    BY <1>3 DEF DeleteAllByUser, BlockAndDeleteAllByUser
  <2> QED
    BY <1>2, <2>1, DeletedIsRefused
<1>4. CASE DeleteOthersByUser(u, spared)
  <2>1. DelSessions(OwnedIndexed(u) \ {spared})
    BY <1>4 DEF DeleteOthersByUser
  <2> QED
    BY <1>2, <1>4, <2>1, DeletedIsRefused
<1> QED
  BY <1>3, <1>4

\* A bulk deletion, though it only follows the index, leaves no accepted
\* identity of the user behind but the session it was told to spare and
\* sessions that end within half a second, for any lifetimes and any history.
THEOREM BulkDeletionsReachAllHolds == Spec => BulkDeletionsReachAll
<1> DEFINE A == \A u \in Users, spared \in Sessions :
                   \/ DeleteAllByUser(u)
                   \/ BlockAndDeleteAllByUser(u)
                   \/ DeleteOthersByUser(u, spared)
                   => \A c \in issued : c.user = u /\ Accepts(c)' =>
                         \/ session[c.sid].ttl <= HalfSecond
                         \/ DeleteOthersByUser(u, spared) /\ c.sid = spared
<1>1. StoreInv /\ [Next]_vars => [A]_vars
  BY BulkDeletionStep
<1> QED
  BY <1>1, StoreInvariant, PTL DEF Spec, BulkDeletionsReachAll

----------------------------------------------------------------------------
(* The store implements AccessGrants. *)

\* Every step of the store is a step of the abstract specification, or leaves
\* issued, honoured and blocked unchanged.
LEMMA RefinementStep ==
    ASSUME StoreInv, Next
    PROVE  Grants!Next
<1> USE DEF Honoured
<1>1. issued \subseteq Claims
  BY DEF StoreInv, TypeOK
<1>2. ASSUME NEW d \in Claims, Create(d) PROVE Grants!Next
  <2>1. d.user \notin BlockedUsers /\ issued' = issued \cup {d}
    BY <1>2 DEF Create, MayCreate, BlockedUsers
  <2>2. /\ \A c \in issued : Accepts(c)' <=> Accepts(c)
        /\ Accepts(d)'
        /\ BlockedUsers' = BlockedUsers
    BY <1>2, CreateAccepts
  <2>3. Honoured' = Honoured \cup {d}
    BY <2>1, <2>2
  <2>4. (\A c \in issued : c.sid # d.sid) /\ (\A c \in issued : c.jti # d.jti)
    BY <1>2 DEF Create, FreshSession, FreshJTI
  <2>5. Grants!Grant(d)
    BY <2>1, <2>2, <2>3, <2>4 DEF Grants!Grant, Grants!Unused
  <2> QED
    BY <2>5 DEF Grants!Next, Grants!Identities, Claims
<1>3. ASSUME NEW d \in issued, NEW j \in JTIs, Rotate(d, j)
      PROVE  Grants!Next
  <2> DEFINE e == [d EXCEPT !.jti = j]
  <2>1. /\ Accepts(d) /\ issued' = issued \cup {e}
        /\ BlockedUsers' = BlockedUsers
        /\ \A c \in issued : c.jti # j
    BY <1>3 DEF Rotate, BlockedUsers, FreshJTI
  <2>2. (\A c \in issued : Accepts(c)' <=> Accepts(c) /\ c # d) /\ Accepts(e)'
    BY <1>3, RotateAccepts
  <2>3. e # d
    BY <1>1, <2>1 DEF Claims
  <2> HIDE DEF e
  <2>4. Honoured' = (Honoured \ {d}) \cup {e}
    BY <2>1, <2>2, <2>3
  <2>5. Grants!Renew(d, j)
    BY <2>1, <2>4 DEF Grants!Renew, Grants!Unused, e
  <2> QED
    BY <1>1, <2>5 DEF Grants!Next, Grants!Identities, Claims
<1>4. ASSUME Vanishing PROVE Grants!Next
  <2>1. issued' = issued /\ Honoured' \subseteq Honoured
    BY <1>4, VanishingSteps, VanishAccepts DEF StoreInv, KeysOnlyVanish
  <2>2. CASE BlockedUsers' = BlockedUsers
    BY <2>1, <2>2 DEF Grants!Next, Grants!Withdraw
  <2>3. ASSUME NEW u \in Users, BlockAndDeleteAllByUser(u) PROVE Grants!Next
    <3>1. /\ access \in [Users -> [blocked: BOOLEAN, gen: 0..MaxGeneration]]
          /\ access' = [access EXCEPT ![u] = [blocked |-> TRUE,
                                              gen |-> NextGeneration(u)]]
      BY <2>3 DEF BlockAndDeleteAllByUser, StoreInv, TypeOK
    <3>2. /\ access'[u].blocked
          /\ \A v \in Users : v # u => access'[v] = access[v]
      BY <3>1
    <3>3. BlockedUsers' = BlockedUsers \cup {u}
      BY <3>2 DEF BlockedUsers
    <3>4. ASSUME NEW c \in issued
          PROVE  Accepts(c)' <=> Accepts(c) /\ c.user # u
      <4>1. c.user \in Users /\ c.sid \in Sessions /\ c.jti \in JTIs
        BY <1>1 DEF Claims
      <4>2. CASE c.user = u
        BY <3>2, <4>2 DEF Accepts, AccessOpen
      <4>3. CASE c.user # u
        <5>1. ASSUME Accepts(c) PROVE Accepts(c)'
          <6>1. /\ session[c.sid].user = c.user
                /\ jtiKey[c.jti].sid = c.sid
                /\ session[c.sid].jti = c.jti
            BY <5>1 DEF Accepts, Resolves
          <6>2. session'[c.sid] = session[c.sid]
            BY <2>3, <4>1, <4>3, <6>1
               DEF BlockAndDeleteAllByUser, DelSessions, OwnedIndexed
          <6>3. jtiKey'[c.jti] = jtiKey[c.jti]
            BY <2>3, <4>1, <4>3, <6>1 DEF BlockAndDeleteAllByUser, DelJTIs,
               MappedJTIs, OwnedIndexed
          <6> QED
            BY <3>2, <4>1, <4>3, <5>1, <6>1, <6>2, <6>3
               DEF Accepts, Resolves, AccessOpen, Live, JTILive
        <5> QED
          BY <1>4, <4>3, <5>1, VanishAccepts
      <4> QED
        BY <4>2, <4>3
    <3>5. Honoured' = Honoured \ {c \in Honoured : c.user = u}
      BY <2>1, <3>4
    <3>6. Grants!Block(u)
      BY <2>1, <3>3, <3>5 DEF Grants!Block, Grants!Of
    <3> QED
      BY <3>6 DEF Grants!Next
  <2>4. ASSUME NEW u \in Users, UnblockUser(u) PROVE Grants!Next
    <3>1. access \in [Users -> [blocked: BOOLEAN, gen: 0..MaxGeneration]]
      BY DEF StoreInv, TypeOK
    <3>2. /\ ~access'[u].blocked
          /\ access'[u].gen = access[u].gen
          /\ \A v \in Users : v # u => access'[v] = access[v]
          /\ session' = session /\ jtiKey' = jtiKey
      BY <2>4, <3>1 DEF UnblockUser
    <3>3. BlockedUsers' = BlockedUsers \ {u}
      BY <3>2 DEF BlockedUsers
    <3>4. ASSUME NEW c \in issued, Accepts(c) PROVE Accepts(c)'
      <4>1. c.user \in Users
        BY <1>1 DEF Claims
      <4> QED
        BY <3>2, <3>4, <4>1 DEF Accepts, Resolves, AccessOpen, Live, JTILive
    <3>5. Honoured' = Honoured
      BY <2>1, <3>4
    <3>6. Grants!Unblock(u)
      BY <2>1, <3>3, <3>5 DEF Grants!Unblock
    <3> QED
      BY <3>6 DEF Grants!Next
  <2>5. CASE DataLoss
    <3>1. \A u \in Users : access'[u] = NoAccess
      BY <2>5 DEF DataLoss
    <3>2. BlockedUsers' = {}
      BY <3>1 DEF BlockedUsers, NoAccess
    <3>3. Honoured' = {}
      <4>1. \A c \in issued : c.user \in Users
        BY <1>1 DEF Claims
      <4> QED
        BY <2>1, <3>1, <4>1 DEF Accepts, AccessOpen, NoAccess
    <3> QED
      BY <2>1, <3>2, <3>3 DEF Grants!Next, Grants!Forget
  <2>6. CASE access' = access
    BY <2>2, <2>6 DEF BlockedUsers
  <2> QED
    BY <1>4, <2>3, <2>4, <2>5, <2>6
       DEF Vanishing, FindByJTI, RotateDangling, DeleteByUser, Delete,
           DeleteAllByUser, DeleteOthersByUser, ListByUser,
           DeleteOrphanSessions, Tick
<1> QED
  BY <1>2, <1>3, <1>4, StepKinds

\* The Redis scripts implement the abstract access-grant specification: what
\* get_session_by_jti.lua accepts behaves as the set of honoured identities.
THEOREM Refinement == Spec => ImplementsAccessGrants
<1>1. Init => Grants!Init
  BY DEF Init, Grants!Init, Honoured, BlockedUsers, NoAccess
<1>2. StoreInv /\ [Next]_vars => [Grants!Next]_(Grants!grants)
  <2>1. CASE Next
    BY <2>1, RefinementStep
  <2>2. CASE UNCHANGED vars
    BY <2>2 DEF vars, Grants!grants, Honoured, BlockedUsers, Accepts,
                Resolves, AccessOpen, Live, JTILive
  <2> QED
    BY <2>1, <2>2
<1> QED
  BY <1>1, <1>2, StoreInvariant, PTL DEF Spec, ImplementsAccessGrants, Grants!Spec

----------------------------------------------------------------------------
(* Part two: the account workflows. *)

HIDE StoreAssumption
USE AccountAssumption

\* Every step of a request is a step of the session store or leaves it alone.
LEMMA StoreStep ==
    ASSUME AccountInv, [AccountNext]_accountVars
    PROVE  [Next]_vars
<1> USE DEF vars, store, StoreInv, AccountInv
<1>1. ASSUME NEW p \in Clients, ClientStep(p) PROVE [Next]_vars
  <2> p \in Procs
    BY DEF Procs
  <2>1. CASE LoginCreate(p)
    <3>1. PICK s \in Sessions, j \in JTIs :
             Create([user |-> req[p].user, sid |-> s, jti |-> j,
                     cred |-> req[p].cred])
      BY <2>1 DEF LoginCreate
    <3>2. req[p].user \in Users /\ req[p].cred \in Versions
      BY <2>1 DEF LoginCreate, RequestsOK, At
    <3> DEFINE c == [user |-> req[p].user, sid |-> s, jti |-> j,
                     cred |-> req[p].cred]
    <3>3. c \in Claims /\ c.user \in Users
      BY <3>2 DEF Claims
    <3> QED
      BY <3>1, <3>3 DEF Next, UserStep
  <2>2. CASE LoginUndo(p)
    <3>1. /\ req[p].user \in Users
          /\ req[p].claim \in Claims
      BY <2>2 DEF LoginUndo, RequestsOK, At, Presenting, TypeOK
    <3>2. {req[p].claim.sid} \in SUBSET Sessions
      BY <3>1 DEF Claims
    <3> QED
      BY <2>2, <3>1, <3>2 DEF LoginUndo, Next, UserStep
  <2>3. CASE RefreshRotate(p) \/ RefreshRefused(p)
    <3>1. req[p].claim \in issued /\ req[p].claim.user \in Users
      BY <2>3 DEF RefreshRotate, RefreshRefused, RequestsOK, At, Presenting
    <3> QED
      BY <2>3, <3>1 DEF RefreshRotate, RefreshRefused, Next, UserStep
  <2>4. CASE DeleteSessions(p) \/ RemoveOthers(p) \/ GetSessionsByUser(p)
             \/ PasswordCleanup(p)
    <3>1. /\ req[p].user \in Users
          /\ req[p].claim \in Claims
          /\ req[p].claim.user = req[p].user
      BY <2>4 DEF DeleteSessions, RemoveOthers, GetSessionsByUser,
                  PasswordCleanup, RequestsOK, At, Presenting, TypeOK
    <3>2. req[p].claim.sid \in Sessions
      BY <3>1 DEF Claims
    <3> QED
      BY <2>4, <3>1, <3>2 DEF DeleteSessions, RemoveOthers,
         GetSessionsByUser, PasswordCleanup, Next, UserStep
  <2> QED
    BY <1>1, <2>1, <2>2, <2>3, <2>4
       DEF ClientStep, LoginLookup, LoginSecurityState, LoginBlocked,
           LoginToken, RefreshValidate, RefreshSecurityState, PasswordCommit
<1>2. ASSUME NEW p \in Managers, ManagerStep(p) PROVE [Next]_vars
  <2> p \in Procs
    BY DEF Procs
  <2>1. CASE StatusBlock(p) \/ StatusUnblock(p) \/ DeleteBlock(p)
    <3>1. req[p].user \in Users
      BY <2>1 DEF StatusBlock, StatusUnblock, DeleteBlock, RequestsOK, At
    <3> QED
      BY <2>1, <3>1 DEF StatusBlock, StatusUnblock, DeleteBlock, BlockThen,
                        Next, UserStep
  <2> QED
    BY <1>2, <2>1 DEF ManagerStep, StatusRead, StatusCAS, DeleteCheck,
                      SelfDeleteCheck, DeleteRow
<1>3. ASSUME NEW p \in Procs, RequestStep(p) PROVE [Next]_vars
  BY <1>3 DEF RequestStep, Required, FreshIdentity, Abort
<1>4. ASSUME NEW u \in Users, CreateUser(u) \/ UpdateUser(u)
      PROVE  [Next]_vars
  BY <1>4 DEF CreateUser, UpdateUser
<1>5. ASSUME NEW c \in issued, ValidateRefused(c) PROVE [Next]_vars
  <2>1. c.user \in Users
    BY DEF TypeOK, Claims
  <2> QED
    BY <1>5, <2>1 DEF ValidateRefused, Next, UserStep
<1>6. CASE UNCHANGED accountVars
  BY <1>6 DEF accountVars
<1> QED
  BY <1>1, <1>2, <1>3, <1>4, <1>5, <1>6
     DEF AccountNext, Next, UserStep, LoseData

----------------------------------------------------------------------------
(* What a request knows. *)

\* A well-formed request at a step that has these facts.
GoodRequest(r) ==
    /\ r \in [pc: PCs, user: Users \cup {Nil},
              cred: Versions \cup {0}, claim: Claims \cup {Nil}]
    /\ r.pc # "idle" => r.user \in Users
    /\ r.pc \in {"login_state", "login_create"} => r.cred \in Versions
    /\ r.pc \in Presenting => r.claim \in issued /\ r.claim.user = r.user

\* The type of the req variable.
ReqType == [Procs -> [pc: PCs, user: Users \cup {Nil},
                      cred: Versions \cup {0}, claim: Claims \cup {Nil}]]

\* A step that leaves every request but p's alone, and p's well formed, keeps
\* all of them well formed; identities are never un-issued.
LEMMA OneRequest ==
    ASSUME RequestsOK, req \in ReqType, issued \subseteq issued',
           NEW p \in Procs,
           req' = [req EXCEPT ![p] = req'[p]],
           GoodRequest(req[p])'
    PROVE  RequestsOK' /\ req' \in ReqType
  BY DEF RequestsOK, ReqType, GoodRequest, At

\* A client's step leaves its request well formed.
LEMMA ClientRequest ==
    ASSUME AccountInv, issued' \in SUBSET Claims, issued \subseteq issued',
           NEW p \in Clients, ClientStep(p)
    PROVE  /\ req' = [req EXCEPT ![p] = req'[p]]
           /\ GoodRequest(req[p])'
<1> p \in Procs
  BY DEF Procs
<1>0. req \in ReqType /\ GoodRequest(req[p]) /\ p \in DOMAIN req
  BY DEF AccountInv, AccountTypeOK, RequestsOK, GoodRequest, At, ReqType
<1>1. ASSUME End(p) PROVE req' = [req EXCEPT ![p] = req'[p]]
                          /\ GoodRequest(req[p])'
  BY <1>0, <1>1 DEF End, Idle, GoodRequest, ReqType, PCs, Presenting
<1>2. ASSUME NEW u \in Users, LoginLookup(p, u)
      PROVE req' = [req EXCEPT ![p] = req'[p]] /\ GoodRequest(req[p])'
  BY <1>0, <1>2 DEF LoginLookup, Start, Idle, GoodRequest, ReqType, PCs,
                    Presenting, AccountInv, AccountTypeOK
<1>3. ASSUME LoginSecurityState(p), ~End(p)
      PROVE req' = [req EXCEPT ![p] = req'[p]] /\ GoodRequest(req[p])'
  BY <1>0, <1>3 DEF LoginSecurityState, Goto, At, GoodRequest, ReqType, PCs,
                    Presenting
<1>4. ASSUME LoginCreate(p)
      PROVE req' = [req EXCEPT ![p] = req'[p]] /\ GoodRequest(req[p])'
  <2>1. PICK s \in Sessions, j \in JTIs :
          LET c == [user |-> req[p].user, sid |-> s, jti |-> j,
                    cred |-> req[p].cred]
          IN  /\ Create(c)
              /\ req' = [req EXCEPT ![p].pc = "login_token", ![p].claim = c]
    BY <1>4 DEF LoginCreate
  <2> DEFINE c == [user |-> req[p].user, sid |-> s, jti |-> j,
                   cred |-> req[p].cred]
  <2>2. c \in issued' /\ c.user = req[p].user
    BY <2>1 DEF Create
  <2> HIDE DEF c
  <2>3. req' = [req EXCEPT ![p].pc = "login_token", ![p].claim = c]
    BY <2>1 DEF c
  <2>4. req[p].user \in Users
    BY <1>0, <1>4 DEF LoginCreate, GoodRequest, At
  <2> QED
    BY <1>0, <2>2, <2>3, <2>4 DEF GoodRequest, ReqType, PCs, Presenting
<1>5. ASSUME NEW c \in issued, RefreshValidate(p, c)
      PROVE req' = [req EXCEPT ![p] = req'[p]] /\ GoodRequest(req[p])'
  <2>1. c \in Claims /\ c.user \in Users
    BY DEF AccountInv, StoreInv, TypeOK, Claims
  <2> QED
    BY <1>0, <1>5, <2>1 DEF RefreshValidate, Start, Idle, GoodRequest,
       ReqType, PCs, Presenting
<1>6. ASSUME RefreshSecurityState(p) \/ PasswordCommit(p), ~End(p)
      PROVE req' = [req EXCEPT ![p] = req'[p]] /\ GoodRequest(req[p])'
  BY <1>0, <1>6 DEF RefreshSecurityState, PasswordCommit, Goto, At,
                    GoodRequest, ReqType, PCs, Presenting
<1> QED
  BY <1>1, <1>2, <1>3, <1>4, <1>5, <1>6
     DEF ClientStep, LoginBlocked, LoginToken, LoginUndo, RefreshRotate,
         RefreshRefused, DeleteSessions, RemoveOthers, GetSessionsByUser,
         PasswordCleanup

\* A manager's step leaves its request well formed.
LEMMA ManagerRequest ==
    ASSUME AccountInv, NEW p \in Managers, ManagerStep(p)
    PROVE  /\ req' = [req EXCEPT ![p] = req'[p]]
           /\ GoodRequest(req[p])'
<1> p \in Procs
  BY DEF Procs
<1> USE DEF GoodRequest, ReqType, PCs, Presenting, Idle
<1>0. req \in ReqType /\ GoodRequest(req[p])
  BY DEF AccountInv, AccountTypeOK, RequestsOK, At
<1>1. ASSUME End(p) PROVE req' = [req EXCEPT ![p] = req'[p]]
                          /\ GoodRequest(req[p])'
  BY <1>0, <1>1 DEF End
<1>2. ASSUME NEW u \in Users, NEW to \in Statuses, StatusRead(p, u, to)
      PROVE req' = [req EXCEPT ![p] = req'[p]] /\ GoodRequest(req[p])'
  <2>1. AfterStatusRead(row[u].status) \in
           {"activate_cas", "status_block", "status_unblock"}
    BY <1>2 DEF StatusRead, CanTransitionTo, AfterStatusRead
  <2> QED
    BY <1>0, <1>2, <2>1 DEF StatusRead, Start
<1>3. ASSUME StatusBlock(p) \/ StatusUnblock(p) \/ DeleteBlock(p), ~End(p)
      PROVE req' = [req EXCEPT ![p] = req'[p]] /\ GoodRequest(req[p])'
  BY <1>0, <1>3 DEF StatusBlock, StatusUnblock, DeleteBlock, BlockThen, Goto,
                    At
<1>4. ASSUME NEW u \in Users, DeleteCheck(p, u)
      PROVE req' = [req EXCEPT ![p] = req'[p]] /\ GoodRequest(req[p])'
  BY <1>0, <1>4 DEF DeleteCheck, Start, DeleteRequest
<1>5. ASSUME SelfDeleteCheck(p)
      PROVE req' = [req EXCEPT ![p] = req'[p]] /\ GoodRequest(req[p])'
  BY <1>0, <1>5 DEF SelfDeleteCheck, At, DeleteRequest
<1> QED
  BY <1>1, <1>2, <1>3, <1>4, <1>5
     DEF ManagerStep, StatusBlock, StatusUnblock, DeleteBlock, StatusCAS,
         DeleteRow

\* So does a step of the kind both take.
LEMMA CommonRequest ==
    ASSUME AccountInv, NEW p \in Procs, RequestStep(p)
    PROVE  /\ req' = [req EXCEPT ![p] = req'[p]]
           /\ GoodRequest(req[p])'
<1> USE DEF GoodRequest, ReqType, PCs, Presenting, Idle
<1>0. req \in ReqType /\ GoodRequest(req[p])
  BY DEF AccountInv, AccountTypeOK, RequestsOK, At
<1>1. issued' = issued
  BY DEF RequestStep, Required, FreshIdentity, Abort
<1>2. ASSUME End(p) PROVE req' = [req EXCEPT ![p] = req'[p]]
                          /\ GoodRequest(req[p])'
  BY <1>0, <1>2 DEF End
<1>3. ASSUME NEW c \in issued, Required(p, c)
      PROVE req' = [req EXCEPT ![p] = req'[p]] /\ GoodRequest(req[p])'
  <2>1. c \in Claims /\ c.user \in Users
    BY DEF AccountInv, StoreInv, TypeOK, Claims
  <2> QED
    BY <1>0, <1>1, <1>3, <2>1 DEF Required, Start
<1>4. ASSUME FreshIdentity(p), ~End(p)
      PROVE req' = [req EXCEPT ![p] = req'[p]] /\ GoodRequest(req[p])'
  BY <1>0, <1>1, <1>4 DEF FreshIdentity, Goto, At
<1> QED
  BY <1>2, <1>3, <1>4 DEF RequestStep, Abort

\* The rows stay well formed.
LEMMA RowType ==
    ASSUME AccountInv, [AccountNext]_accountVars
    PROVE  row' \in [Users -> [status: Statuses, ver: Versions]]
<1> USE DEF AccountInv, AccountTypeOK, Statuses
<1>1. ASSUME NEW u \in Users, AdvanceCredential(u)
      PROVE  row' \in [Users -> [status: Statuses, ver: Versions]]
  BY <1>1 DEF AdvanceCredential
<1>2. ASSUME NEW p \in Procs, StatusCAS(p) \/ DeleteRow(p)
      PROVE  row' \in [Users -> [status: Statuses, ver: Versions]]
  BY <1>2 DEF StatusCAS, UpdateStatus, DeleteRow
<1>3. ASSUME NEW p \in Procs, PasswordCommit(p)
      PROVE  row' \in [Users -> [status: Statuses, ver: Versions]]
  <2>1. req[p].user \in Users
    BY <1>3 DEF PasswordCommit, RequestsOK, At
  <2> QED
    BY <1>1, <1>3, <2>1 DEF PasswordCommit
<1>4. ASSUME NEW u \in Users, CreateUser(u)
      PROVE  row' \in [Users -> [status: Statuses, ver: Versions]]
  BY <1>4 DEF CreateUser
<1>5. ASSUME NEW u \in Users, UpdateUser(u)
      PROVE  row' \in [Users -> [status: Statuses, ver: Versions]]
  BY <1>1, <1>5 DEF UpdateUser
<1>6. CASE UNCHANGED row
  BY <1>6
<1> QED
  BY <1>2, <1>3, <1>4, <1>5, <1>6
     DEF AccountNext, accountVars, Procs, ClientStep, ManagerStep,
         RequestStep, LoginLookup, LoginSecurityState, LoginCreate,
         LoseData, LoginBlocked, LoginToken, LoginUndo, RefreshValidate,
         RefreshSecurityState, RefreshRotate, RefreshRefused, DeleteSessions,
         RemoveOthers, GetSessionsByUser, PasswordCleanup, StatusRead,
         StatusBlock, StatusUnblock, DeleteCheck, SelfDeleteCheck,
         DeleteBlock, Required, FreshIdentity, Abort, ValidateRefused

\* The torn accounts are accounts.
LEMMA TornType ==
    ASSUME AccountInv, [AccountNext]_accountVars PROVE torn' \in SUBSET Users
<1>0. torn \in SUBSET Users
  BY DEF AccountInv, AccountTypeOK
<1>1. ASSUME NEW p \in Procs, Abort(p) PROVE torn' \in SUBSET Users
  BY <1>0, <1>1 DEF Abort, BetweenStores, AccountInv, RequestsOK, At
<1>2. ASSUME torn' \subseteq torn PROVE torn' \in SUBSET Users
  BY <1>0, <1>2
<1>3. CASE LoseData
  BY <1>0, <1>3 DEF LoseData
<1>4. ASSUME NEW p \in Procs,
             StatusBlock(p) \/ StatusUnblock(p) \/ DeleteBlock(p)
      PROVE  torn' \in SUBSET Users
  <2>1. req[p].user \in Users
    BY <1>4 DEF StatusBlock, StatusUnblock, DeleteBlock, AccountInv,
                RequestsOK, At
  <2>2. torn' \subseteq torn \cup {req[p].user}
    BY <1>4 DEF StatusBlock, StatusUnblock, DeleteBlock, BlockThen,
                WriteRedis
  <2> QED
    BY <1>0, <2>1, <2>2
<1> QED
  BY <1>1, <1>2, <1>3, <1>4
     DEF AccountNext, accountVars, Procs, ClientStep, ManagerStep,
         RequestStep, LoginLookup, LoginSecurityState, LoginCreate,
         LoginBlocked, LoginToken, LoginUndo, RefreshValidate,
         RefreshSecurityState, RefreshRotate, RefreshRefused, DeleteSessions,
         RemoveOthers, GetSessionsByUser, PasswordCommit, PasswordCleanup,
         StatusRead, StatusBlock, StatusUnblock, BlockThen, StatusCAS,
         DeleteCheck, SelfDeleteCheck, DeleteBlock, DeleteRow, Required,
         FreshIdentity, ValidateRefused, CreateUser, UpdateUser

\* Identities are never un-issued.
LEMMA IssuedGrows == ASSUME [Next]_vars PROVE issued \subseteq issued'
  BY DEF Next, UserStep, vars, Create, FindByJTI, Rotate, RotateDangling,
         DeleteByUser, DeleteAllByUser, DeleteOthersByUser,
         BlockAndDeleteAllByUser, UnblockUser, ListByUser,
         DeleteOrphanSessions, Delete, Tick, DataLoss

\* The combined invariant is inductive.
LEMMA AccountInvStep ==
    AccountInv /\ [AccountNext]_accountVars => AccountInv'
<1> SUFFICES ASSUME AccountInv, [AccountNext]_accountVars PROVE AccountInv'
  OBVIOUS
<1>1. StoreInv' /\ issued \subseteq issued' /\ issued' \in SUBSET Claims
  BY StoreStep, StoreInvStep, IssuedGrows DEF AccountInv, StoreInv, TypeOK
<1>2. req \in ReqType /\ RequestsOK
  BY DEF AccountInv, AccountTypeOK, ReqType
<1>3. RequestsOK' /\ req' \in ReqType
  <2>1. ASSUME NEW p \in Clients, ClientStep(p)
        PROVE  RequestsOK' /\ req' \in ReqType
    BY <1>1, <1>2, <2>1, ClientRequest, OneRequest DEF Procs
  <2>2. ASSUME NEW p \in Managers, ManagerStep(p)
        PROVE  RequestsOK' /\ req' \in ReqType
    BY <1>1, <1>2, <2>2, ManagerRequest, OneRequest DEF Procs
  <2>3. ASSUME NEW p \in Procs, RequestStep(p)
        PROVE  RequestsOK' /\ req' \in ReqType
    BY <1>1, <1>2, <2>3, CommonRequest, OneRequest
  <2>4. ASSUME UNCHANGED req PROVE RequestsOK' /\ req' \in ReqType
    BY <1>1, <1>2, <2>4 DEF RequestsOK, At
  <2> QED
    BY <2>1, <2>2, <2>3, <2>4
       DEF AccountNext, accountVars, CreateUser, UpdateUser, ValidateRefused,
           LoseData
<1> QED
  BY <1>1, <1>3, RowType, TornType DEF AccountInv, AccountTypeOK, ReqType

\* The initial states satisfy it.
LEMMA AccountInvInit == AccountInit => AccountInv
  BY StoreInvInit DEF AccountInit, AccountInv, AccountTypeOK, RequestsOK,
     At, Idle, Statuses, PCs, Presenting

\* Requests are well formed at every step, and the session store keeps all of
\* its invariants under the workflows.
LEMMA AccountInvariant == AccountSpec => []AccountInv
  BY AccountInvInit, AccountInvStep, PTL DEF AccountSpec

\* The rows and the requests keep their types.
THEOREM AccountTypeCorrect == AccountSpec => []AccountTypeOK
<1>1. AccountInv => AccountTypeOK
  BY DEF AccountInv
<1> QED
  BY <1>1, AccountInvariant, PTL

\* The workflows use the store only through its operations: every behaviour
\* of the composition is a behaviour of SessionStore, so each theorem about
\* the store (coverage, fence, no resurrection, the refinement of
\* AccessGrants) holds of the running program.
THEOREM WorkflowsUseStore == AccountSpec => Spec
<1>1. AccountInit => Init
  BY DEF AccountInit
<1>2. AccountInv /\ [AccountNext]_accountVars => [Next]_vars
  BY StoreStep
<1> QED
  BY <1>1, <1>2, AccountInvariant, PTL DEF AccountSpec, Spec

\* What the store promises by itself it promises under any mix of requests:
\* the workflows never use it in a way its theorems do not cover.
THEOREM WorkflowsKeepStorePromises ==
    AccountSpec => /\ [](IndexCoverage /\ OneLiveJTIPerSession /\ GenerationFence)
                   /\ NoResurrection
                   /\ OwnershipIsolation
                   /\ BulkDeletionsReachAll
                   /\ ImplementsAccessGrants
  BY WorkflowsUseStore, IndexCoverageHolds, OneLiveJTIPerSessionHolds,
     GenerationFenceHolds, NoResurrectionHolds, OwnershipIsolationHolds,
     BulkDeletionsReachAllHolds, Refinement, PTL

\* A password change that comes to its cleanup (ChangePassword) leaves the
\* account without an accepted identity, whatever was issued before its commit
\* or after it, except in the last half second of a session; and by
\* NoResurrection none of them is ever accepted again.
THEOREM PasswordChangeEndsSessions ==
    AccountSpec =>
        [][\A p \in Clients : PasswordCleanup(p) =>
              \A c \in issued : c.user = req[p].user /\ Accepts(c)' =>
                  session[c.sid].ttl <= HalfSecond]_accountVars
<1>1. ASSUME AccountInv, NEW p \in Clients, PasswordCleanup(p),
             NEW c \in issued, c.user = req[p].user, Accepts(c)'
      PROVE  session[c.sid].ttl <= HalfSecond
  <2> DEFINE u == req[p].user
  <2>1. StoreInv /\ u \in Users /\ DeleteAllByUser(u)
    BY <1>1 DEF PasswordCleanup, AccountInv, RequestsOK, At, Procs
  <2>2. Accepts(c)
    BY <1>1, <2>1, VanishAccepts DEF Vanishing
  <2>3. DelSessions(OwnedIndexed(u))
    BY <2>1 DEF DeleteAllByUser
  <2> QED
    BY <1>1, <2>1, <2>2, <2>3, AcceptedIsIndexed, DeletedIsRefused
<1>2. AccountInv /\ [AccountNext]_accountVars =>
        [\A p \in Clients : PasswordCleanup(p) =>
            \A c \in issued : c.user = req[p].user /\ Accepts(c)' =>
                session[c.sid].ttl <= HalfSecond]_accountVars
  BY <1>1
<1> QED
  BY <1>2, AccountInvariant, PTL DEF AccountSpec

----------------------------------------------------------------------------
(* A password change is a boundary for what is issued. *)

\* A step drains: it keeps every drained version drained and issues nothing
\* with it.
Drains ==
    \A u \in Users, v \in Versions : Drained(u, v) =>
        /\ Drained(u, v)'
        /\ \A c \in issued' \ issued : c.user = u => c.cred # v

\* Credential versions only grow.
LEMMA VersionsGrow ==
    ASSUME AccountInv, [AccountNext]_accountVars, NEW u \in Users
    PROVE  row[u].ver \in Nat /\ row'[u].ver \in Nat /\ row[u].ver <= row'[u].ver
<1> USE DEF AccountInv, AccountTypeOK
<1>0. row[u].ver \in Nat
  BY StoreAssumption
<1>1. ASSUME NEW v \in Users, AdvanceCredential(v)
      PROVE  row'[u].ver \in Nat /\ row[u].ver <= row'[u].ver
  BY <1>0, <1>1 DEF AdvanceCredential
<1>2. ASSUME NEW p \in Procs, StatusCAS(p) \/ DeleteRow(p)
      PROVE  row'[u].ver \in Nat /\ row[u].ver <= row'[u].ver
  BY <1>0, <1>2 DEF StatusCAS, UpdateStatus, DeleteRow
<1>3. ASSUME NEW v \in Users, CreateUser(v)
      PROVE  row'[u].ver \in Nat /\ row[u].ver <= row'[u].ver
  BY <1>0, <1>3 DEF CreateUser
<1>4. ASSUME NEW p \in Procs, PasswordCommit(p)
      PROVE  row'[u].ver \in Nat /\ row[u].ver <= row'[u].ver
  <2>1. req[p].user \in Users
    BY <1>4 DEF PasswordCommit, RequestsOK, At
  <2> QED
    BY <1>0, <1>1, <1>4, <2>1 DEF PasswordCommit
<1>5. CASE UNCHANGED row
  BY <1>0, <1>5
<1>6. ASSUME NEW v \in Users, UpdateUser(v)
      PROVE  row'[u].ver \in Nat /\ row[u].ver <= row'[u].ver
  BY <1>1, <1>6 DEF UpdateUser
<1> HIDE DEF AccountInv, AccountTypeOK
<1> QED
  BY <1>0, <1>2, <1>3, <1>4, <1>5, <1>6
     DEF AccountNext, accountVars, Procs, ClientStep, ManagerStep,
         RequestStep, LoginLookup, LoginSecurityState, LoginCreate,
         LoseData, LoginBlocked, LoginToken, LoginUndo, RefreshValidate,
         RefreshSecurityState, RefreshRotate, RefreshRefused, DeleteSessions,
         RemoveOthers, GetSessionsByUser, PasswordCleanup, StatusRead,
         StatusBlock, StatusUnblock, DeleteCheck, SelfDeleteCheck,
         DeleteBlock, Required, FreshIdentity, Abort, ValidateRefused

\* What a request that is about to write was admitted with.
AboutToWrite(p, u, v) ==
    /\ req[p].user = u
    /\ \/ At(p, "login_create") /\ req[p].cred = v
       \/ At(p, "refresh_rotate") /\ req[p].claim.cred = v

\* A request comes to write only with the version the row has.
LEMMA AdmittedCurrent ==
    ASSUME AccountInv, [AccountNext]_accountVars, NEW p \in Procs,
           NEW u, NEW v, AboutToWrite(p, u, v)'
    PROVE  AboutToWrite(p, u, v) \/ v = row[u].ver
<1> USE DEF AboutToWrite, At
<1>0. req \in ReqType
  BY DEF AccountInv, AccountTypeOK, ReqType
<1> USE DEF ReqType
<1>1. ASSUME NEW q \in Procs, End(q)
      PROVE  AboutToWrite(p, u, v) \/ v = row[u].ver
  BY <1>0, <1>1 DEF End, Idle
<1>2. ASSUME NEW q \in Procs, NEW w, LoginLookup(q, w)
      PROVE  AboutToWrite(p, u, v) \/ v = row[u].ver
  BY <1>0, <1>2 DEF LoginLookup, Start, Idle
<1>3. ASSUME NEW q \in Procs, LoginSecurityState(q)
      PROVE  AboutToWrite(p, u, v) \/ v = row[u].ver
  BY <1>0, <1>1, <1>3 DEF LoginSecurityState, Current, Goto
<1>4. ASSUME NEW q \in Procs, LoginCreate(q)
      PROVE  AboutToWrite(p, u, v) \/ v = row[u].ver
  BY <1>0, <1>4 DEF LoginCreate
<1>5. ASSUME NEW q \in Procs, NEW c, RefreshValidate(q, c) \/ Required(q, c)
      PROVE  AboutToWrite(p, u, v) \/ v = row[u].ver
  BY <1>0, <1>5 DEF RefreshValidate, Required, Start, Idle
<1>6. ASSUME NEW q \in Procs, RefreshSecurityState(q)
      PROVE  AboutToWrite(p, u, v) \/ v = row[u].ver
  BY <1>0, <1>1, <1>6 DEF RefreshSecurityState, Current, Goto
<1>7. ASSUME NEW q \in Procs, NEW pc \in PCs \ {"login_create", "refresh_rotate"},
             Goto(q, pc)
      PROVE  AboutToWrite(p, u, v) \/ v = row[u].ver
  BY <1>0, <1>7 DEF Goto
<1>8. ASSUME NEW q \in Procs, NEW w, NEW to,
             StatusRead(q, w, to) \/ DeleteCheck(q, w) \/ SelfDeleteCheck(q)
      PROVE  AboutToWrite(p, u, v) \/ v = row[u].ver
  <2>1. ASSUME StatusRead(q, w, to)
        PROVE  AfterStatusRead(row[w].status) \in
                 {"activate_cas", "status_block", "status_unblock"}
    BY <2>1 DEF StatusRead, CanTransitionTo, AfterStatusRead
  <2>2. CASE StatusRead(q, w, to)
    BY <1>0, <2>1, <2>2 DEF StatusRead, Start, Idle
  <2>3. CASE DeleteCheck(q, w)
    BY <1>0, <2>3 DEF DeleteCheck, Start, DeleteRequest, Idle
  <2>4. CASE SelfDeleteCheck(q)
    BY <1>0, <2>4 DEF SelfDeleteCheck, DeleteRequest, Idle
  <2> QED
    BY <1>8, <2>2, <2>3, <2>4
<1>9. CASE UNCHANGED req
  BY <1>9
<1> HIDE DEF AboutToWrite
<1>10. ASSUME NEW q \in Clients, ClientStep(q)
       PROVE  AboutToWrite(p, u, v) \/ v = row[u].ver
  BY <1>1, <1>2, <1>3, <1>4, <1>5, <1>6, <1>7, <1>10
     DEF ClientStep, Procs, PCs, LoginBlocked, LoginToken, LoginUndo,
         RefreshRotate, RefreshRefused, DeleteSessions, RemoveOthers,
         GetSessionsByUser, PasswordCommit, PasswordCleanup
<1>11. ASSUME NEW q \in Managers, ManagerStep(q)
       PROVE  AboutToWrite(p, u, v) \/ v = row[u].ver
  BY <1>1, <1>7, <1>8, <1>11
     DEF ManagerStep, Procs, PCs, StatusBlock, StatusUnblock, DeleteBlock,
         BlockThen, StatusCAS, DeleteRow
<1>12. ASSUME NEW q \in Procs, RequestStep(q)
       PROVE  AboutToWrite(p, u, v) \/ v = row[u].ver
  BY <1>1, <1>5, <1>7, <1>12 DEF RequestStep, PCs, FreshIdentity, Abort
<1> QED
  BY <1>9, <1>10, <1>11, <1>12
     DEF AccountNext, accountVars, CreateUser, UpdateUser, ValidateRefused,
         LoseData

\* Every new identity comes from such a request.
LEMMA IssuedByRequest ==
    ASSUME AccountInv, [AccountNext]_accountVars, NEW c \in issued' \ issued
    PROVE  \E p \in Procs : AboutToWrite(p, c.user, c.cred)
<1> USE DEF AboutToWrite, At
<1>1. ASSUME NEW p \in Procs, LoginCreate(p)
      PROVE  AboutToWrite(p, c.user, c.cred)
  BY <1>1 DEF LoginCreate, Create
<1>2. ASSUME NEW p \in Procs, RefreshRotate(p)
      PROVE  AboutToWrite(p, c.user, c.cred)
  <2>1. /\ req[p].claim \in Claims
        /\ req[p].claim.user = req[p].user
    BY <1>2 DEF RefreshRotate, AccountInv, RequestsOK, Presenting, StoreInv,
                TypeOK
  <2> QED
    BY <1>2, <2>1 DEF RefreshRotate, Rotate, Claims
<1>3. ASSUME issued' = issued PROVE FALSE
  BY <1>3
<1> HIDE DEF AboutToWrite
<1> QED
  BY <1>1, <1>2, <1>3
     DEF AccountNext, accountVars, Procs, ClientStep, ManagerStep,
         RequestStep, LoginLookup, LoginSecurityState,
         LoginBlocked, LoginToken, LoginUndo, RefreshValidate,
         RefreshSecurityState, RefreshRefused, DeleteSessions,
         RemoveOthers, GetSessionsByUser, PasswordCommit, PasswordCleanup,
         StatusRead, StatusBlock, StatusUnblock, StatusCAS, BlockThen,
         DeleteCheck, SelfDeleteCheck, DeleteBlock, DeleteRow, Required,
         FreshIdentity, Abort, ValidateRefused, CreateUser, UpdateUser,
         DeleteByUser, RotateDangling, DeleteOthersByUser, ListByUser,
         DeleteAllByUser, BlockAndDeleteAllByUser, UnblockUser, FindByJTI,
         DeleteOrphanSessions, Tick, LoseData, DataLoss

\* Once the requests that were admitted with a superseded version are gone,
\* that version is never issued again, for any number of concurrent requests
\* and wherever they fail (Login, Refresh, ChangePassword, UpdateUser).
THEOREM OldCredentialsDrainHolds == AccountSpec => OldCredentialsDrain
<1>1. AccountInv /\ [AccountNext]_accountVars => [Drains]_accountVars
  <2> SUFFICES ASSUME AccountInv, [AccountNext]_accountVars,
                      NEW u \in Users, NEW v \in Versions, Drained(u, v)
               PROVE  /\ Drained(u, v)'
                      /\ \A c \in issued' \ issued : c.user = u => c.cred # v
    BY DEF Drains
  <2>1. v < row[u].ver /\ \A p \in Procs : ~AboutToWrite(p, u, v)
    BY DEF Drained, AboutToWrite
  <2>2. v # row[u].ver /\ v < row'[u].ver
    BY <2>1, VersionsGrow, StoreAssumption
  <2>3. \A p \in Procs : ~AboutToWrite(p, u, v)'
    BY <2>1, <2>2, AdmittedCurrent
  <2>4. Drained(u, v)'
    BY <2>2, <2>3 DEF Drained, AboutToWrite
  <2>5. \A c \in issued' \ issued : c.user = u => c.cred # v
    BY <2>1, IssuedByRequest
  <2> QED
    BY <2>4, <2>5
<1> QED
  BY <1>1, AccountInvariant, PTL DEF AccountSpec, OldCredentialsDrain, Drains

----------------------------------------------------------------------------
(* Redis and the rows agree. *)

\* A step that moves no manager between its two stores, changes no status,
\* neither blocks nor unblocks anybody and tears nothing.
Quiet ==
    /\ \A u \in Users : /\ row'[u].status = row[u].status
                        /\ access'[u].blocked = access[u].blocked
    /\ torn' = torn
    /\ \A p \in Procs :
          req'[p].pc \in BetweenStores \/ req[p].pc \in BetweenStores
             => req'[p] = req[p]

\* A quiet step keeps the block before the row.
LEMMA QuietStep ==
    ASSUME AccountInv, BlockBeforeRow, ActiveUsersNotBlocked, Quiet
    PROVE  BlockBeforeRow' /\ ActiveUsersNotBlocked'
<1> USE DEF Quiet, Blocking, Reached, At, BetweenStores
<1>1. BlockBeforeRow'
  BY DEF BlockBeforeRow, Suspended, AccountInv, RequestsOK
<1>2. ActiveUsersNotBlocked'
  BY DEF ActiveUsersNotBlocked
<1> QED
  BY <1>1, <1>2

\* No client step unblocks or blocks anybody.
LEMMA ClientsQuiet ==
    ASSUME AccountInv, BlockBeforeRow, NEW p \in Clients, ClientStep(p)
    PROVE  Quiet
<1> p \in Procs
  BY DEF Procs
<1>0. p \notin Managers /\ req[p].pc \notin BetweenStores
  BY DEF BlockBeforeRow
<1>1. /\ \A q \in Procs \ {p} : req'[q] = req[q]
      /\ torn' = torn
  BY DEF AccountInv, AccountTypeOK, ClientStep, LoginLookup,
         LoginSecurityState, LoginCreate, LoginBlocked, LoginToken,
         LoginUndo, RefreshValidate, RefreshSecurityState, RefreshRotate,
         RefreshRefused, DeleteSessions, RemoveOthers, GetSessionsByUser,
         PasswordCommit, PasswordCleanup, Start, Goto, End
<1>2. req'[p].pc \notin BetweenStores
  <2> USE DEF AccountInv, AccountTypeOK, BetweenStores
  <2>1. ASSUME End(p) PROVE req'[p].pc \notin BetweenStores
    BY <2>1 DEF End, Idle
  <2>2. ASSUME NEW pc \in PCs \ BetweenStores, Goto(p, pc)
        PROVE  req'[p].pc \notin BetweenStores
    BY <2>2 DEF Goto
  <2>3. ASSUME NEW u \in Users, LoginLookup(p, u)
        PROVE  req'[p].pc \notin BetweenStores
    BY <2>3 DEF LoginLookup, Start, Idle
  <2>4. ASSUME NEW c \in issued, RefreshValidate(p, c)
        PROVE  req'[p].pc \notin BetweenStores
    BY <2>4 DEF RefreshValidate, Start, Idle
  <2>5. CASE LoginCreate(p)
    BY <2>5 DEF LoginCreate
  <2> QED
    BY <2>1, <2>2, <2>3, <2>4, <2>5
       DEF ClientStep, LoginSecurityState, LoginBlocked, LoginToken,
           LoginUndo, RefreshSecurityState, RefreshRotate, RefreshRefused,
           DeleteSessions, RemoveOthers, GetSessionsByUser, PasswordCommit,
           PasswordCleanup, PCs
<1>3. \A u \in Users : row'[u].status = row[u].status
  <2>1. CASE PasswordCommit(p)
    BY <2>1 DEF PasswordCommit, AdvanceCredential, AccountInv, AccountTypeOK
  <2>2. CASE UNCHANGED row
    BY <2>2
  <2> QED
    BY <2>1, <2>2 DEF ClientStep, LoginLookup,
         LoginSecurityState, LoginCreate, LoginBlocked, LoginToken,
         LoginUndo, RefreshValidate, RefreshSecurityState, RefreshRotate,
         RefreshRefused, DeleteSessions, RemoveOthers, GetSessionsByUser,
         PasswordCleanup
<1>4. \A u \in Users : access'[u].blocked = access[u].blocked
  <2>1. CASE LoginCreate(p)
    BY <2>1 DEF LoginCreate, Create, AccountInv, StoreInv, TypeOK
  <2>2. CASE UNCHANGED access
    BY <2>2
  <2> QED
    BY <2>1, <2>2 DEF ClientStep, LoginLookup, store,
         LoginSecurityState, LoginBlocked, LoginToken,
         LoginUndo, RefreshValidate, RefreshSecurityState, RefreshRotate,
         RefreshRefused, DeleteSessions, RemoveOthers, GetSessionsByUser,
         PasswordCommit, PasswordCleanup, DeleteByUser, Rotate,
         RotateDangling, DeleteOthersByUser, ListByUser, DeleteAllByUser
<1> QED
  BY <1>0, <1>1, <1>2, <1>3, <1>4 DEF Quiet, At, BetweenStores

\* Admission is quiet, and a failure either is or tears the account.
LEMMA CommonKeepsBlock ==
    ASSUME AccountInv, BlockBeforeRow, ActiveUsersNotBlocked,
           NEW p \in Procs, RequestStep(p)
    PROVE  BlockBeforeRow' /\ ActiveUsersNotBlocked'
<1>1. UNCHANGED <<row, access>>
  BY DEF RequestStep, Required, FreshIdentity, Abort, store
<1>2. \A q \in Procs \ {p} : req'[q] = req[q]
  BY DEF AccountInv, AccountTypeOK, RequestStep, Required, FreshIdentity,
         Abort, Start, Goto, End
<1> USE DEF AccountInv, AccountTypeOK, BetweenStores, At
<1>3. ASSUME NEW c \in issued, Required(p, c) PROVE Quiet
  BY <1>1, <1>2, <1>3 DEF Required, Start, Idle, Quiet
<1>4. CASE FreshIdentity(p)
  BY <1>1, <1>2, <1>4, QuietStep DEF FreshIdentity, Goto, End, Idle, Quiet
<1>5. CASE Abort(p) /\ req[p].pc \notin BetweenStores
  BY <1>1, <1>2, <1>5, QuietStep DEF Abort, End, Idle, Quiet
<1>6. CASE Abort(p) /\ req[p].pc \in BetweenStores
  <2>1. /\ torn' = torn \cup {req[p].user}
        /\ req'[p].pc = "idle"
        /\ \A q \in Procs \ {p} : req'[q] = req[q]
        /\ UNCHANGED <<row, access>>
    BY <1>1, <1>2, <1>6 DEF Abort, End, Idle
  <2>2. \A u \in Users \ torn', pc \in BetweenStores :
          Reached(u, pc)' <=> Reached(u, pc)
    BY <2>1 DEF Reached
  <2>3. BlockBeforeRow'
    BY <2>1, <2>2 DEF BlockBeforeRow, Suspended, Blocking
  <2>4. ActiveUsersNotBlocked'
    BY <2>1 DEF ActiveUsersNotBlocked, Blocking, Reached
  <2> QED
    BY <2>3, <2>4
<1> QED
  BY <1>3, <1>4, <1>5, <1>6, QuietStep DEF RequestStep

\* When Redis loses its data, every block it lost is accounted for.
LEMMA LossKeepsBlock ==
    ASSUME AccountInv, BlockBeforeRow, LoseData
    PROVE  BlockBeforeRow' /\ ActiveUsersNotBlocked'
<1>1. /\ access' = [u \in Users |-> NoAccess] /\ UNCHANGED <<row, req>>
      /\ torn' = torn \cup {u \in Users : access[u].blocked}
  BY DEF LoseData, DataLoss
<1>2. \A p \in Procs : ~At(p, "idle") => req[p].user \in Users
  BY DEF AccountInv, RequestsOK
<1>3. BlockBeforeRow'
  BY <1>1, <1>2 DEF BlockBeforeRow, Suspended, Blocking, Reached, At,
                    BetweenStores, NoAccess
<1>4. ActiveUsersNotBlocked'
  BY <1>1 DEF ActiveUsersNotBlocked, NoAccess
<1> QED
  BY <1>3, <1>4

\* What BlockBeforeRow and ActiveUsersNotBlocked say of one user.
InOrder(u) ==
    u \notin torn =>
        /\ Suspended(u) \/ row[u].status = "deleted" \/ Blocking(u)
              => access[u].blocked
        /\ Reached(u, "reactivate_cas") => ~access[u].blocked
        /\ row[u].status = "active" /\ access[u].blocked => Blocking(u)

\* Managers keep the block before the row, however many work on one account.
LEMMA ManagerKeepsBlock ==
    ASSUME AccountInv, StoresAgree, NEW p \in Managers, ManagerStep(p)
    PROVE  BlockBeforeRow' /\ ActiveUsersNotBlocked'
<1> p \in Procs
  BY DEF Procs
<1> DEFINE u == req[p].user
<1>0. /\ ~At(p, "idle") => u \in Users
      /\ row \in [Users -> [status: Statuses, ver: Versions]]
      /\ access \in [Users -> [blocked: BOOLEAN, gen: 0..MaxGeneration]]
      /\ req \in ReqType
      /\ \A v \in Users : InOrder(v)
  BY DEF BlockBeforeRow, ActiveUsersNotBlocked, InOrder, AccountInv,
         AccountTypeOK, ReqType, RequestsOK, StoreInv, TypeOK, StoresAgree
<1>1. \A q \in Procs \ {p} : req'[q] = req[q]
  BY <1>0 DEF ManagerStep, StatusRead, StatusBlock, StatusUnblock, StatusCAS,
     DeleteCheck, SelfDeleteCheck, DeleteBlock, DeleteRow, BlockThen, Start,
     Goto, End, ReqType
<1>2. SUFFICES ASSUME NEW v \in Users PROVE InOrder(v)'
  <2>1. \A q \in Procs : req'[q].pc \in BetweenStores => q \in Managers
    BY <1>1 DEF StoresAgree, BlockBeforeRow
  <2> QED
    BY <1>2, <2>1 DEF BlockBeforeRow, ActiveUsersNotBlocked, InOrder
<1> USE DEF Suspended, Blocking, Reached, At, ReqType
<1>3. ASSUME row'[v].status = row[v].status, access'[v] = access[v],
             v \in torn => v \in torn',
             req[p].user = v => req[p].pc \notin BetweenStores,
             req'[p].user = v => req'[p].pc \notin BetweenStores
      PROVE  InOrder(v)'
  <2>1. \A q \in Procs : req[q].pc \in BetweenStores /\ req[q].user = v
          <=> req'[q].pc \in BetweenStores /\ req'[q].user = v
    BY <1>1, <1>3
  <2>2. \A pc \in BetweenStores : Reached(v, pc)' = Reached(v, pc)
    BY <1>1, <1>3
  <2> QED
    BY <1>0, <1>3, <2>2 DEF InOrder, BetweenStores
<1>4. ASSUME NEW w \in Users, NEW to \in Statuses, StatusRead(p, w, to)
      PROVE  InOrder(v)'
  <2>1. /\ req'[p].pc = AfterStatusRead(row[w].status)
        /\ req[p].pc = "idle" /\ UNCHANGED <<row, access, torn>>
    BY <1>0, <1>4 DEF StatusRead, Start, store, Idle
  <2>2. AfterStatusRead(row[w].status) \in
             {"activate_cas", "status_block", "status_unblock"}
    BY <1>4 DEF StatusRead, CanTransitionTo, AfterStatusRead
  <2> QED
    BY <1>3, <2>1, <2>2 DEF BetweenStores
<1>5. ASSUME NEW pc \in {"suspend_cas", "delete_row"}, ~At(p, "idle"),
             req[p].pc \notin BetweenStores,
             BlockThen(p, pc), UNCHANGED row
      PROVE  InOrder(v)'
  <2>1. CASE GenerationLeft(u) /\ v = u
    <3>1. /\ access'[u].blocked
          /\ req'[p].pc = pc /\ req'[p].user = u
          /\ u \notin torn' => ~Reached(u, "reactivate_cas")
      BY <1>0, <1>5, <2>1 DEF BlockThen, BlockAndDeleteAllByUser, Goto,
                              WriteRedis
    <3>2. Blocking(u)'
      BY <3>1
    <3>3. u \notin torn' => ~Reached(u, "reactivate_cas")'
      BY <1>1, <3>1
    <3> QED
      BY <2>1, <3>1, <3>2, <3>3 DEF InOrder
  <2>2. CASE GenerationLeft(u) /\ v # u
    BY <1>0, <1>3, <1>5, <2>2 DEF BlockThen, BlockAndDeleteAllByUser, Goto,
       WriteRedis
  <2>3. CASE ~GenerationLeft(u)
    BY <1>0, <1>3, <1>5, <2>3 DEF BlockThen, End, Idle, store, BetweenStores
  <2> QED
    BY <2>1, <2>2, <2>3
<1>6. CASE StatusUnblock(p)
  <2>0. req[p].pc = "status_unblock" /\ row' = row
    BY <1>6 DEF StatusUnblock
  <2>1. CASE access[u].gen > 0 /\ v = u
    <3>1. /\ ~access'[u].blocked
          /\ req'[p].pc = "reactivate_cas" /\ req'[p].user = u
          /\ u \notin torn' => Exists(u) /\ ~Blocking(u)
      BY <1>0, <1>6, <2>1 DEF StatusUnblock, UnblockUser, Goto, WriteRedis
    <3>2. Reached(u, "reactivate_cas")'
      BY <3>1
    <3>3. u \notin torn' => ~Blocking(u)'
      BY <1>1, <3>1
    <3> QED
      BY <2>0, <2>1, <3>1, <3>2, <3>3 DEF InOrder, Exists
  <2>2. CASE access[u].gen > 0 /\ v # u
    BY <1>0, <1>3, <1>6, <2>0, <2>2 DEF StatusUnblock, UnblockUser, Goto,
       WriteRedis
  <2>3. CASE ~(access[u].gen > 0)
    BY <1>0, <1>3, <1>6, <2>0, <2>3 DEF StatusUnblock, End, Idle, store,
       BetweenStores
  <2> QED
    BY <2>1, <2>2, <2>3
<1>7. CASE StatusCAS(p)
  <2>1. /\ req'[p].pc = "idle" /\ access' = access
        /\ torn' = torn
        /\ v # u => row'[v] = row[v]
    BY <1>0, <1>7 DEF StatusCAS, End, store, UpdateStatus, Idle
  <2>2. CASE v # u
    BY <1>3, <2>1, <2>2 DEF BetweenStores
  <2>3. ASSUME NEW pc \in BetweenStores, req[p].pc # pc
        PROVE  Reached(v, pc)' = Reached(v, pc)
    BY <1>1, <2>1, <2>3 DEF BetweenStores
  <2>4. CASE v = u /\ v \notin torn /\ At(p, "activate_cas")
    <3>1. \/ row' = row
          \/ row[v].status = "inactive" /\ row'[v].status = "active"
      BY <1>0, <1>7, <2>4 DEF StatusCAS, UpdateStatus
    <3>2. row[v].status = "inactive" /\ access[v].blocked
            => Reached(v, "delete_row")
      BY <2>4 DEF StoresAgree, NewAccounts, NoAccess
    <3>3. \A pc \in BetweenStores : Reached(v, pc)' = Reached(v, pc)
      BY <2>3, <2>4 DEF BetweenStores
    <3> HIDE DEF Reached
    <3> QED
      BY <1>0, <2>1, <3>1, <3>2, <3>3 DEF InOrder, BetweenStores
  <2>5. CASE v = u /\ v \notin torn /\ At(p, "suspend_cas")
    <3>1. /\ access[v].blocked
          /\ row'[v].status # "active"
          /\ ~Reached(v, "reactivate_cas")
      BY <1>0, <1>7, <2>5 DEF StatusCAS, UpdateStatus, InOrder
    <3>2. ~Reached(v, "reactivate_cas")'
      BY <2>3, <2>5, <3>1 DEF BetweenStores
    <3> QED
      BY <2>1, <3>1, <3>2 DEF InOrder
  <2>6. CASE v = u /\ v \notin torn /\ At(p, "reactivate_cas")
    <3>1. /\ ~access[v].blocked /\ ~Blocking(v)
          /\ row'[v].status \notin {"suspended", "deleted"}
      BY <1>0, <1>7, <2>6 DEF StatusCAS, UpdateStatus, InOrder
    <3>2. ~Blocking(v)'
      BY <2>3, <2>6, <3>1 DEF BetweenStores
    <3> QED
      BY <2>1, <3>1, <3>2 DEF InOrder
  <2>7. CASE v \in torn
    BY <2>1, <2>7 DEF InOrder
  <2> QED
    BY <1>7, <2>2, <2>4, <2>5, <2>6, <2>7 DEF StatusCAS
<1>8. CASE DeleteRow(p)
  <2>1. /\ req'[p].pc = "idle" /\ access' = access
        /\ torn' = torn
        /\ req[p].pc = "delete_row"
        /\ v # u => row'[v] = row[v]
        /\ v = u => row'[v].status = "deleted"
    BY <1>0, <1>8 DEF DeleteRow, End, store, Idle
  <2>2. CASE v # u
    BY <1>0, <1>3, <2>1, <2>2 DEF BetweenStores
  <2>3. CASE v = u /\ v \notin torn
    <3>1. access[v].blocked /\ ~Reached(v, "reactivate_cas")
      BY <1>0, <2>1, <2>3 DEF InOrder
    <3>2. ~Reached(v, "reactivate_cas")'
      BY <1>1, <2>1, <3>1
    <3> QED
      BY <2>1, <2>3, <3>1, <3>2 DEF InOrder
  <2>4. CASE v \in torn
    BY <2>1, <2>4 DEF InOrder
  <2> QED
    BY <2>2, <2>3, <2>4
<1>9. ASSUME NEW w \in Users, DeleteCheck(p, w) PROVE InOrder(v)'
  <2>1. /\ UNCHANGED <<row, access, torn>> /\ req[p].pc = "idle"
        /\ req'[p].pc = "delete_block"
    BY <1>0, <1>9 DEF DeleteCheck, Start, DeleteRequest, Idle, store
  <2> QED
    BY <1>3, <2>1 DEF BetweenStores
<1>10. CASE SelfDeleteCheck(p)
  <2>1. /\ UNCHANGED <<row, access, torn>> /\ req[p].pc = "delete_check"
        /\ req'[p].pc \in {"delete_block", "idle"}
    BY <1>0, <1>10 DEF SelfDeleteCheck, DeleteRequest, Idle, store
  <2> QED
    BY <1>3, <2>1 DEF BetweenStores
<1>11. CASE StatusBlock(p) \/ DeleteBlock(p)
  BY <1>5, <1>11 DEF StatusBlock, DeleteBlock, BetweenStores
<1> QED
  BY <1>4, <1>6, <1>7, <1>8, <1>9, <1>10, <1>11 DEF ManagerStep

\* A step that begins no request on a new account, issues nothing for it and
\* leaves its row, its access state and its deletion alone.
LeavesNew(u) ==
    /\ row'[u].status \in {"none", "inactive"}
          => row[u].status \in {"none", "inactive"}
    /\ row[u].status \in {"none", "inactive"} =>
          /\ access'[u] = access[u] \/ access'[u] = NoAccess
          /\ u \in torn => u \in torn'
          /\ \A p \in Procs :
                /\ req'[p].user = u => req'[p] = req[p]
                /\ At(p, "delete_row") /\ req[p].user = u
                      => req'[p] = req[p]

\* Nothing is issued to a new account.
LEMMA NewNotIssued ==
    ASSUME AccountInv, NewAccounts, [AccountNext]_accountVars,
           NEW u \in Users, row[u].status \in {"none", "inactive"},
           NEW c \in issued', c.user = u
    PROVE  FALSE
<1>1. c \notin issued
  BY DEF NewAccounts
<1>2. PICK p \in Procs : AboutToWrite(p, c.user, c.cred)
  BY <1>1, IssuedByRequest
<1> QED
  BY <1>2 DEF AboutToWrite, NewAccounts, At

\* A step that leaves it alone keeps what is known of a new account.
LEMMA LeavesNewStep ==
    ASSUME AccountInv, NewAccounts, [AccountNext]_accountVars,
           \A u \in Users : LeavesNew(u)
    PROVE  NewAccounts'
<1> SUFFICES ASSUME NEW u \in Users, row'[u].status \in {"none", "inactive"}
             PROVE  /\ \A c \in issued' : c.user # u
                    /\ (access[u] = NoAccess \/ Reached(u, "delete_row")
                          \/ u \in torn)'
                    /\ \A p \in Procs : req'[p].user = u =>
                         req'[p].pc \in {"activate_cas", "delete_block",
                                         "delete_row"}
  BY DEF NewAccounts
<1>1. row[u].status \in {"none", "inactive"} /\ LeavesNew(u)
  BY DEF LeavesNew
<1>2. \A c \in issued' : c.user # u
  BY <1>1, NewNotIssued
<1>3. (access[u] = NoAccess \/ Reached(u, "delete_row") \/ u \in torn)'
  BY <1>1 DEF NewAccounts, LeavesNew, Reached, At
<1>4. \A p \in Procs : req'[p].user = u =>
         req'[p].pc \in {"activate_cas", "delete_block", "delete_row"}
  BY <1>1 DEF NewAccounts, LeavesNew
<1> QED
  BY <1>2, <1>3, <1>4

\* Clients only work on accounts that were active.
LEMMA ClientsLeaveNew ==
    ASSUME AccountInv, NewAccounts, NEW p \in Clients, ClientStep(p),
           NEW u \in Users
    PROVE  LeavesNew(u)
<1> p \in Procs
  BY DEF Procs
<1>0. req \in ReqType /\ row \in [Users -> [status: Statuses, ver: Versions]]
      /\ access \in [Users -> [blocked: BOOLEAN, gen: 0..MaxGeneration]]
  BY DEF AccountInv, AccountTypeOK, ReqType, StoreInv, TypeOK
<1>1. /\ \A q \in Procs \ {p} : req'[q] = req[q]
      /\ torn' = torn
  BY <1>0 DEF ReqType, ClientStep, LoginLookup,
         LoginSecurityState, LoginCreate, LoginBlocked, LoginToken,
         LoginUndo, RefreshValidate, RefreshSecurityState, RefreshRotate,
         RefreshRefused, DeleteSessions, RemoveOthers, GetSessionsByUser,
         PasswordCommit, PasswordCleanup, Start, Goto, End
<1>2. row'[u].status = row[u].status
  <2>1. CASE PasswordCommit(p)
    BY <1>0, <2>1 DEF PasswordCommit, AdvanceCredential
  <2>2. CASE UNCHANGED row
    BY <2>2
  <2> QED
    BY <2>1, <2>2 DEF ClientStep, LoginLookup,
         LoginSecurityState, LoginCreate, LoginBlocked, LoginToken,
         LoginUndo, RefreshValidate, RefreshSecurityState, RefreshRotate,
         RefreshRefused, DeleteSessions, RemoveOthers, GetSessionsByUser,
         PasswordCleanup
<1> SUFFICES ASSUME row[u].status \in {"none", "inactive"}
             PROVE  /\ access'[u] = access[u]
                    /\ req[p].user # u /\ req'[p].user # u
  BY <1>1, <1>2 DEF LeavesNew, At
<1> USE DEF ReqType
<1>3. Nil # u
  BY StoreAssumption
<1>4. ASSUME NEW v \in Users, LoginLookup(p, v)
      PROVE  access'[u] = access[u] /\ req[p].user # u /\ req'[p].user # u
  BY <1>0, <1>4, <1>3
     DEF LoginLookup, MayAuthenticate, Start, Idle, store, NewAccounts, At
<1>5. ASSUME NEW c \in issued, RefreshValidate(p, c)
      PROVE  access'[u] = access[u] /\ req[p].user # u /\ req'[p].user # u
  BY <1>0, <1>5, <1>3
     DEF RefreshValidate, Start, Idle, store, NewAccounts, At
<1>6. ASSUME ~At(p, "idle"), req[p].user # u,
             End(p) \/ \E pc \in PCs : Goto(p, pc)
      PROVE  req'[p].user # u
  BY <1>0, <1>3, <1>6 DEF End, Goto, Idle
<1>7. CASE LoginCreate(p)
  <2>1. req[p].user # u
    BY <1>7 DEF LoginCreate, NewAccounts, At
  <2>2. access'[u] = access[u] /\ req'[p].user = req[p].user
    BY <1>0, <1>7, <2>1 DEF LoginCreate, Create
  <2> QED
    BY <2>1, <2>2
<1>8. CASE \/ LoginSecurityState(p) \/ LoginBlocked(p) \/ LoginToken(p)
           \/ LoginUndo(p) \/ RefreshSecurityState(p) \/ RefreshRotate(p)
           \/ RefreshRefused(p) \/ DeleteSessions(p) \/ RemoveOthers(p)
           \/ GetSessionsByUser(p) \/ PasswordCommit(p)
           \/ PasswordCleanup(p)
  <2>1. ~At(p, "idle") /\ req[p].user # u
    BY <1>8 DEF LoginSecurityState, LoginBlocked, LoginToken, LoginUndo,
         RefreshSecurityState, RefreshRotate, RefreshRefused, DeleteSessions,
         RemoveOthers, GetSessionsByUser, PasswordCommit, PasswordCleanup,
         NewAccounts, At
  <2>2. End(p) \/ \E pc \in PCs : Goto(p, pc)
    BY <1>8 DEF LoginSecurityState, LoginBlocked, LoginToken, LoginUndo,
         RefreshSecurityState, RefreshRotate, RefreshRefused, DeleteSessions,
         RemoveOthers, GetSessionsByUser, PasswordCommit, PasswordCleanup,
         PCs
  <2>3. access' = access
    BY <1>8 DEF LoginSecurityState, LoginBlocked, LoginToken, LoginUndo,
         RefreshSecurityState, RefreshRotate, RefreshRefused, DeleteSessions,
         RemoveOthers, GetSessionsByUser, PasswordCommit, PasswordCleanup,
         store, DeleteByUser, Rotate, RotateDangling, DeleteOthersByUser,
         ListByUser, DeleteAllByUser
  <2> QED
    BY <1>6, <2>1, <2>2, <2>3
<1> QED
  BY <1>4, <1>5, <1>7, <1>8 DEF ClientStep

\* Admission needs an identity, and a failure tears what it leaves behind.
LEMMA CommonKeepsNew ==
    ASSUME AccountInv, NewAccounts, [AccountNext]_accountVars,
           NEW p \in Procs, RequestStep(p)
    PROVE  NewAccounts'
<1>0. req \in ReqType
  BY DEF AccountInv, AccountTypeOK, ReqType
<1>1. UNCHANGED <<row, access>>
  BY DEF RequestStep, Required, FreshIdentity, Abort, store
<1>2. \A q \in Procs \ {p} : req'[q] = req[q]
  BY <1>0 DEF ReqType, RequestStep, Required, FreshIdentity, Abort, Start,
              Goto, End
<1> USE DEF ReqType, At
<1>3. ASSUME NEW c \in issued, Required(p, c), NEW u \in Users
      PROVE  LeavesNew(u)
  BY <1>0, <1>1, <1>2, <1>3 DEF Required, Start, Idle, LeavesNew, NewAccounts
<1>4. ASSUME FreshIdentity(p), NEW u \in Users PROVE LeavesNew(u)
  <2>1. row[u].status \in {"none", "inactive"} => req[p].user # u
    BY <1>4 DEF FreshIdentity, NewAccounts
  <2>2. req'[p].user \in {req[p].user, Nil} /\ torn' = torn
    BY <1>0, <1>4 DEF FreshIdentity, Goto, End, Idle
  <2> QED
    BY <1>1, <1>2, <2>1, <2>2, StoreAssumption DEF LeavesNew
<1>5. CASE Abort(p)
  <2>1. /\ req'[p].user = Nil /\ torn \subseteq torn'
        /\ req[p].pc = "delete_row" => req[p].user \in torn'
    BY <1>0, <1>5 DEF Abort, End, Idle, BetweenStores
  <2> SUFFICES ASSUME NEW u \in Users, row[u].status \in {"none", "inactive"}
               PROVE  /\ \A c \in issued' : c.user # u
                      /\ (access[u] = NoAccess \/ Reached(u, "delete_row")
                            \/ u \in torn)'
                      /\ \A q \in Procs : req'[q].user = u =>
                           req'[q].pc \in {"activate_cas", "delete_block",
                                           "delete_row"}
    BY <1>1 DEF NewAccounts
  <2>2. \A c \in issued' : c.user # u
    BY NewNotIssued
  <2>3. (access[u] = NoAccess \/ Reached(u, "delete_row") \/ u \in torn)'
    BY <1>1, <1>2, <2>1 DEF NewAccounts, Reached
  <2>4. \A q \in Procs : req'[q].user = u =>
          req'[q].pc \in {"activate_cas", "delete_block", "delete_row"}
    BY <1>2, <2>1, StoreAssumption DEF NewAccounts
  <2> QED
    BY <2>2, <2>3, <2>4
<1> QED
  BY <1>3, <1>4, <1>5, LeavesNewStep DEF RequestStep

\* A manager activates a new account or deletes it.
LEMMA ManagerKeepsNew ==
    ASSUME AccountInv, StoresAgree, [AccountNext]_accountVars,
           NEW p \in Managers, ManagerStep(p)
    PROVE  NewAccounts'
<1> p \in Procs
  BY DEF Procs
<1>0. /\ req \in ReqType /\ row \in [Users -> [status: Statuses, ver: Versions]]
      /\ access \in [Users -> [blocked: BOOLEAN, gen: 0..MaxGeneration]]
      /\ NewAccounts
      /\ \A q \in Procs : req[q].pc = "delete_row" => q \in Managers
  BY DEF AccountInv, AccountTypeOK, ReqType, StoreInv, TypeOK, StoresAgree,
         BlockBeforeRow, BetweenStores
<1> SUFFICES ASSUME NEW u \in Users, row'[u].status \in {"none", "inactive"}
             PROVE  /\ \A c \in issued' : c.user # u
                    /\ (access[u] = NoAccess \/ Reached(u, "delete_row")
                          \/ u \in torn)'
                    /\ \A q \in Procs : req'[q].user = u =>
                         req'[q].pc \in {"activate_cas", "delete_block",
                                         "delete_row"}
  BY DEF NewAccounts
<1>1. row[u].status \in {"none", "inactive"}
  <2>1. CASE StatusCAS(p) \/ DeleteRow(p)
    BY <1>0, <2>1 DEF StatusCAS, UpdateStatus, DeleteRow
  <2>2. CASE UNCHANGED row
    BY <2>2
  <2> QED
    BY <2>1, <2>2 DEF ManagerStep, StatusRead, StatusBlock, StatusUnblock,
       DeleteCheck, SelfDeleteCheck, DeleteBlock
<1>2. \A c \in issued' : c.user # u
  BY <1>0, <1>1, NewNotIssued
<1>3. /\ access[u] = NoAccess \/ Reached(u, "delete_row") \/ u \in torn
      /\ \A q \in Procs : req[q].user = u =>
           req[q].pc \in {"activate_cas", "delete_block", "delete_row"}
  BY <1>0, <1>1 DEF NewAccounts
<1>4. Nil # u
  BY StoreAssumption
<1> DEFINE Goal == /\ (access[u] = NoAccess \/ Reached(u, "delete_row")
                         \/ u \in torn)'
                   /\ \A q \in Procs : req'[q].user = u =>
                        req'[q].pc \in {"activate_cas", "delete_block",
                                        "delete_row"}
<1> USE DEF ReqType, Reached, At
<1>5. ASSUME NEW v \in Users, NEW to \in Statuses, StatusRead(p, v, to)
      PROVE  Goal
  <2>1. /\ req' = [req EXCEPT ![p] = [Idle EXCEPT
                     !.pc = AfterStatusRead(row[v].status), !.user = v]]
        /\ req[p].pc = "idle" /\ UNCHANGED <<row, access, torn>>
    BY <1>5 DEF StatusRead, Start, store
  <2>2. v = u => AfterStatusRead(row[v].status) = "activate_cas"
    BY <1>1, <1>5 DEF StatusRead, CanTransitionTo, AfterStatusRead
  <2> QED
    BY <1>0, <1>3, <2>1, <2>2 DEF Idle
<1>6. ASSUME \/ access'[u] = access[u] /\ (u \in torn => u \in torn')
             \/ req'[p].user = u /\ req'[p].pc = "delete_row",
             \A q \in Procs \ {p} : req'[q] = req[q],
             req'[p].user = u => req'[p].pc \in {"activate_cas",
                                       "delete_block", "delete_row"},
             ~(req[p].user = u /\ req[p].pc = "delete_row")
      PROVE  Goal
  <2>1. \A q \in Procs : req'[q].user = u =>
          req'[q].pc \in {"activate_cas", "delete_block", "delete_row"}
    BY <1>3, <1>6
  <2>2. (access[u] = NoAccess \/ Reached(u, "delete_row") \/ u \in torn)'
    BY <1>3, <1>6
  <2> QED
    BY <2>1, <2>2
<1> HIDE DEF Goal
<1>7. ASSUME SelfDeleteCheck(p) PROVE Goal
  <2>1. /\ access'[u] = access[u] /\ torn' = torn
        /\ \A q \in Procs \ {p} : req'[q] = req[q]
        /\ req'[p] = DeleteRequest(req[p].user) \/ req'[p] = Idle
        /\ req[p].pc = "delete_check"
    BY <1>0, <1>7 DEF SelfDeleteCheck, store
  <2>2. /\ Idle.user = Nil
        /\ DeleteRequest(req[p].user).pc = "delete_block"
    BY DEF DeleteRequest, Idle
  <2>3. req'[p].user = u => req'[p].pc = "delete_block"
    BY <1>4, <2>1, <2>2
  <2> QED
    BY <1>6, <2>1, <2>3
<1>13. ASSUME NEW v \in Users, DeleteCheck(p, v) PROVE Goal
  <2>1. /\ access'[u] = access[u] /\ torn' = torn
        /\ \A q \in Procs \ {p} : req'[q] = req[q]
        /\ req'[p].pc = "delete_block"
        /\ req[p].pc = "idle"
    BY <1>0, <1>13 DEF DeleteCheck, Start, DeleteRequest, Idle, store
  <2> QED
    BY <1>6, <2>1
<1>8. ASSUME StatusBlock(p) \/ StatusUnblock(p) PROVE Goal
  <2>1. req[p].user # u
    BY <1>3, <1>8 DEF StatusBlock, StatusUnblock
  <2>2. /\ access'[u] = access[u]
        /\ u \in torn => u \in torn'
        /\ \A q \in Procs \ {p} : req'[q] = req[q]
        /\ req'[p].user \in {req[p].user, Nil}
    BY <1>0, <1>8, <2>1
       DEF StatusBlock, StatusUnblock, BlockThen, BlockAndDeleteAllByUser,
           UnblockUser, WriteRedis, Goto, End, Idle, store
  <2> QED
    BY <1>4, <1>6, <2>1, <2>2
<1>9. ASSUME StatusCAS(p) PROVE Goal
  <2>1. /\ access'[u] = access[u] /\ torn' = torn
        /\ \A q \in Procs \ {p} : req'[q] = req[q]
        /\ req'[p].user = Nil
        /\ req[p].pc # "delete_row"
    BY <1>0, <1>9 DEF StatusCAS, End, store, Idle
  <2> QED
    BY <1>4, <1>6, <2>1
<1>10. ASSUME DeleteBlock(p) PROVE Goal
  <2>1. /\ \A q \in Procs \ {p} : req'[q] = req[q]
        /\ req[p].pc = "delete_block"
        /\ req'[p].user \in {req[p].user, Nil}
        /\ req'[p].user = u => req'[p].pc = "delete_row"
    BY <1>0, <1>4, <1>10 DEF DeleteBlock, BlockThen, WriteRedis, Goto, End,
                             Idle
  <2>2. \/ access'[u] = access[u] /\ (u \in torn => u \in torn')
        \/ req'[p].user = u
    BY <1>0, <1>10 DEF DeleteBlock, BlockThen, WriteRedis, Goto,
       BlockAndDeleteAllByUser, store
  <2> QED
    BY <1>6, <2>1, <2>2
<1>11. ASSUME DeleteRow(p) PROVE Goal
  <2>1. req[p].user # u
    BY <1>0, <1>11, <1>1 DEF DeleteRow
  <2>2. /\ access'[u] = access[u] /\ torn' = torn
        /\ \A q \in Procs \ {p} : req'[q] = req[q]
        /\ req'[p].user = Nil
    BY <1>0, <1>11 DEF DeleteRow, End, store, Idle
  <2> QED
    BY <1>4, <1>6, <2>1, <2>2
<1>12. Goal
  BY <1>5, <1>7, <1>8, <1>9, <1>10, <1>11, <1>13 DEF ManagerStep
<1> QED
  BY <1>2, <1>12 DEF Goal

\* Redis and the rows agree in every reachable state, up to torn accounts.
LEMMA StoresAgreeHolds == AccountSpec => [](AccountInv /\ StoresAgree)
<1>1. AccountInit => StoresAgree
  BY StoreAssumption
     DEF AccountInit, Init, StoresAgree, BlockBeforeRow, Suspended, Blocking,
         ActiveUsersNotBlocked, NewAccounts, NoAccess, Idle, Reached, At,
         BetweenStores
<1>2. AccountInv /\ StoresAgree /\ [AccountNext]_accountVars => StoresAgree'
  <2> SUFFICES ASSUME AccountInv, StoresAgree, [AccountNext]_accountVars
               PROVE  StoresAgree'
    OBVIOUS
  <2> USE DEF StoresAgree
  <2>1. ASSUME NEW p \in Clients, ClientStep(p) PROVE StoresAgree'
    BY <2>1, ClientsQuiet, QuietStep, ClientsLeaveNew, LeavesNewStep
  <2>2. ASSUME NEW p \in Managers, ManagerStep(p) PROVE StoresAgree'
    BY <2>2, ManagerKeepsBlock, ManagerKeepsNew
  <2>3. ASSUME NEW p \in Procs, RequestStep(p) PROVE StoresAgree'
    BY <2>3, CommonKeepsBlock, CommonKeepsNew
  <2>4. CASE LoseData
    <3>1. /\ access' = [u \in Users |-> NoAccess] /\ UNCHANGED <<row, req>>
          /\ torn \subseteq torn'
      BY <2>4 DEF LoseData, DataLoss
    <3>2. \A u \in Users : LeavesNew(u)
      BY <3>1 DEF LeavesNew
    <3> QED
      BY <2>4, <3>2, LossKeepsBlock, LeavesNewStep
  <2>5. ASSUME NEW u \in Users, UpdateUser(u) PROVE StoresAgree'
    <3>1. Quiet
      BY <2>5 DEF UpdateUser, AdvanceCredential, store, Quiet, AccountInv,
                  AccountTypeOK
    <3>2. \A v \in Users : LeavesNew(v)
      BY <2>5 DEF UpdateUser, AdvanceCredential, store, LeavesNew,
                  AccountInv, AccountTypeOK
    <3> QED
      BY <3>1, <3>2, QuietStep, LeavesNewStep
  <2>6. ASSUME UNCHANGED <<row, req, access, torn>> PROVE StoresAgree'
    <3>1. Quiet /\ \A v \in Users : LeavesNew(v)
      BY <2>6 DEF Quiet, LeavesNew
    <3> QED
      BY <3>1, QuietStep, LeavesNewStep
  <2>7. ASSUME NEW u \in Users, CreateUser(u) PROVE StoresAgree'
    <3>1. /\ UNCHANGED <<req, access, torn>>
          /\ row[u].status = "none"
          /\ \A v \in Users : \/ row'[v] = row[v]
                              \/ v = u /\ row'[v].status = "inactive"
      BY <2>7 DEF CreateUser, store, AccountInv, AccountTypeOK
    <3>2. \A p \in Procs : ~At(p, "idle") => req[p].user \in Users
      BY DEF AccountInv, RequestsOK
    <3>3. BlockBeforeRow'
      BY <3>1, <3>2 DEF BlockBeforeRow, Suspended, Blocking, Reached, At,
                        BetweenStores
    <3>4. ActiveUsersNotBlocked'
      BY <3>1 DEF ActiveUsersNotBlocked, Blocking, Reached, At
    <3>5. \A v \in Users : LeavesNew(v)
      BY <3>1 DEF LeavesNew
    <3> QED
      BY <3>3, <3>4, <3>5, LeavesNewStep
  <2> QED
    BY <2>1, <2>2, <2>3, <2>4, <2>5, <2>6, <2>7
       DEF AccountNext, accountVars, ValidateRefused, FindByJTI,
           DeleteOrphanSessions, Tick
<1> QED
  BY <1>1, <1>2, AccountInvariant, PTL DEF AccountSpec

\* A suspended user has no accepted identity, however many logins, refreshes,
\* status changes and deletions are under way, wherever requests fail and
\* whenever Redis loses its data, except where that tore the account itself
\* (ChangeStatus).
THEOREM SuspensionShutsOut == AccountSpec => []SuspendedUsersShutOut
<1>1. AccountInv /\ StoresAgree => SuspendedUsersShutOut
  BY DEF StoresAgree, BlockBeforeRow, SuspendedUsersShutOut, ShutOut,
         Accepts, AccessOpen
<1> QED
  BY <1>1, StoresAgreeHolds, PTL

\* A deleted user never has one again, with the same exception (DeleteUser).
THEOREM DeletionShutsOut == AccountSpec => []DeletedUsersShutOut
<1>1. AccountInv /\ StoresAgree => DeletedUsersShutOut
  BY DEF StoresAgree, BlockBeforeRow, DeletedUsersShutOut, ShutOut, Accepts,
         AccessOpen
<1> QED
  BY <1>1, StoresAgreeHolds, PTL

\* An account that was never active owns nothing in Redis, whatever overlaps
\* (the premise of the activation branch of ChangeStatus).
THEOREM ActivationRestoresNothing == AccountSpec => []InactiveHasNoRedisState
<1>1. StoresAgree => InactiveHasNoRedisState
  BY DEF StoresAgree, NewAccounts, InactiveHasNoRedisState
<1> QED
  BY <1>1, StoresAgreeHolds, PTL

\* An active user whose changes did not cross or fail is blocked only on the
\* way to a suspension or a deletion (ChangeStatus, DeleteUser).
THEOREM ReactivationLetsIn == AccountSpec => []ActiveUsersNotBlocked
<1>1. StoresAgree => ActiveUsersNotBlocked
  BY DEF StoresAgree
<1> QED
  BY <1>1, StoresAgreeHolds, PTL

=============================================================================
