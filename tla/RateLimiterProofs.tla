------------------------- MODULE RateLimiterProofs -------------------------
(***************************************************************************)
(* The sliding window log keeps its limit and refuses nobody without       *)
(* cause, and the wait a client is told is less than a second short, for   *)
(* every limit, window and number of callers.                              *)
(***************************************************************************)
EXTENDS RateLimiter, FiniteSetTheorems, TLAPS,
        WellFoundedInduction

\* The stamps that are or were under way are as old as the clocks allow.
StampsInTime ==
    /\ \A q \in pending \cup admitted : q.stamp <= now + MaxSkew
    /\ \A q \in pending : now <= q.stamp + MaxLag

\* What no script may have pruned is in the log, and the key lives until a
\* script may prune it.
Remembered ==
    \A a \in admitted : a.stamp > now + MaxSkew - Memory =>
        a \in log /\ ttl >= a.stamp - MaxSkew + Memory - now

Shape ==
    /\ now \in Nat
    /\ ttl \in Nat
    /\ pending \subseteq [id: Requests, stamp: Nat]
    /\ admitted \subseteq [id: Requests, stamp: Nat]
    /\ log \subseteq admitted
    /\ IsFiniteSet(admitted)

\* The script never stores more than Limit members under one key.
LogBounded == Cardinality(log) <= Limit

RateInv == Shape /\ StampsInTime /\ Remembered /\ LogBounded
             /\ SlidingWindowLimit

\* The admissions an interval of the guaranteed length holds.
Interval(A, t) == {a \in A : a.stamp <= t /\ a.stamp > t - (Memory - Slack)}

\* A subset of a finite set has no more members.
LEMMA SubsetBound ==
    ASSUME NEW S, IsFiniteSet(S), NEW T \in SUBSET S
    PROVE  /\ IsFiniteSet(T)
           /\ Cardinality(T) \in Nat /\ Cardinality(S) \in Nat
           /\ Cardinality(T) <= Cardinality(S)
  BY FS_Subset, FS_CardinalityType

\* ExpireSeconds is a number of seconds.
LEMMA ExpireType == ExpireSeconds \in Nat /\ ExpireSeconds * Second \in Nat
<1>1. Window \div Second \in Nat
  BY RateLimiterAssumption
<1>2. ExpireSeconds \in Nat
  BY <1>1 DEF ExpireSeconds
<1>3. Second \in Nat
  BY RateLimiterAssumption
<1> QED
  BY <1>2, <1>3

\* The log remembers at most the window and at most the key's life.
LEMMA MemoryType ==
    Memory \in Nat /\ Memory <= Window /\ Memory <= ExpireSeconds * Second
<1>1. Window \in Nat
  BY RateLimiterAssumption
<1> QED
  BY <1>1, ExpireType DEF Memory

\* The empty log satisfies the invariant.
LEMMA RateInit == Init => RateInv
<1> SUFFICES ASSUME Init PROVE RateInv
  OBVIOUS
<1>1. Cardinality({}) = 0 /\ IsFiniteSet({})
  BY FS_EmptySet
<1>2. Shape /\ StampsInTime /\ Remembered
  BY <1>1 DEF Init, Shape, StampsInTime, Remembered
<1>3. LogBounded
  BY <1>1, RateLimiterAssumption DEF Init, LogBounded
<1>4. \A t : Interval({}, t) = {}
  BY DEF Interval
<1>5. SlidingWindowLimit
  BY <1>1, <1>4, RateLimiterAssumption DEF Init, SlidingWindowLimit, Interval
<1> QED
  BY <1>2, <1>3, <1>5 DEF RateInv

\* An admission: what the new interval holds is in the log, which has room.
LEMMA AdmitKeepsInv ==
    ASSUME RateInv, NEW q \in pending, Admit(q)
    PROVE  RateInv'
<1> DEFINE kept == Unexpired(q.stamp)
<1> USE RateLimiterAssumption, MemoryType
<1>0. /\ Shape /\ StampsInTime /\ Remembered /\ LogBounded
      /\ SlidingWindowLimit
  BY DEF RateInv
<1>1. /\ log' = kept \cup {q}
      /\ ttl' = ExpireSeconds * Second
      /\ pending' = pending \ {q}
      /\ admitted' = admitted \cup {q}
      /\ now' = now
      /\ Cardinality(kept) < Limit
  BY DEF Admit, HasRoom
<1>2. kept \subseteq log /\ kept \subseteq admitted
  BY <1>0 DEF Unexpired, Shape
<1>3. q.stamp \in Nat /\ now \in Nat /\ q.stamp <= now + MaxSkew
      /\ now <= q.stamp + MaxLag
  BY <1>0 DEF Shape, StampsInTime
<1>4. IsFiniteSet(kept) /\ Cardinality(kept) \in Nat
  BY <1>0, <1>2, SubsetBound DEF Shape
<1>5. IsFiniteSet(log') /\ Cardinality(log') \in Nat
      /\ Cardinality(log') <= Limit
  <2>1. /\ IsFiniteSet(kept \cup {q})
        /\ Cardinality(kept \cup {q}) =
             IF q \in kept THEN Cardinality(kept) ELSE Cardinality(kept) + 1
    BY <1>4, FS_AddElement
  <2> HIDE DEF kept
  <2> QED
    BY <1>1, <1>4, <2>1
<1>6. Shape'
  <2>1. IsFiniteSet(admitted')
    BY <1>0, <1>1, FS_AddElement DEF Shape
  <2> QED
    BY <1>0, <1>1, <1>2, <2>1, ExpireType DEF Shape
<1>7. StampsInTime'
  BY <1>0, <1>1 DEF StampsInTime
<1>8. Remembered'
  <2> SUFFICES ASSUME NEW a \in admitted',
                      a.stamp > now' + MaxSkew - Memory
               PROVE  /\ a \in log'
                      /\ ttl' >= a.stamp - MaxSkew + Memory - now'
    BY DEF Remembered
  <2>1. a.stamp \in Nat /\ a.stamp <= now + MaxSkew
    BY <1>0, <1>1, <1>3 DEF Shape, StampsInTime
  <2>2. ttl' \in Nat /\ ttl' >= Memory
    BY <1>1, ExpireType
  <2>3. ttl' >= a.stamp - MaxSkew + Memory - now'
    BY <1>1, <1>3, <2>1, <2>2
  <2>4. CASE a = q
    BY <1>1, <2>3, <2>4
  <2>5. CASE a # q
    <3>1. a \in admitted /\ a \in log
      BY <1>0, <1>1, <2>5 DEF Remembered
    <3>2. a.stamp > q.stamp - Window
      BY <1>1, <1>3, <2>1
    <3> QED
      BY <1>1, <2>3, <3>1, <3>2 DEF Unexpired
  <2> QED
    BY <2>4, <2>5
<1>9. SlidingWindowLimit'
  <2> SUFFICES ASSUME NEW t \in Stamps
               PROVE  Cardinality(Interval(admitted', t)) <= Limit
    BY DEF SlidingWindowLimit, Interval
  <2>1. t \in Nat
    BY DEF Stamps
  <2>2. CASE q.stamp <= t /\ q.stamp > t - (Memory - Slack)
    <3>1. \A a \in Interval(admitted', t) : a \in log'
      <4> SUFFICES ASSUME NEW a \in Interval(admitted', t) PROVE a \in log'
        OBVIOUS
      <4>1. a \in admitted' /\ a.stamp \in Nat
            /\ a.stamp > t - (Memory - Slack)
        BY <1>6 DEF Interval, Shape
      <4>2. a.stamp > now' + MaxSkew - Memory
        BY <1>1, <1>3, <2>1, <2>2, <4>1 DEF Slack
      <4> QED
        BY <1>8, <4>1, <4>2 DEF Remembered
    <3>2. /\ Cardinality(Interval(admitted', t)) \in Nat
          /\ Cardinality(Interval(admitted', t)) <= Cardinality(log')
      BY <1>5, <3>1, SubsetBound
    <3> QED
      BY <1>5, <3>2
  <2>3. CASE ~(q.stamp <= t /\ q.stamp > t - (Memory - Slack))
    <3>1. Interval(admitted', t) = Interval(admitted, t)
      BY <1>1, <2>3 DEF Interval
    <3> QED
      BY <1>0, <3>1 DEF SlidingWindowLimit, Interval
  <2> QED
    BY <2>2, <2>3
<1>10. LogBounded'
  BY <1>5 DEF LogBounded
<1> QED
  BY <1>6, <1>7, <1>8, <1>9, <1>10 DEF RateInv

\* A denial prunes only what is out of every window.
LEMMA DenyKeepsInv ==
    ASSUME RateInv, NEW q \in pending, Deny(q)
    PROVE  RateInv'
<1> DEFINE kept == Unexpired(q.stamp)
<1> USE RateLimiterAssumption, MemoryType
<1>0. /\ Shape /\ StampsInTime /\ Remembered /\ LogBounded
      /\ SlidingWindowLimit
  BY DEF RateInv
<1>1. /\ log' = kept
      /\ pending' = pending \ {q}
      /\ admitted' = admitted
      /\ now' = now
      /\ ttl' = ttl
  BY DEF Deny
<1>2. kept \subseteq log
  BY DEF Unexpired
<1>3. q.stamp \in Nat /\ now \in Nat /\ q.stamp <= now + MaxSkew
  BY <1>0 DEF Shape, StampsInTime
<1>4. IsFiniteSet(log)
  BY <1>0, SubsetBound DEF Shape
<1>5. Shape' /\ StampsInTime'
  BY <1>0, <1>1, <1>2 DEF Shape, StampsInTime
<1>6. Remembered'
  <2> SUFFICES ASSUME NEW a \in admitted,
                      a.stamp > now + MaxSkew - Memory
               PROVE  a \in kept
    BY <1>0, <1>1 DEF Remembered
  <2>1. a \in log /\ a.stamp \in Nat
    BY <1>0 DEF Remembered, Shape
  <2>2. a.stamp > q.stamp - Window
    BY <1>3, <2>1
  <2> QED
    BY <2>1, <2>2 DEF Unexpired
<1>7. LogBounded'
  BY <1>0, <1>1, <1>2, <1>4, SubsetBound DEF LogBounded
<1>8. SlidingWindowLimit'
  BY <1>0, <1>1 DEF SlidingWindowLimit
<1> QED
  BY <1>5, <1>6, <1>7, <1>8 DEF RateInv

\* The passing of time: the key goes only when nothing has to be remembered.
LEMMA TickKeepsInv ==
    ASSUME RateInv, Tick
    PROVE  RateInv'
<1> USE RateLimiterAssumption, MemoryType
<1>0. /\ Shape /\ StampsInTime /\ Remembered /\ LogBounded
      /\ SlidingWindowLimit
  BY DEF RateInv
<1>1. /\ now' = now + 1
      /\ ttl' = IF ttl = 0 THEN 0 ELSE ttl - 1
      /\ log' = IF ttl <= 1 THEN {} ELSE log
      /\ pending' = pending
      /\ admitted' = admitted
      /\ \A q \in pending : now < q.stamp + MaxLag
  BY DEF Tick
<1>2. now \in Nat /\ ttl \in Nat
  BY <1>0 DEF Shape
<1>3. Shape'
  BY <1>0, <1>1, <1>2 DEF Shape
<1>4. StampsInTime'
  <2>1. \A q \in pending \cup admitted : q.stamp \in Nat
    BY <1>0 DEF Shape
  <2> QED
    BY <1>0, <1>1, <1>2, <2>1 DEF StampsInTime
<1>5. Remembered'
  <2> SUFFICES ASSUME NEW a \in admitted,
                      a.stamp > now + 1 + MaxSkew - Memory
               PROVE  /\ a \in log'
                      /\ ttl' >= a.stamp - MaxSkew + Memory - (now + 1)
    BY <1>1 DEF Remembered
  <2>1. a.stamp \in Nat
    BY <1>0 DEF Shape
  <2>2. a \in log /\ ttl >= a.stamp - MaxSkew + Memory - now
    BY <1>0, <1>2, <2>1 DEF Remembered
  <2>3. ttl > 1
    BY <1>2, <2>1, <2>2
  <2> QED
    BY <1>1, <1>2, <2>1, <2>2, <2>3
<1>6. LogBounded'
  BY <1>0, <1>1, FS_EmptySet DEF LogBounded
<1>7. SlidingWindowLimit'
  BY <1>0, <1>1 DEF SlidingWindowLimit
<1> QED
  BY <1>3, <1>4, <1>5, <1>6, <1>7 DEF RateInv

\* Stamping a request or giving it up touches neither log nor history.
LEMMA PendingKeepsInv ==
    ASSUME RateInv,
           \/ \E r \in Requests : Allow(r)
           \/ \E q \in pending : AllowFails(q)
           \/ UNCHANGED vars
    PROVE  RateInv'
<1> USE RateLimiterAssumption, MemoryType
<1>0. /\ Shape /\ StampsInTime /\ Remembered /\ LogBounded
      /\ SlidingWindowLimit
  BY DEF RateInv
<1>1. UNCHANGED <<now, log, ttl, admitted>>
  BY DEF Allow, AllowFails, vars
<1>2. \A q \in pending' : q \in [id: Requests, stamp: Nat]
        /\ q.stamp <= now + MaxSkew /\ now <= q.stamp + MaxLag
  <2>1. now \in Nat
    BY <1>0 DEF Shape
  <2>2. \A q \in pending : q \in [id: Requests, stamp: Nat]
          /\ q.stamp <= now + MaxSkew /\ now <= q.stamp + MaxLag
    BY <1>0 DEF Shape, StampsInTime
  <2>3. CASE pending' \subseteq pending
    BY <2>2, <2>3
  <2>4. ASSUME NEW r \in Requests, Allow(r)
        PROVE  \A q \in pending' : q \in [id: Requests, stamp: Nat]
                 /\ q.stamp <= now + MaxSkew /\ now <= q.stamp + MaxLag
    <3>1. PICK stamp \in now..(now + MaxSkew) :
            pending' = pending \cup {[id |-> r, stamp |-> stamp]}
      BY <2>4 DEF Allow
    <3>2. stamp \in Nat /\ stamp <= now + MaxSkew /\ now <= stamp + MaxLag
      BY <2>1, <3>1
    <3> QED
      BY <2>2, <3>1, <3>2
  <2> QED
    BY <2>3, <2>4 DEF AllowFails, vars
<1>3. Shape' /\ StampsInTime'
  BY <1>0, <1>1, <1>2 DEF Shape, StampsInTime
<1>4. Remembered' /\ LogBounded' /\ SlidingWindowLimit'
  BY <1>0, <1>1 DEF Remembered, LogBounded, SlidingWindowLimit
<1> QED
  BY <1>3, <1>4 DEF RateInv

\* The invariant holds throughout.
LEMMA RateInvariant == Spec => []RateInv
<1>1. RateInv /\ [Next]_vars => RateInv'
  <2> SUFFICES ASSUME RateInv, [Next]_vars PROVE RateInv'
    OBVIOUS
  <2>1. ASSUME NEW q \in pending, Admit(q) PROVE RateInv'
    BY <2>1, AdmitKeepsInv
  <2>2. ASSUME NEW q \in pending, Deny(q) PROVE RateInv'
    BY <2>2, DenyKeepsInv
  <2>3. CASE Tick
    BY <2>3, TickKeepsInv
  <2>4. CASE \/ \E r \in Requests : Allow(r)
             \/ \E q \in pending : AllowFails(q)
             \/ UNCHANGED vars
    BY <2>4, PendingKeepsInv
  <2> QED
    BY <2>1, <2>2, <2>3, <2>4 DEF Next
<1> QED
  BY <1>1, RateInit, PTL DEF Spec

\* In no interval of the length the log remembers, less lag and skew, does
\* rate_limit.lua admit more than the limit, for any limit, any window (whole
\* seconds or not), number of callers and order of arrival.
THEOREM SlidingWindowHolds == Spec => []SlidingWindowLimit
<1>1. RateInv => SlidingWindowLimit
  BY DEF RateInv
<1> QED
  BY <1>1, RateInvariant, PTL

----------------------------------------------------------------------------
(* The answer to a denied request. *)

\* A request is stamped once and answered once.
AnsweredOnce ==
    /\ \A d \in refused : d.seen \subseteq admitted
    /\ pending \cap admitted = {}

\* The middleware told what it was replied, in whole seconds.
Told(d) ==
    /\ d.stamp \in Nat /\ d.retryAfter \in Nat
    /\ d.header = RetryAfterHeader(d.retryAfter)
    /\ d.body = RetryAfterBody(d.retryAfter)

\* Until somebody is admitted, all that is logged was counted by the denial,
\* the entry that leaves the window after retry_after included.
Counted(d, L, A) ==
    \E S \in SUBSET A :
        /\ L \subseteq S
        /\ Cardinality(S) <= Limit
        /\ \E o \in S : o.stamp + Window = d.stamp + d.retryAfter

RetryInv ==
    /\ AnsweredOnce
    /\ \A d \in refused : Told(d)
    /\ \A d \in refused : d.seen = admitted => Counted(d, log, admitted)

\* What Deny records of a denial.
Denial(q) ==
    LET wait == RetryAfter(Unexpired(q.stamp), q.stamp)
    IN  [id |-> q.id, stamp |-> q.stamp, seen |-> admitted,
         retryAfter |-> wait, header |-> RetryAfterHeader(wait),
         body |-> RetryAfterBody(wait)]

\* Cutting to whole seconds takes less than a second away.
LEMMA HeaderShort ==
    ASSUME NEW w \in Nat
    PROVE  /\ RetryAfterHeader(w) \in Nat
           /\ w <= RetryAfterHeader(w) * Second + (Second - 1)
  BY RateLimiterAssumption DEF RetryAfterHeader

\* Rounding to whole seconds takes less than half a second away.
LEMMA BodyShort ==
    ASSUME NEW w \in Nat
    PROVE  /\ RetryAfterBody(w) \in Nat
           /\ w <= RetryAfterBody(w) * Second + (Second - 1) \div 2
<1> DEFINE a == 2 * w + Second
           b == 2 * Second
           k == a \div b
           half == (Second - 1) \div 2
<1>0. Second \in Nat \ {0}
  BY RateLimiterAssumption
<1>1. a \in Nat /\ b \in Nat \ {0}
  BY <1>0
<1>2. k \in Nat /\ a < b * k + b
  <2> HIDE DEF a, b
  <2> QED
    BY <1>1
<1> DEFINE ticks == k * Second
<1>3. ticks \in Nat /\ b * k = 2 * ticks
  <2> HIDE DEF k
  <2> QED
    BY <1>0, <1>2
<1>4. half \in Int /\ Second - 1 < 2 * half + 2
  BY <1>0
<1>5. a < 2 * ticks + b
  BY <1>2, <1>3
<1> HIDE DEF ticks, half, k
<1>6. w <= ticks + half
  BY <1>0, <1>3, <1>4, <1>5
<1> QED
  BY <1>2, <1>6 DEF RetryAfterBody, ticks, half, k

\* A log that is not empty has an oldest entry.
LEMMA OldestMember ==
    ASSUME NEW S \in SUBSET [id: Requests, stamp: Nat], S # {}
    PROVE  Oldest(S) \in S
<1> DEFINE T == {e.stamp : e \in S}
<1>1. T \subseteq Nat /\ T # {}
  OBVIOUS
<1>2. PICK n \in T : \A m \in T : n <= m
  <2> HIDE DEF T
  <2>1. PICK n \in T : \A m \in T : ~(<<m, n>> \in OpToRel(<, Nat))
    BY <1>1, NatLessThanWellFounded, WFMin
  <2>2. ASSUME NEW m \in T PROVE n <= m
    <3>1. m \in Nat /\ n \in Nat
      BY <1>1
    <3>2. ~(m < n)
      BY <2>1, <3>1 DEF OpToRel
    <3> QED
      BY <3>1, <3>2
  <2> QED
    BY <2>2
<1>3. PICK e \in S : e.stamp = n
  BY <1>2
<1>4. \A f \in S : e.stamp <= f.stamp
  BY <1>2, <1>3
<1> QED
  BY <1>4 DEF Oldest

\* A set of admissions is finite.
LEMMA AdmissionsFinite ==
    ASSUME Shape, NEW S \in SUBSET admitted
    PROVE  IsFiniteSet(S) /\ Cardinality(S) \in Nat
  BY SubsetBound DEF Shape

\* A denial counted what it kept, and told how long.
LEMMA DenyIsCounted ==
    ASSUME RateInv, RateInv', NEW q \in pending, Deny(q)
    PROVE  Told(Denial(q)) /\ Counted(Denial(q), log', admitted')
<1> DEFINE kept == Unexpired(q.stamp)
<1>1. log' = kept /\ admitted' = admitted /\ ~(Cardinality(kept) < Limit)
  BY DEF Deny, HasRoom
<1>2. kept \subseteq admitted /\ kept \in SUBSET [id: Requests, stamp: Nat]
  BY DEF RateInv, Shape, Unexpired
<1>3. IsFiniteSet(kept) /\ Cardinality(kept) \in Nat
  BY <1>2, AdmissionsFinite DEF RateInv
<1>4. Cardinality(kept) <= Limit
  BY <1>1 DEF RateInv, LogBounded
<1>5. kept # {}
  BY <1>1, FS_EmptySet, RateLimiterAssumption
<1>6. Oldest(kept) \in kept
  <2> HIDE DEF kept
  <2> QED
    BY <1>2, <1>5, OldestMember
<1>7. Oldest(kept).stamp \in Nat /\ q.stamp \in Nat /\ Window \in Nat
  BY <1>2, <1>6, RateLimiterAssumption DEF RateInv, Shape
<1> DEFINE o == Oldest(kept)
<1>8. /\ o.stamp + Window = q.stamp + (o.stamp + Window - q.stamp)
      /\ o.stamp + Window - q.stamp \in Nat
  <2>1. o.stamp > q.stamp - Window
    BY <1>6 DEF Unexpired
  <2> HIDE DEF o
  <2> QED
    BY <1>7, <2>1 DEF o
<1>9. /\ kept \in SUBSET admitted' /\ log' \subseteq kept
      /\ Cardinality(kept) <= Limit /\ o \in kept
  BY <1>1, <1>2, <1>4, <1>6
<1> HIDE DEF kept, o
<1>10. RetryAfter(kept, q.stamp) = o.stamp + Window - q.stamp
  BY DEF RetryAfter, o
<1>11. Denial(q).stamp = q.stamp
       /\ Denial(q).retryAfter = RetryAfter(kept, q.stamp)
       /\ Denial(q).header = RetryAfterHeader(Denial(q).retryAfter)
       /\ Denial(q).body = RetryAfterBody(Denial(q).retryAfter)
  BY DEF Denial, kept
<1>12. Told(Denial(q))
  BY <1>7, <1>8, <1>10, <1>11 DEF Told
<1> QED
  BY <1>8, <1>9, <1>10, <1>11, <1>12 DEF Counted

\* The refusals so far stay counted while the log only loses entries.
LEMMA CountedShrinks ==
    ASSUME NEW d, Counted(d, log, admitted), admitted' = admitted,
           log' \subseteq log
    PROVE  Counted(d, log', admitted')
  BY DEF Counted

\* Every step keeps the denials' account.
LEMMA RetryStep ==
    ASSUME RateInv, RateInv', RetryInv, [Next]_vars
    PROVE  RetryInv'
<1>1. ASSUME NEW q \in pending, Admit(q) PROVE RetryInv'
  <2>1. /\ admitted' = admitted \cup {q} /\ refused' = refused
        /\ pending' = pending \ {q} /\ q \notin admitted
    BY <1>1 DEF Admit, RetryInv, AnsweredOnce
  <2>2. AnsweredOnce'
    BY <2>1 DEF RetryInv, AnsweredOnce
  <2>3. \A d \in refused' : d.seen # admitted' /\ Told(d)
    BY <2>1 DEF RetryInv, AnsweredOnce
  <2> QED
    BY <2>2, <2>3 DEF RetryInv
<1>2. ASSUME NEW q \in pending, Deny(q) PROVE RetryInv'
  <2> DEFINE new == Denial(q)
  <2>1. /\ admitted' = admitted /\ pending' = pending \ {q}
        /\ refused' = refused \cup {new} /\ log' \subseteq log
    BY <1>2 DEF Deny, Denial, Unexpired
  <2>2. Told(new) /\ Counted(new, log', admitted')
    BY <1>2, DenyIsCounted
  <2>3. new.seen = admitted
    BY DEF Denial
  <2> HIDE DEF new
  <2>4. AnsweredOnce'
    BY <2>1, <2>3 DEF RetryInv, AnsweredOnce
  <2>5. ASSUME NEW d \in refused', d.seen = admitted' PROVE Counted(d, log', admitted')
    BY <2>1, <2>2, <2>5, CountedShrinks DEF RetryInv
  <2>6. \A d \in refused' : Told(d)
    BY <2>1, <2>2 DEF RetryInv
  <2> QED
    BY <2>4, <2>5, <2>6 DEF RetryInv
<1>3. ASSUME refused' = refused, admitted' = admitted, log' \subseteq log,
             pending' \cap admitted = {}
      PROVE  RetryInv'
  <2>1. AnsweredOnce'
    BY <1>3 DEF RetryInv, AnsweredOnce
  <2>2. ASSUME NEW d \in refused', d.seen = admitted' PROVE Counted(d, log', admitted')
    BY <1>3, <2>2, CountedShrinks DEF RetryInv
  <2>3. \A d \in refused' : Told(d)
    BY <1>3 DEF RetryInv
  <2> QED
    BY <2>1, <2>2, <2>3 DEF RetryInv
<1>4. CASE Tick
  <2>1. log' \subseteq log
    BY <1>4 DEF Tick
  <2> QED
    BY <1>3, <1>4, <2>1 DEF Tick, RetryInv, AnsweredOnce
<1>5. ASSUME NEW r \in Requests, Allow(r) PROVE RetryInv'
  <2>1. \A a \in admitted : a.id # r
    BY <1>5 DEF Allow, Known
  <2>2. pending' \cap admitted = {}
    BY <1>5, <2>1 DEF Allow, RetryInv, AnsweredOnce
  <2> QED
    BY <1>3, <1>5, <2>2 DEF Allow
<1>6. ASSUME NEW q \in pending, AllowFails(q) PROVE RetryInv'
  BY <1>3, <1>6 DEF AllowFails, RetryInv, AnsweredOnce
<1>7. CASE UNCHANGED vars
  BY <1>3, <1>7 DEF vars, RetryInv, AnsweredOnce
<1> QED
  BY <1>1, <1>2, <1>4, <1>5, <1>6, <1>7 DEF Next

\* An account of the log leaves room from retry_after on.
LEMMA CountedSuffices ==
    ASSUME RateInv, NEW d, Counted(d, log, admitted),
           NEW t \in Int, d.stamp + d.retryAfter <= t
    PROVE  HasRoom(Unexpired(t))
<1>1. PICK S \in SUBSET admitted :
        /\ log \subseteq S
        /\ Cardinality(S) <= Limit
        /\ \E o \in S : o.stamp + Window = d.stamp + d.retryAfter
  BY DEF Counted
<1>2. PICK o \in S : o.stamp + Window = d.stamp + d.retryAfter
  BY <1>1
<1>3. /\ o.stamp \in Nat /\ Window \in Nat /\ Limit \in Nat
      /\ o.stamp + Window <= t
  BY <1>1, <1>2, RateLimiterAssumption DEF RateInv, Shape
<1> DEFINE left == Unexpired(t)
<1>4. o \notin left
  BY <1>3 DEF Unexpired
<1>5. left \subseteq S \ {o}
  BY <1>1, <1>4 DEF Unexpired
<1>6. IsFiniteSet(S) /\ Cardinality(S) \in Nat
  BY AdmissionsFinite DEF RateInv
<1>7. IsFiniteSet(S \ {o}) /\ Cardinality(S \ {o}) = Cardinality(S) - 1
  BY <1>6, FS_RemoveElement
<1> HIDE DEF left
<1>8. Cardinality(left) \in Nat /\ Cardinality(left) <= Cardinality(S \ {o})
  BY <1>5, <1>7, SubsetBound
<1>9. Cardinality(left) < Limit
  BY <1>1, <1>3, <1>6, <1>7, <1>8
<1> QED
  BY <1>9 DEF HasRoom, left

\* A denied client that waits less than a second longer than Retry-After says,
\* or less than half a second longer than retry_after in the body, finds room
\* as long as nobody else was admitted, for any limit, window, number of
\* callers and order of arrival (rate_limit.lua and the allow of
\* middleware/rate_limit.go).
THEOREM RetryAfterNearlySufficesHolds == Spec => []RetryAfterNearlySuffices
<1>1. Init => RetryInv
  BY DEF Init, RetryInv, AnsweredOnce
<1>2. RateInv /\ RetryInv => RetryAfterNearlySuffices
  <2> SUFFICES ASSUME RateInv, RetryInv, NEW d \in refused, d.seen = admitted
               PROVE  /\ HasRoom(Unexpired(d.stamp + d.header * Second
                                            + (Second - 1)))
                      /\ HasRoom(Unexpired(d.stamp + d.body * Second
                                            + (Second - 1) \div 2))
    BY DEF RetryAfterNearlySuffices
  <2> DEFINE byHeader == d.header * Second + (Second - 1)
             byBody == d.body * Second + (Second - 1) \div 2
  <2>1. Counted(d, log, admitted) /\ Told(d)
    BY DEF RetryInv
  <2>2. Second \in Nat \ {0} /\ d.stamp \in Nat /\ d.retryAfter \in Nat
    BY <2>1, RateLimiterAssumption DEF Told
  <2>3. d.header \in Nat /\ d.retryAfter <= byHeader
    BY <2>1, <2>2, HeaderShort DEF Told
  <2>4. d.body \in Nat /\ d.retryAfter <= byBody
    BY <2>1, <2>2, BodyShort DEF Told
  <2>5. /\ d.header * Second \in Nat /\ d.body * Second \in Nat
        /\ Second - 1 \in Nat /\ (Second - 1) \div 2 \in Nat
    BY <2>2, <2>3, <2>4
  <2>6. /\ d.stamp + d.header * Second + (Second - 1) \in Int
        /\ d.stamp + d.retryAfter <= d.stamp + d.header * Second + (Second - 1)
    BY <2>2, <2>3, <2>5
  <2>7. /\ d.stamp + d.body * Second + (Second - 1) \div 2 \in Int
        /\ d.stamp + d.retryAfter
             <= d.stamp + d.body * Second + (Second - 1) \div 2
    BY <2>2, <2>4, <2>5
  <2> QED
    BY <2>1, <2>6, <2>7, CountedSuffices
<1>3. RateInv /\ RateInv' /\ RetryInv /\ [Next]_vars => RetryInv'
  BY RetryStep
<1> QED
  BY <1>1, <1>2, <1>3, RateInvariant, PTL DEF Spec

----------------------------------------------------------------------------
(* Nobody is refused without cause. *)

\* What the log holds when a script runs is no newer than the clocks allow.
LEMMA LogInTime ==
    ASSUME RateInv, NEW q \in pending, NEW a \in log
    PROVE  /\ a.stamp \in Nat /\ q.stamp \in Nat /\ Slack \in Nat
           /\ a.stamp <= q.stamp + Slack
<1>1. /\ a \in admitted /\ a.stamp \in Nat /\ q.stamp \in Nat /\ now \in Nat
      /\ MaxLag \in Nat /\ MaxSkew \in Nat
  BY RateLimiterAssumption DEF RateInv, Shape
<1>2. a.stamp <= now + MaxSkew /\ now <= q.stamp + MaxLag
  BY <1>1 DEF RateInv, StampsInTime
<1> QED
  BY <1>1, <1>2 DEF Slack

\* The denial that is answered now has its cause in the log.
LEMMA DenyIsJustified ==
    ASSUME RateInv, RefusalsJustified, NEW q \in pending, Deny(q)
    PROVE  RefusalsJustified'
<1> DEFINE kept == Unexpired(q.stamp)
           new == Denial(q)
           cause == {a \in admitted : /\ a.stamp > q.stamp - Window
                                      /\ a.stamp <= q.stamp + Slack}
<1>1. refused' = refused \cup {new} /\ ~(Cardinality(kept) < Limit)
  BY DEF Deny, Denial, HasRoom
<1>2. kept \subseteq log /\ kept \in SUBSET [id: Requests, stamp: Nat]
      /\ kept \subseteq admitted
  BY DEF RateInv, Shape, Unexpired
<1>3. \A a \in kept : a.stamp <= q.stamp + Slack /\ a.stamp > q.stamp - Window
  BY <1>2, LogInTime DEF Unexpired
<1>4. kept \subseteq cause
  BY <1>2, <1>3
<1>5. /\ IsFiniteSet(cause) /\ Cardinality(cause) \in Nat
      /\ Cardinality(kept) \in Nat
  BY <1>2, AdmissionsFinite DEF RateInv
<1>6. Cardinality(kept) <= Cardinality(cause)
  BY <1>4, <1>5, SubsetBound
<1>7. kept # {}
  BY <1>1, FS_EmptySet, RateLimiterAssumption
<1> DEFINE o == Oldest(kept)
<1>8. o \in kept
  <2> HIDE DEF kept
  <2> QED
    BY <1>2, <1>7, OldestMember
<1>9. new.seen = admitted /\ new.stamp = q.stamp
      /\ new.retryAfter = o.stamp + Window - q.stamp
  BY DEF Denial, RetryAfter
<1>10. /\ o.stamp \in Nat /\ q.stamp \in Nat /\ Slack \in Nat /\ Window \in Nat
       /\ Limit \in Nat
       /\ o.stamp <= q.stamp + Slack /\ o.stamp > q.stamp - Window
  BY <1>2, <1>3, <1>8, LogInTime, RateLimiterAssumption
<1> HIDE DEF o, kept, new
<1>11. new.retryAfter \in 1..(Window + Slack)
  BY <1>9, <1>10
<1>12. Cardinality(cause) >= Limit
  BY <1>1, <1>5, <1>6, <1>10
<1> QED
  BY <1>1, <1>9, <1>11, <1>12 DEF RefusalsJustified

\* Every request that rate_limit.lua denies had the limit of admissions in its
\* window, widened by lag and skew, and is replied a positive and bounded wait,
\* for any limit, window, number of callers and order of arrival.
THEOREM RefusalsJustifiedHolds == Spec => []RefusalsJustified
<1>1. Init => RefusalsJustified
  BY DEF Init, RefusalsJustified
<1>2. RateInv /\ RefusalsJustified /\ [Next]_vars => RefusalsJustified'
  <2> SUFFICES ASSUME RateInv, RefusalsJustified, [Next]_vars
               PROVE  RefusalsJustified'
    OBVIOUS
  <2>1. CASE refused' = refused
    BY <2>1 DEF RefusalsJustified
  <2>2. ASSUME NEW q \in pending, Deny(q) PROVE RefusalsJustified'
    BY <2>2, DenyIsJustified
  <2> QED
    BY <2>1, <2>2 DEF Next, vars, Allow, Admit, AllowFails, Tick
<1> QED
  BY <1>1, <1>2, RateInvariant, PTL DEF Spec

=============================================================================
