------------------------ MODULE TokenLifetimesProofs ------------------------
(***************************************************************************)
(* Theorems about token lifetimes, for any number of instances, any        *)
(* resolution and disagreement of the clocks, any lifetimes and any number *)
(* of refreshes.                                                           *)
(***************************************************************************)
EXTENDS TokenLifetimes, TLAPS

USE LifetimesAssumption

----------------------------------------------------------------------------
(* The inductive invariant. *)

\* The clocks, the configuration and the keys hold times.
TimesOK ==
    /\ config \in [access: Nat, refresh: Nat, session: Nat]
    /\ config.access <= MaximumAccess
    /\ skew \in [Instances -> Nat]
    /\ now \in Nat
    /\ serial \in Nat
    /\ store \in [jti: Nat, jtiUntil: Nat, until: Nat]

\* What generateToken put into a token and its clock has not undone since.
Minted(t, type, lifetime) ==
    /\ t.type = type /\ (t.snapshot <=> type = "access")
    /\ t.by \in Instances
    /\ t.jti \in 1..serial
    /\ t.minted \in Nat /\ t.minted <= Clock(t.by)
    /\ t.told = t.minted + lifetime
    /\ t.exp = NumericDate(t.told)
    /\ t.nbf = NumericDate(t.minted)
    /\ t.iat = NumericDate(t.minted)

\* If the session is at this token's jti, both keys were written after the
\* token was minted.
StoredAfter(t) ==
    store.jti = t.jti =>
        /\ t.minted + WholeSeconds(config.refresh)
               <= store.jtiUntil + skew[t.by]
        /\ t.minted + WholeSeconds(config.session)
               <= store.until + skew[t.by]

\* Stages of a request that has minted a refresh token and not answered yet.
Pending == {"create", "access", "rotate"}

\* What the request under way has minted; its jti is the newest.
RequestOK ==
    /\ request.stage \in Pending \cup {"none", "mint"}
    /\ request.stage \in {"create", "access"} =>
          request = [stage |-> request.stage, by |-> request.by,
                     refresh |-> request.refresh]
    /\ request.stage \in Pending \cup {"mint"} => request.by \in Instances
    /\ request.stage \in Pending =>
          /\ Minted(request.refresh, "refresh", config.refresh)
          /\ request.refresh.jti = serial
    /\ request.stage = "access" => StoredAfter(request.refresh)
    /\ request.stage = "rotate" =>
          /\ Minted(request.access, "access", config.access)
          /\ request.access.jti = serial

\* What the client holds.
AnswersOK ==
    \A a \in answers :
        /\ Minted(a.refresh, "refresh", config.refresh)
        /\ Minted(a.access, "access", config.access)
        /\ a.access.jti = a.refresh.jti
        /\ StoredAfter(a.refresh)
        /\ request.stage \in Pending => a.refresh.jti # serial

LifetimesInv == TimesOK /\ RequestOK /\ AnswersOK

----------------------------------------------------------------------------
(* Rounding. *)

\* jwt.NewNumericDate cuts off less than a second and adds nothing.
LEMMA NumericDateCutsOff ==
    ASSUME NEW t \in Nat
    PROVE  /\ NumericDate(t) \in Nat
           /\ NumericDate(t) <= t
           /\ t < NumericDate(t) + Second
<1> DEFINE q == t \div Second
           r == t % Second
<1>1. Second \in Nat /\ Second > 0
  OBVIOUS
<1>2. q \in Nat /\ r \in Nat /\ r < Second /\ t = Second * q + r
  BY <1>1
<1>3. q * Second = Second * q /\ q * Second \in Nat
  BY <1>1, <1>2
<1>4. NumericDate(t) = q * Second
  BY DEF NumericDate
<1> HIDE DEF q, r
<1> QED
  BY <1>1, <1>2, <1>3, <1>4

\* int64(d.Seconds()) cuts off the same.
LEMMA WholeSecondsCutOff ==
    ASSUME NEW d \in Nat
    PROVE  /\ WholeSeconds(d) \in Nat
           /\ WholeSeconds(d) <= d
           /\ d < WholeSeconds(d) + Second
  BY NumericDateCutsOff DEF NumericDate, WholeSeconds

----------------------------------------------------------------------------
(* Every step keeps the invariant. *)

\* A token stays what it was minted as while time passes and identities are
\* generated.
LEMMA MintedStays ==
    ASSUME TimesOK, TimesOK', UNCHANGED <<config, skew>>,
           now' >= now, serial' >= serial,
           NEW t, NEW type, NEW n, Minted(t, type, n)
    PROVE  Minted(t, type, n)'
  BY DEF Minted, TimesOK, Clock, NumericDate

\* generateToken mints such a token.
LEMMA GenerateTokenMints ==
    ASSUME TimesOK, TimesOK', UNCHANGED <<config, skew, now>>,
           NEW i \in Instances, NEW type, NEW j \in 1..serial', NEW n \in Nat,
           NEW g, g = GenerateToken(i, type, j, n)
    PROVE  /\ Minted(g, type, n)'
           /\ g.jti = j /\ g.by = i
<1>1. /\ g.type = type /\ g.jti = j /\ g.by = i
      /\ g.minted = Clock(i) /\ g.told = Clock(i) + n
      /\ g.exp = NumericDate(Clock(i) + n)
      /\ g.nbf = NumericDate(Clock(i)) /\ g.iat = NumericDate(Clock(i))
  BY Zenon DEF GenerateToken
<1>2. g.snapshot <=> type = "access"
  BY Zenon DEF GenerateToken
<1>3. Clock(i) \in Nat /\ Clock(i)' = Clock(i)
  BY DEF Clock, TimesOK
<1> QED
  BY <1>1, <1>2, <1>3 DEF Minted, NumericDate

\* The scripts write both keys after everything minted so far.
LEMMA StoreComesAfter ==
    ASSUME TimesOK, UNCHANGED <<config, skew, now>>, NEW j, Store(j),
           NEW t, NEW type, NEW n, Minted(t, type, n)
    PROVE  StoredAfter(t)'
<1>1. /\ WholeSeconds(config.refresh) \in Nat
      /\ WholeSeconds(config.session) \in Nat
  BY WholeSecondsCutOff DEF TimesOK
<1>2. /\ store'.jtiUntil = now + WholeSeconds(config.refresh)
      /\ store'.until = now + WholeSeconds(config.session)
  BY DEF Store
<1>3. /\ WholeSeconds(config.refresh)' = WholeSeconds(config.refresh)
      /\ WholeSeconds(config.session)' = WholeSeconds(config.session)
  BY DEF WholeSeconds
<1>4. /\ t.minted \in Nat /\ now \in Nat /\ skew[t.by] \in Nat
      /\ t.minted <= now + skew[t.by] /\ skew'[t.by] = skew[t.by]
  BY DEF Minted, TimesOK, Clock
<1> QED
  BY <1>1, <1>2, <1>3, <1>4 DEF StoredAfter

\* Every step writes times into the keys and leaves the lifetimes alone.
LEMMA TimesStep == TimesOK /\ RequestOK /\ [Next]_vars => TimesOK'
<1> SUFFICES ASSUME TimesOK, RequestOK, [Next]_vars PROVE TimesOK'
  OBVIOUS
<1>1. WholeSeconds(config.refresh) \in Nat /\ WholeSeconds(config.session) \in Nat
  BY WholeSecondsCutOff DEF TimesOK
<1>2. ASSUME NEW j \in Nat, Store(j)
      PROVE  store' \in [jti: Nat, jtiUntil: Nat, until: Nat]
  BY <1>1, <1>2 DEF Store, TimesOK
<1>3. config' = config /\ skew' = skew
  BY DEF Next, vars, LoginMint, LoginCreate, LoginAnswer, RefreshBegin,
         RefreshMint, RefreshRotate, Abandon, EndSession, Tick
<1>4. now' \in Nat /\ serial' \in Nat
  BY DEF Next, vars, LoginMint, LoginCreate, LoginAnswer, RefreshBegin,
         RefreshMint, RefreshRotate, Abandon, EndSession, Tick, TimesOK
<1>5. store' \in [jti: Nat, jtiUntil: Nat, until: Nat]
  <2>1. CASE store' = store
    BY <2>1 DEF TimesOK
  <2>2. CASE LoginCreate
    <3>1. request.refresh.jti \in Nat
      BY <2>2 DEF LoginCreate, RequestOK, Pending, TimesOK
    <3> QED
      BY <1>2, <2>1, <2>2, <3>1 DEF LoginCreate
  <2>3. CASE RefreshRotate
    <3>1. request.refresh.jti \in Nat
      BY <2>3 DEF RefreshRotate, RequestOK, Pending, TimesOK
    <3> QED
      BY <1>2, <2>1, <2>3, <3>1 DEF RefreshRotate
  <2>4. CASE EndSession
    BY <2>4 DEF EndSession, NoSession
  <2> QED
    BY <2>1, <2>2, <2>3, <2>4
       DEF Next, vars, LoginMint, LoginAnswer, RefreshBegin, RefreshMint,
           Abandon, Tick
<1> QED
  BY <1>3, <1>4, <1>5 DEF TimesOK

\* Time and the number of identities only grow; the rest is configuration.
LEMMA StepGrows ==
    ASSUME TimesOK, [Next]_vars
    PROVE  /\ UNCHANGED <<config, skew>>
           /\ now' >= now /\ serial' >= serial
<1> SUFFICES ASSUME now \in Nat, serial \in Nat
             PROVE  /\ UNCHANGED <<config, skew>>
                    /\ now' >= now /\ serial' >= serial
  BY DEF TimesOK
<1> QED
  BY DEF Next, vars, LoginMint, LoginCreate, LoginAnswer, RefreshBegin,
         RefreshMint, RefreshRotate, Abandon, EndSession, Tick

\* Each step of a login or a refresh, each failure, the end of the session and
\* the passing of time keep the invariant.
LEMMA LifetimesInvStep == LifetimesInv /\ [Next]_vars => LifetimesInv'
<1> SUFFICES ASSUME LifetimesInv, [Next]_vars PROVE LifetimesInv'
  OBVIOUS
<1> USE DEF LifetimesInv
<1>1. TimesOK'
  BY TimesStep
<1>2. /\ config' = config /\ skew' = skew
      /\ now' >= now /\ serial' >= serial
  BY StepGrows
<1>3. \A t, type, n : Minted(t, type, n) => Minted(t, type, n)'
  BY <1>1, <1>2, MintedStays
<1>4. ASSUME store' = store, NEW t, StoredAfter(t) PROVE StoredAfter(t)'
  BY <1>2, <1>4 DEF StoredAfter, WholeSeconds
<1>5. ASSUME NEW a \in answers
      PROVE  /\ Minted(a.refresh, "refresh", config.refresh)'
             /\ Minted(a.access, "access", config.access)'
             /\ a.access.jti = a.refresh.jti
             /\ a.refresh.jti \in 1..serial
  BY <1>2, <1>3, <1>5 DEF AnswersOK, Minted
\* A step that leaves the store and the answers alone, and generates what it
\* needs a new identity for, keeps what the client holds.
<1>6. ASSUME store' = store, answers' = answers,
             request'.stage \in Pending =>
                 \/ request.stage \in Pending /\ serial' = serial
                 \/ serial' = serial + 1
      PROVE  AnswersOK'
  <2> SUFFICES ASSUME NEW a \in answers
               PROVE  /\ StoredAfter(a.refresh)'
                      /\ request'.stage \in Pending => a.refresh.jti # serial'
    BY <1>5, <1>6 DEF AnswersOK
  <2>1. StoredAfter(a.refresh)'
    BY <1>4, <1>6 DEF AnswersOK
  <2>2. request'.stage \in Pending => a.refresh.jti # serial'
    BY <1>5, <1>6 DEF AnswersOK, TimesOK
  <2> QED
    BY <2>1, <2>2
<1>7. ASSUME NEW i \in Instances, LoginMint(i) PROVE LifetimesInv'
  <2>1. PICK g : g = GenerateToken(i, "refresh", serial + 1, config.refresh)
    OBVIOUS
  <2>2. /\ request' = [stage |-> "create", by |-> i, refresh |-> g]
        /\ serial' = serial + 1 /\ now' = now
        /\ store' = store /\ answers' = answers
    BY <1>7, <2>1 DEF LoginMint
  <2>3. serial + 1 \in 1..serial' /\ config.refresh \in Nat
    BY <2>2 DEF TimesOK
  <2>4. Minted(g, "refresh", config.refresh)' /\ g.jti = serial'
    BY <1>1, <1>2, <2>1, <2>2, <2>3, GenerateTokenMints
  <2>5. RequestOK'
    BY <2>2, <2>4 DEF RequestOK, Pending
  <2> QED
    BY <1>1, <1>6, <2>2, <2>5
<1>8. CASE LoginCreate
  <2>1. PICK r : r = request.refresh
    OBVIOUS
  <2>2. /\ request = [stage |-> "create", by |-> request.by, refresh |-> r]
        /\ request.by \in Instances
        /\ Minted(r, "refresh", config.refresh) /\ r.jti = serial
        /\ answers' = answers /\ serial' = serial /\ now' = now
    BY <1>8, <2>1 DEF LoginCreate, RequestOK, Pending
  <2>3. CASE request' = NoRequest /\ store' = store
    <3>1. RequestOK'
      BY <2>3 DEF RequestOK, NoRequest, Pending
    <3> QED
      BY <1>1, <1>6, <2>2, <2>3, <3>1 DEF NoRequest, Pending
  <2>4. CASE request' = [request EXCEPT !.stage = "access"] /\ Store(r.jti)
    <3>1. request' = [stage |-> "access", by |-> request.by, refresh |-> r]
      BY <2>2, <2>4
    <3>2. StoredAfter(r)'
      BY <1>2, <2>2, <2>4, StoreComesAfter
    <3>3. RequestOK'
      BY <1>2, <1>3, <2>2, <3>1, <3>2 DEF RequestOK, Pending
    <3>4. store'.jti = serial
      BY <2>2, <2>4 DEF Store
    <3>5. \A a \in answers : a.refresh.jti # serial
      BY <2>2 DEF AnswersOK, Pending
    <3>6. AnswersOK'
      BY <1>5, <2>2, <3>4, <3>5 DEF AnswersOK, StoredAfter
    <3> QED
      BY <1>1, <3>3, <3>6
  <2> QED
    BY <1>8, <2>1, <2>3, <2>4 DEF LoginCreate
<1>9. CASE LoginAnswer
  <2>1. PICK r : r = request.refresh
    OBVIOUS
  <2>2. PICK g : g = GenerateToken(request.by, "access", r.jti, config.access)
    OBVIOUS
  <2>3. /\ request.by \in Instances
        /\ Minted(r, "refresh", config.refresh) /\ r.jti = serial
        /\ r.jti \in 1..serial
        /\ StoredAfter(r)
        /\ store' = store /\ serial' = serial /\ now' = now
        /\ answers' = answers \cup {[refresh |-> r, access |-> g]}
        /\ request' = NoRequest
    BY <1>9, <2>1, <2>2 DEF LoginAnswer, Answer, RequestOK, Pending, Minted
  <2>4. Minted(g, "access", config.access)' /\ g.jti = r.jti
    <3>1. config.access \in Nat
      BY DEF TimesOK
    <3> QED
      BY <1>1, <1>2, <2>2, <2>3, <3>1, GenerateTokenMints
  <2>5. RequestOK'
    BY <2>3 DEF RequestOK, NoRequest, Pending
  <2>6. Minted(r, "refresh", config.refresh)' /\ StoredAfter(r)'
    BY <1>2, <1>3, <1>4, <2>3
  <2>7. \A a \in answers : StoredAfter(a.refresh)'
    BY <1>4, <2>3 DEF AnswersOK
  <2>8. request'.stage \notin Pending
    BY <2>3 DEF NoRequest, Pending
  <2>9. AnswersOK'
    BY <1>5, <2>3, <2>4, <2>6, <2>7, <2>8 DEF AnswersOK
  <2> QED
    BY <1>1, <2>5, <2>9
<1>10. ASSUME NEW i \in Instances, NEW t, RefreshBegin(i, t)
       PROVE  LifetimesInv'
  <2>1. RequestOK'
    BY <1>10 DEF RefreshBegin, RequestOK, Pending
  <2> QED
    BY <1>1, <1>6, <1>10, <2>1 DEF RefreshBegin, Pending
<1>11. CASE RefreshMint
  <2>1. PICK g : g = GenerateToken(request.by, "refresh", serial + 1,
                                   config.refresh)
    OBVIOUS
  <2>2. PICK h : h = GenerateToken(request.by, "access", serial + 1,
                                   config.access)
    OBVIOUS
  <2>3. /\ request' = [stage |-> "rotate", by |-> request.by,
                       old |-> request.old, refresh |-> g, access |-> h]
        /\ request.by \in Instances
        /\ serial' = serial + 1 /\ now' = now
        /\ store' = store /\ answers' = answers
    BY <1>11, <2>1, <2>2 DEF RefreshMint, RequestOK
  <2>4. /\ serial + 1 \in 1..serial'
        /\ config.refresh \in Nat /\ config.access \in Nat
    BY <2>3 DEF TimesOK
  <2>5. Minted(g, "refresh", config.refresh)' /\ g.jti = serial'
    BY <1>1, <1>2, <2>1, <2>3, <2>4, GenerateTokenMints
  <2>6. Minted(h, "access", config.access)' /\ h.jti = serial'
    BY <1>1, <1>2, <2>2, <2>3, <2>4, GenerateTokenMints
  <2>7. RequestOK'
    BY <2>3, <2>5, <2>6 DEF RequestOK, Pending
  <2> QED
    BY <1>1, <1>6, <2>3, <2>7
<1>12. CASE RefreshRotate
  <2>1. PICK r : r = request.refresh
    OBVIOUS
  <2>2. PICK h : h = request.access
    OBVIOUS
  <2>3. /\ Minted(r, "refresh", config.refresh) /\ r.jti = serial
        /\ Minted(h, "access", config.access) /\ h.jti = serial
        /\ \A a \in answers : a.refresh.jti # serial
    BY <1>12, <2>1, <2>2 DEF RefreshRotate, RequestOK, AnswersOK, Pending
  <2>4. request' = NoRequest /\ serial' = serial /\ now' = now
    BY <1>12 DEF RefreshRotate, Answer
  <2>5. RequestOK' /\ request'.stage \notin Pending
    BY <2>4 DEF RequestOK, NoRequest, Pending
  <2>6. CASE store' = store /\ answers' = answers
    BY <1>1, <1>6, <2>5, <2>6
  <2>7. CASE Store(r.jti) /\ answers' = answers \cup {[refresh |-> r, access |-> h]}
    <3>1. StoredAfter(r)'
      BY <1>2, <2>3, <2>4, <2>7, StoreComesAfter
    <3>2. \A a \in answers : StoredAfter(a.refresh)'
      BY <2>3, <2>7 DEF Store, StoredAfter
    <3>3. /\ Minted(r, "refresh", config.refresh)'
          /\ Minted(h, "access", config.access)'
      BY <1>2, <1>3, <2>3
    <3>4. AnswersOK'
      BY <1>5, <2>3, <2>5, <2>7, <3>1, <3>2, <3>3 DEF AnswersOK
    <3> QED
      BY <1>1, <2>5, <3>4
  <2> QED
    BY <1>12, <2>1, <2>2, <2>6, <2>7 DEF RefreshRotate, Answer
<1>13. CASE Abandon
  <2>1. RequestOK'
    BY <1>13 DEF Abandon, RequestOK, NoRequest, Pending
  <2> QED
    BY <1>1, <1>6, <1>13, <2>1 DEF Abandon, NoRequest, Pending
<1>14. CASE EndSession
  <2>1. /\ store'.jti = 0 /\ request' = request /\ answers' = answers
        /\ serial' = serial
    BY <1>14 DEF EndSession, NoSession
  <2>2. \A t, type, n : Minted(t, type, n) => StoredAfter(t)'
    BY <2>1 DEF Minted, StoredAfter, TimesOK
  <2>3. RequestOK'
    BY <1>2, <1>3, <2>1, <2>2 DEF RequestOK, Pending
  <2>4. \A a \in answers : StoredAfter(a.refresh)'
    BY <2>2 DEF AnswersOK
  <2>5. AnswersOK'
    BY <1>5, <2>1, <2>4 DEF AnswersOK
  <2> QED
    BY <1>1, <2>3, <2>5
<1>15. CASE Tick \/ UNCHANGED vars
  <2>1. /\ request' = request /\ answers' = answers
        /\ store' = store /\ serial' = serial
    BY <1>15 DEF Tick, vars
  <2>2. RequestOK'
    BY <1>2, <1>3, <1>4, <2>1 DEF RequestOK, Pending
  <2> QED
    BY <1>1, <1>6, <2>1, <2>2
<1> QED
  BY <1>7, <1>8, <1>9, <1>10, <1>11, <1>12, <1>13, <1>14, <1>15 DEF Next

\* Nothing is minted or stored in the beginning, and the configuration has
\* been validated.
LEMMA LifetimesInvInit == Init => LifetimesInv
<1> SUFFICES ASSUME Init PROVE LifetimesInv
  OBVIOUS
<1>1. config \in Environments /\ Validate(config)
  BY DEF Init
<1>2. /\ config \in [access: Nat, refresh: Nat, session: Nat]
      /\ config.access <= MaximumAccess
  BY <1>1 DEF Environments, Validate
<1>3. TimesOK
  BY <1>2 DEF Init, TimesOK, NoSession
<1>4. RequestOK /\ AnswersOK
  BY DEF Init, RequestOK, AnswersOK, NoRequest, Pending
<1> QED
  BY <1>3, <1>4 DEF LifetimesInv

\* Every token the client or the request holds is what generateToken made it,
\* and the keys of the session were written after the token they stand for.
THEOREM LifetimesInvariant == Spec => []LifetimesInv
  BY LifetimesInvInit, LifetimesInvStep, PTL DEF Spec

----------------------------------------------------------------------------
(* The two ends of a life. *)

\* No instance accepts a token after the expiry it carries, and that is never
\* later than the one the client was told.
LEMMA ParsedInTime ==
    ASSUME TimesOK, NEW i \in Instances,
           NEW t, NEW type, NEW n \in Nat, Minted(t, type, n),
           ParseAndValidate(i, t)
    PROVE  Clock(i) < t.told
<1>1. t.told \in Nat
  BY DEF Minted
<1>2. NumericDate(t.told) \in Nat /\ NumericDate(t.told) <= t.told
  BY <1>1, NumericDateCutsOff
<1>3. Clock(i) \in Nat
  BY DEF Clock, TimesOK
<1>4. Clock(i) < NumericDate(t.told)
  BY DEF ParseAndValidate, Minted
<1> QED
  BY <1>1, <1>2, <1>3, <1>4

\* A token passes every check of ParseAndValidate from its issue to a second
\* before the told expiry, on the clock of the instance that parses it.
LEMMA ParsedThroughLife ==
    ASSUME TimesOK, NEW i \in Instances,
           NEW t, NEW type, NEW n \in Nat, Minted(t, type, n),
           InLife(i, t)
    PROVE  ParseAndValidate(i, t)
<1>1. /\ t.told \in Nat /\ t.minted \in Nat
      /\ Clock(i) \in Nat /\ Second \in Nat
      /\ t.minted <= Clock(i) /\ Clock(i) + Second <= t.told
  BY DEF Minted, Clock, TimesOK, InLife
<1>2. /\ t.exp \in Nat /\ t.told < t.exp + Second
      /\ t.iat \in Nat /\ t.iat <= t.minted /\ t.nbf = t.iat
  BY <1>1, NumericDateCutsOff DEF Minted
<1>3. t.iat <= Clock(i) /\ Clock(i) < t.exp /\ t.exp > t.iat
  BY <1>1, <1>2
<1>4. ToDomain(t)
  BY <1>3 DEF ToDomain, NewJWTClaims, Minted
<1> QED
  BY <1>2, <1>3, <1>4 DEF ParseAndValidate, ValidateClaims

\* The keys outlive the refresh token and the session lifetime up to the last
\* second, seen from the clock that minted the token.
LEMMA StoredThroughLife ==
    ASSUME TimesOK, NEW t, Minted(t, "refresh", config.refresh),
           StoredAfter(t), store.jti = t.jti,
           Clock(t.by) + Second <= t.told,
           Clock(t.by) + Second <= t.minted + config.session
    PROVE  ValidateSession(t.jti)
<1>1. /\ t.minted \in Nat /\ skew[t.by] \in Nat /\ now \in Nat /\ Second \in Nat
      /\ config.refresh \in Nat /\ config.session \in Nat
      /\ store.jtiUntil \in Nat /\ store.until \in Nat
      /\ now + skew[t.by] + Second <= t.minted + config.refresh
      /\ now + skew[t.by] + Second <= t.minted + config.session
  BY DEF Minted, Clock, TimesOK
<1>2. /\ WholeSeconds(config.refresh) \in Nat
      /\ config.refresh < WholeSeconds(config.refresh) + Second
      /\ WholeSeconds(config.session) \in Nat
      /\ config.session < WholeSeconds(config.session) + Second
  BY <1>1, WholeSecondsCutOff
<1>3. /\ t.minted + WholeSeconds(config.refresh) <= store.jtiUntil + skew[t.by]
      /\ t.minted + WholeSeconds(config.session) <= store.until + skew[t.by]
  BY DEF StoredAfter
<1>4. now < store.jtiUntil /\ now < store.until
  BY <1>1, <1>2, <1>3
<1> QED
  BY <1>4 DEF ValidateSession

\* No instance lets a request through on its clock's told expiry or later, nor
\* one with an access token older than the largest configurable lifetime,
\* whatever the clocks, the lifetimes and the roundings are.
THEOREM NeverPastToldHolds == Spec => []NeverPastTold
<1>1. LifetimesInv => NeverPastTold
  <2> SUFFICES ASSUME TimesOK, AnswersOK, NEW a \in answers, NEW i \in Instances
               PROVE  /\ Authenticates(i, a.access) =>
                             /\ Clock(i) < a.access.told
                             /\ Clock(i) < a.access.minted + MaximumAccess
                      /\ Refreshes(i, a.refresh) => Clock(i) < a.refresh.told
    BY DEF LifetimesInv, NeverPastTold
  <2>1. /\ Minted(a.access, "access", config.access)
        /\ Minted(a.refresh, "refresh", config.refresh)
        /\ config.access \in Nat /\ config.refresh \in Nat
    BY DEF AnswersOK, TimesOK
  <2>2. ASSUME Authenticates(i, a.access)
        PROVE  /\ Clock(i) < a.access.told
               /\ Clock(i) < a.access.minted + MaximumAccess
    <3>1. Clock(i) < a.access.told
      BY <2>1, <2>2, ParsedInTime DEF Authenticates
    <3>2. /\ a.access.told = a.access.minted + config.access
          /\ a.access.minted \in Nat /\ config.access <= MaximumAccess
          /\ Clock(i) \in Nat
      BY <2>1 DEF Minted, TimesOK, Clock
    <3> QED
      BY <2>1, <3>1, <3>2
  <2>3. ASSUME Refreshes(i, a.refresh) PROVE Clock(i) < a.refresh.told
    BY <2>1, <2>3, ParsedInTime DEF Refreshes
  <2> QED
    BY <2>2, <2>3
<1> QED
  BY <1>1, LifetimesInvariant, PTL

\* The pair answered last works on every instance from its issue to a second
\* before the told expiry, for every combination of lifetimes: the times of
\* minting and storing and the two roundings never cost more than that second.
THEOREM UsableThroughLifeHolds == Spec => []UsableThroughLife
<1>1. LifetimesInv => UsableThroughLife
  <2> SUFFICES ASSUME TimesOK, AnswersOK, NEW a \in answers, NEW i \in Instances,
                      store.jti = a.refresh.jti,
                      Clock(a.refresh.by) + Second <= a.refresh.told,
                      Clock(a.refresh.by) + Second
                          <= a.refresh.minted + config.session
               PROVE  /\ InLife(i, a.access) => Authenticates(i, a.access)
                      /\ InLife(i, a.refresh) => Refreshes(i, a.refresh)
    BY DEF LifetimesInv, UsableThroughLife
  <2>1. /\ Minted(a.access, "access", config.access)
        /\ Minted(a.refresh, "refresh", config.refresh)
        /\ StoredAfter(a.refresh)
        /\ a.access.jti = a.refresh.jti
        /\ config.access \in Nat /\ config.refresh \in Nat
    BY DEF AnswersOK, TimesOK
  <2>2. ValidateSession(a.refresh.jti)
    BY <2>1, StoredThroughLife
  <2>3. InLife(i, a.access) => Authenticates(i, a.access)
    BY <2>1, <2>2, ParsedThroughLife DEF Authenticates, Minted
  <2>4. InLife(i, a.refresh) => Refreshes(i, a.refresh)
    BY <2>1, <2>2, ParsedThroughLife DEF Refreshes, Minted
  <2> QED
    BY <2>3, <2>4
<1> QED
  BY <1>1, LifetimesInvariant, PTL

=============================================================================
