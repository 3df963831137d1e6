------------------------- MODULE PasswordGateProofs -------------------------
(***************************************************************************)
(* No slot of the password hasher is lost and none is used for a costlier  *)
(* derivation than the service's own, for any number of requests and slots *)
(* and any stored digests.                                                 *)
(***************************************************************************)
EXTENDS PasswordGate, FiniteSetTheorems, TLAPS

\* A request that has passed its checks, or is deriving, asks for nothing
\* above the supported parameters.
CostsSupported ==
    \A r \in Requests : cost[r] \in {NoCost, Supported}

GateInv == TypeOK /\ SlotsMatchHolders /\ CostsSupported

\* Where a request holds a slot.
Inside == {"hash_slot", "verify_slot", "salt", "verify_check", "derive",
           "release"}

\* The requests that hold a slot are finitely many.
LEMMA HoldersFinite == IsFiniteSet(Holders) /\ Cardinality(Holders) \in Nat
<1>1. Holders \in SUBSET Requests
  BY DEF Holders
<1> QED
  BY <1>1, PasswordGateAssumption, FS_Subset, FS_CardinalityType

\* NoCost and Supported are parameters.
LEMMA CostType == {NoCost, Supported} \subseteq [Parameters -> Nat]
  BY DEF NoCost, Supported, Parameters

\* Whatever the digest, the parser returns the supported parameters or
\* nothing.
LEMMA ParsedCostSupported ==
    ASSUME NEW d \in Digests, ParseArgon2idHash(d)
    PROVE  ParsedCost(d) = Supported
<1>1. d \in Digest
  BY PasswordGateAssumption
<1>2. ASSUME NEW n \in Parameters PROVE ParsedCost(d)[n] = Supported[n]
  <2> DEFINE k == CHOOSE j \in 1..3 : d.fields[j].name = n
  <2>1. k \in 1..3 /\ d.fields[k].name = n
    BY <1>2 DEF ParseArgon2idHash, ParseParameters
  <2>2. ParsedCost(d)[n] = d.fields[k].value % Width[n]
    BY <1>2 DEF ParsedCost
  <2> HIDE DEF k
  <2>3. d.fields[k].value # Malformed /\ d.fields[k].value < Width[n]
        /\ d.fields[k].value >= Supported[n]
        /\ d.fields[k].value <= Supported[n]
    BY <2>1 DEF ParseArgon2idHash, ParseParameters, ParseNamedUint, Affordable
  <2>4. d.fields \in Seq(Field) /\ Len(d.fields) = 3
    BY <1>1 DEF Digest, ParseArgon2idHash, ParseParameters
  <2>5. d.fields[k] \in Field
    BY <2>1, <2>4
  <2>6. d.fields[k].value \in Nat
    BY <2>3, <2>5 DEF Field
  <2>7. Supported[n] \in Nat /\ Width[n] \in Nat /\ Supported[n] < Width[n]
    BY <1>2, PasswordGateAssumption DEF Supported, Width, Parameters
  <2>8. d.fields[k].value = Supported[n]
    BY <2>3, <2>6, <2>7
  <2>9. ASSUME NEW a \in Nat, NEW b \in Nat, a < b PROVE a % b = a
    BY <2>9
  <2> QED
    BY <2>2, <2>7, <2>8, <2>9
<1>3. ParsedCost(d) = [n \in Parameters |-> ParsedCost(d)[n]]
  BY DEF ParsedCost
<1>4. Supported = [n \in Parameters |-> Supported[n]]
  BY DEF Supported, Parameters
<1> QED
  BY <1>2, <1>3, <1>4

\* A step that neither enters nor leaves Inside keeps the holders.
LEMMA SameHolders ==
    ASSUME GateInv, NEW r \in Requests, NEW l \in PCs,
           pc' = [pc EXCEPT ![r] = l],
           pc[r] \in Inside <=> l \in Inside,
           cancelled' \subseteq cancelled,
           NEW c \in {NoCost, Supported},
           cost' = cost \/ cost' = [cost EXCEPT ![r] = c],
           UNCHANGED capacity
    PROVE  GateInv'
<1>1. Holders' = Holders
  BY DEF Holders, Inside, GateInv, TypeOK
<1>2. TypeOK'
  BY CostType DEF GateInv, TypeOK
<1>3. CostsSupported'
  BY DEF GateInv, TypeOK, CostsSupported
<1> QED
  BY <1>1, <1>2, <1>3 DEF GateInv, SlotsMatchHolders

\* A slot given back.
LEMMA SlotReturned ==
    ASSUME GateInv, NEW r \in Requests, pc[r] \in Inside,
           pc' = [pc EXCEPT ![r] = "idle"],
           cancelled' \subseteq cancelled,
           cost' = [cost EXCEPT ![r] = NoCost],
           capacity' = capacity - 1
    PROVE  GateInv'
<1>1. r \in Holders
  BY DEF Holders, Inside
<1>2. Holders' = Holders \ {r}
  BY DEF Holders, GateInv, TypeOK
<1>3. Cardinality(Holders') = Cardinality(Holders) - 1
  BY <1>1, <1>2, HoldersFinite, FS_RemoveElement
<1>4. Cardinality(Holders) # 0
  BY <1>1, HoldersFinite, FS_EmptySet
<1>5. capacity = Cardinality(Holders) /\ capacity \in 0..MaxConcurrency
  BY DEF GateInv, SlotsMatchHolders, TypeOK
<1>6. capacity' \in 0..MaxConcurrency
  BY <1>4, <1>5, PasswordGateAssumption
<1>7. TypeOK'
  BY <1>6, CostType DEF GateInv, TypeOK, PCs
<1>8. CostsSupported'
  BY DEF GateInv, TypeOK, CostsSupported
<1> QED
  BY <1>3, <1>5, <1>7, <1>8 DEF GateInv, SlotsMatchHolders

\* A slot taken.
LEMMA SlotTaken ==
    ASSUME GateInv, NEW r \in Requests, TakeSlot(r)
    PROVE  GateInv'
<1>1. pc[r] \notin Inside /\ r \notin Holders
  BY DEF TakeSlot, Inside, Holders
<1>2. Holders' = Holders \cup {r}
  BY DEF TakeSlot, Goto, Holders, GateInv, TypeOK
<1>3. Cardinality(Holders') = Cardinality(Holders) + 1
  BY <1>1, <1>2, HoldersFinite, FS_AddElement
<1>4. capacity = Cardinality(Holders) /\ capacity \in 0..MaxConcurrency
  BY DEF GateInv, SlotsMatchHolders, TypeOK
<1>5. capacity' = capacity + 1 /\ capacity < MaxConcurrency
  BY DEF TakeSlot, SlotFree
<1>6. capacity' \in 0..MaxConcurrency
  BY <1>4, <1>5, PasswordGateAssumption
<1>7. TypeOK'
  BY <1>6 DEF TakeSlot, Goto, GateInv, TypeOK, PCs
<1>8. CostsSupported'
  BY DEF TakeSlot, GateInv, CostsSupported
<1> QED
  BY <1>3, <1>4, <1>5, <1>7, <1>8 DEF GateInv, SlotsMatchHolders

\* Every step keeps the count.
LEMMA GateStep == GateInv /\ [Next]_vars => GateInv'
<1> SUFFICES ASSUME GateInv, [Next]_vars PROVE GateInv'
  OBVIOUS
<1>1. ASSUME NEW r \in Requests, Enter(r) PROVE GateInv'
  BY <1>1, SameHolders DEF Enter, Goto, Inside, PCs
<1>2. ASSUME NEW r \in Requests, Refuse(r) \/ GiveUp(r) PROVE GateInv'
  BY <1>2, SameHolders DEF Refuse, GiveUp, Return, Goto, Inside, PCs
<1>3. ASSUME NEW r \in Requests, AskForSlot(r) PROVE GateInv'
  <2>1. cost' = [cost EXCEPT ![r] = Supported]
    BY <1>3, ParsedCostSupported DEF AskForSlot
  <2> QED
    BY <1>3, <2>1, SameHolders DEF AskForSlot, Goto, Inside, PCs
<1>4. ASSUME NEW r \in Requests, TakeSlot(r) PROVE GateInv'
  BY <1>4, SlotTaken
<1>5. ASSUME NEW r \in Requests, SlotRefused(r) \/ Release(r) PROVE GateInv'
  BY <1>5, SlotReturned DEF SlotRefused, Release, Return, Goto, Inside
<1>6. ASSUME NEW r \in Requests, SlotKept(r) PROVE GateInv'
  BY <1>6, SameHolders DEF SlotKept, Goto, Inside, PCs
<1>7. ASSUME NEW r \in Requests, SaltFails(r) \/ Check(r) \/ Derived(r)
      PROVE  GateInv'
  BY <1>7, SameHolders DEF SaltFails, Check, Derived, Goto, Inside, PCs
<1>8. ASSUME NEW r \in Requests, Cancel(r) PROVE GateInv'
  BY <1>8
     DEF Cancel, GateInv, TypeOK, SlotsMatchHolders, Holders, CostsSupported
<1>9. CASE UNCHANGED vars
  BY <1>9
     DEF vars, GateInv, TypeOK, SlotsMatchHolders, Holders, CostsSupported
<1> QED
  BY <1>1, <1>2, <1>3, <1>4, <1>5, <1>6, <1>7, <1>8, <1>9
     DEF Next, Proceed

\* The channel starts empty and nobody holds a slot.
LEMMA GateInit == Init => GateInv
<1> SUFFICES ASSUME Init PROVE GateInv
  OBVIOUS
<1>1. Holders = {}
  BY DEF Init, Holders
<1>2. TypeOK
  BY PasswordGateAssumption, CostType DEF Init, TypeOK, PCs
<1> QED
  BY <1>1, <1>2, FS_EmptySet
     DEF Init, GateInv, SlotsMatchHolders, CostsSupported

\* The channel holds one element for each request between acquire and
\* release, for any number of requests and slots.
THEOREM SlotsMatchHoldersHolds == Spec => []SlotsMatchHolders
<1>1. GateInv => SlotsMatchHolders
  BY DEF GateInv
<1> QED
  BY <1>1, GateInit, GateStep, PTL DEF Spec

\* At most MaxConcurrency derivations run at once and each costs what the
\* service's own do, for any number of requests and slots and any digests.
THEOREM BoundedCostHolds == Spec => []BoundedCost
<1>1. GateInv => BoundedCost
  <2> DEFINE deriving == {r \in Requests : pc[r] = "derive"}
  <2> SUFFICES ASSUME GateInv
               PROVE  /\ Cardinality(deriving) <= MaxConcurrency
                      /\ \A r \in deriving, n \in Parameters :
                            cost[r][n] <= Supported[n]
    BY DEF BoundedCost
  <2>1. deriving \in SUBSET Holders
    BY DEF Holders
  <2>2. Cardinality(deriving) <= Cardinality(Holders)
        /\ Cardinality(deriving) \in Nat
    BY <2>1, HoldersFinite, FS_Subset, FS_CardinalityType
  <2>3. Cardinality(Holders) \in 0..MaxConcurrency
    BY DEF GateInv, TypeOK, SlotsMatchHolders
  <2>4. ASSUME NEW r \in deriving, NEW n \in Parameters
        PROVE  cost[r][n] <= Supported[n]
    <3>1. cost[r] \in {NoCost, Supported}
      BY DEF GateInv, CostsSupported
    <3> QED
      BY <3>1 DEF NoCost, Supported, Parameters
  <2> HIDE DEF deriving
  <2>5. Cardinality(deriving) <= MaxConcurrency
    BY <2>2, <2>3, HoldersFinite, PasswordGateAssumption
  <2> QED
    BY <2>4, <2>5
<1> QED
  BY <1>1, GateInit, GateStep, PTL DEF Spec

----------------------------------------------------------------------------
(***************************************************************************)
(* Why the queue drains.  That steps are taken is fairness, which the run  *)
(* assumes; that the steps a request has left are finitely many, and that  *)
(* a queue always has somebody in front of it who waits for nobody, is     *)
(* safety and proved here for any number of requests and slots.            *)
(***************************************************************************)

Waiting == {"hash_wait", "verify_wait"}

\* How many steps a request is away from its answer, at most.
StepsLeft(l) ==
    CASE l \in {"hash", "verify"}           -> 6
      [] l \in Waiting                      -> 5
      [] l \in {"hash_slot", "verify_slot"} -> 4
      [] l \in {"salt", "verify_check"}     -> 3
      [] l = "derive"                       -> 2
      [] l = "release"                      -> 1
      [] l = "idle"                         -> 0

\* Whoever is under way comes nearer to its answer with each step of its own
\* and is thrown back by nobody else's.
ComesNearer(r) ==
    pc[r] # "idle" =>
        pc'[r] = pc[r] \/ StepsLeft(pc'[r]) < StepsLeft(pc[r])

\* A step of one request leaves the others where they are.
LEMMA OthersStay ==
    ASSUME GateInv, NEW q \in Requests, NEW r \in Requests, q # r,
           NEW l, Goto(q, l)
    PROVE  pc'[r] = pc[r]
  BY DEF Goto, GateInv, TypeOK

\* A step of a request that is under way lowers what it has left.
LEMMA OwnStepNearer ==
    ASSUME GateInv, NEW r \in Requests, pc[r] # "idle",
           Proceed(r) \/ TakeSlot(r) \/ Derived(r)
    PROVE  StepsLeft(pc'[r]) < StepsLeft(pc[r])
<1>1. ASSUME NEW l, Goto(r, l) PROVE pc'[r] = l
  BY <1>1 DEF Goto, GateInv, TypeOK
<1>2. CASE Refuse(r) \/ GiveUp(r) \/ SlotRefused(r) \/ Release(r)
  BY <1>1, <1>2
     DEF Refuse, GiveUp, SlotRefused, Release, Return, StepsLeft, Waiting
<1>3. CASE AskForSlot(r) \/ TakeSlot(r)
  BY <1>1, <1>3 DEF AskForSlot, TakeSlot, StepsLeft, Waiting
<1>4. CASE SlotKept(r) \/ SaltFails(r) \/ Check(r) \/ Derived(r)
  BY <1>1, <1>4
     DEF SlotKept, SaltFails, Check, Derived, StepsLeft, Waiting
<1> QED
  BY <1>2, <1>3, <1>4 DEF Proceed

\* Hash and Verify have no loop: each call of a request is over after at
\* most six steps of its own, whatever the others do, a cancellation
\* included.  What EveryRequestAnswered adds is that the steps are taken.
THEOREM CallsAreShort == Spec => [][\A r \in Requests : ComesNearer(r)]_vars
<1>1. GateInv /\ [Next]_vars => \A r \in Requests : ComesNearer(r)
  <2> SUFFICES ASSUME GateInv, [Next]_vars, NEW r \in Requests
               PROVE  ComesNearer(r)
    OBVIOUS
  <2>1. ASSUME NEW q \in Requests,
               Enter(q) \/ Proceed(q) \/ TakeSlot(q) \/ Derived(q)
        PROVE  ComesNearer(r)
    <3>1. PICK l : Goto(q, l)
      BY <2>1
         DEF Enter, Proceed, Refuse, AskForSlot, GiveUp, SlotRefused,
             SlotKept, SaltFails, Check, Release, TakeSlot, Derived, Return
    <3>2. CASE q # r
      BY <3>1, <3>2, OthersStay DEF ComesNearer
    <3>3. CASE q = r
      BY <2>1, <3>3, OwnStepNearer DEF ComesNearer, Enter
    <3> QED
      BY <3>2, <3>3
  <2>2. ASSUME NEW q \in Requests, Cancel(q) PROVE ComesNearer(r)
    BY <2>2 DEF Cancel, ComesNearer
  <2>3. CASE UNCHANGED vars
    BY <2>3 DEF vars, ComesNearer
  <2> QED
    BY <2>1, <2>2, <2>3 DEF Next
<1> QED
  BY <1>1, GateInit, GateStep, PTL DEF Spec

\* Nobody waits for a slot in vain: while no slot is free, somebody holds one
\* who is not waiting for anything, so that a release is at most four steps
\* of that request away.  No return leaks a slot until all are gone, and no
\* holder queues again.
THEOREM QueueHasAHolder ==
    Spec => [](~SlotFree =>
                  \E h \in Requests : pc[h] \notin Waiting \cup {"idle"}
                                      /\ StepsLeft(pc[h]) <= 4)
<1>1. ASSUME GateInv, ~SlotFree
      PROVE  \E h \in Requests : pc[h] \notin Waiting \cup {"idle"}
                                 /\ StepsLeft(pc[h]) <= 4
  <2>1. capacity # 0
    BY <1>1, PasswordGateAssumption DEF SlotFree, GateInv, TypeOK
  <2>2. Holders # {}
    BY <1>1, <2>1, FS_EmptySet DEF GateInv, SlotsMatchHolders
  <2>3. PICK h \in Requests : pc[h] \in Inside
    BY <2>2 DEF Holders, Inside
  <2>4. pc[h] \notin Waiting \cup {"idle"} /\ StepsLeft(pc[h]) <= 4
    BY <2>3 DEF Inside, Waiting, StepsLeft
  <2> QED
    BY <2>4
<1> QED
  BY <1>1, GateInit, GateStep, PTL DEF Spec

=============================================================================
