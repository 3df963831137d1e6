---------------------------- MODULE PasswordGate ----------------------------
(***************************************************************************)
(* The bound on concurrent Argon2 derivations and on what each may cost:   *)
(* PasswordService.acquire, release, Hash and Verify and the parser of     *)
(* stored digests (internal/infra/auth).  Requests compete for the slots   *)
(* of a buffered channel; each may be cancelled at any moment.  A request  *)
(* that has returned may come again as a new one.                          *)
(***************************************************************************)
EXTENDS Naturals, Sequences, FiniteSets

CONSTANTS
    Requests,       \* requests that may be under way at once
    MaxConcurrency, \* the buffer of the channel
    Digests,        \* what the password column of a row may hold
    Malformed,      \* a number or an encoding that cannot be read
    Uint32          \* 2^32, or a smaller bound above every supported cost

\* The cost parameters the service emits, and the only ones it accepts.
Supported == [m |-> 65536, t |-> 3, p |-> 4]

\* One more than the largest value of the type of each parameter.
Width == [m |-> Uint32, t |-> Uint32, p |-> 256]

Parameters == {"m", "t", "p"}

Field == [name: STRING, value: Nat \cup {Malformed}]

\* An encoded digest, taken apart at its separators: its length, the number
\* of its parts, and the six parts.  The last two are the number of bytes
\* that the strict base64 decoder finds in them.
Digest == [length: Nat, parts: Nat, first: STRING, algorithm: STRING,
           version: Field, fields: Seq(Field),
           salt: Nat \cup {Malformed}, key: Nat \cup {Malformed}]

ASSUME PasswordGateAssumption ==
    /\ IsFiniteSet(Requests)
    /\ MaxConcurrency \in Nat \ {0}
    /\ Malformed \notin Nat
    /\ Uint32 \in Nat /\ Uint32 > Supported.m
    /\ Digests \subseteq Digest

VARIABLES
    pc,         \* where each request is
    cancelled,  \* the requests whose context is done
    capacity,   \* the number of elements in the channel
    cost        \* the cost parameters of the derivation a request asks for

vars == <<pc, cancelled, capacity, cost>>

PCs == {"idle", "hash", "verify", "hash_wait", "verify_wait",
        "hash_slot", "verify_slot", "salt", "verify_check", "derive",
        "release"}

NoCost == [m |-> 0, t |-> 0, p |-> 0]

TypeOK ==
    /\ pc \in [Requests -> PCs]
    /\ cancelled \in SUBSET Requests
    /\ capacity \in 0..MaxConcurrency
    /\ cost \in [Requests -> [Parameters -> Nat]]

Init ==
    /\ pc = [r \in Requests |-> "idle"]
    /\ cancelled = {}
    /\ capacity = 0
    /\ cost = [r \in Requests |-> NoCost]

Goto(r, l) == pc' = [pc EXCEPT ![r] = l]

----------------------------------------------------------------------------
(* Stored digests. *)

\* parseNamedUint: the field has the name and a decimal number that fits the
\* type.
ParseNamedUint(f, name, width) ==
    f.name = name /\ f.value # Malformed /\ f.value < width

\* Mutant of Affordable: a higher cost than the service emits will do.
AffordableOrMore(n, v) == v >= Supported[n]

\* The minimum and the maximum of each cost are what the service emits.
Affordable(n, v) == v >= Supported[n] /\ v <= Supported[n]

\* parseArgon2idParameters: three fields in any order, each of them a known
\* parameter that came only once, and none of the three missing.
ParseParameters(fields) ==
    /\ Len(fields) = 3
    /\ \A k \in 1..3 :
          /\ fields[k].name \in Parameters
          /\ \A j \in 1..(k - 1) : fields[j].name # fields[k].name
          /\ ParseNamedUint(fields[k], fields[k].name, Width[fields[k].name])
          /\ Affordable(fields[k].name, fields[k].value)
    /\ \A n \in Parameters : \E k \in 1..3 : fields[k].name = n

\* parseArgon2idHash accepts the digest.
ParseArgon2idHash(d) ==
    /\ d.length > 0 /\ d.length <= 128
    /\ d.parts = 6 /\ d.first = ""
    /\ d.algorithm = "argon2id"
    /\ ParseNamedUint(d.version, "v", Uint32) /\ d.version.value = 19
    /\ ParseParameters(d.fields)
    /\ d.salt = 32
    /\ d.key = 32

\* The parameters it returns.
ParsedCost(d) ==
    [n \in Parameters |->
        LET k == CHOOSE k \in 1..3 : d.fields[k].name = n
        IN  d.fields[k].value % Width[n]]

----------------------------------------------------------------------------
(* Hash and Verify. *)

\* A caller enters Hash or Verify.
Enter(r) ==
    /\ pc[r] = "idle"
    /\ \E l \in {"hash", "verify"} : Goto(r, l)
    /\ UNCHANGED <<cancelled, capacity, cost>>

Return(r) ==
    /\ Goto(r, "idle")
    /\ cancelled' = cancelled \ {r}
    /\ cost' = [cost EXCEPT ![r] = NoCost]

\* The call is refused before it asks for a slot: its context is done, the
\* password is invalid or, in Verify, the digest cannot be parsed.
Refuse(r) ==
    /\ pc[r] \in {"hash", "verify"}
    /\ Return(r)
    /\ UNCHANGED capacity

\* The checks pass, and so does the first one of acquire.  Hash derives with
\* its own parameters, Verify with those of the stored digest.
AskForSlot(r) ==
    /\ r \notin cancelled
    /\ \/ /\ pc[r] = "hash"
          /\ Goto(r, "hash_wait")
          /\ cost' = [cost EXCEPT ![r] = Supported]
       \/ /\ pc[r] = "verify"
          /\ Goto(r, "verify_wait")
          /\ \E d \in Digests :
                /\ ParseArgon2idHash(d)
                /\ cost' = [cost EXCEPT ![r] = ParsedCost(d)]
    /\ UNCHANGED <<cancelled, capacity>>

\* Mutant of SlotFree: the channel has one element too many.
SlotFreeOffByOne == capacity <= MaxConcurrency

SlotFree == capacity < MaxConcurrency

\* acquire: the select sends, perhaps although the context is done too.
TakeSlot(r) ==
    /\ pc[r] \in {"hash_wait", "verify_wait"}
    /\ SlotFree
    /\ capacity' = capacity + 1
    /\ Goto(r, IF pc[r] = "hash_wait" THEN "hash_slot" ELSE "verify_slot")
    /\ UNCHANGED <<cancelled, cost>>

\* Mutant of GiveUp: the wait ends only with a slot.
GiveUpNever(r) == FALSE /\ UNCHANGED vars

\* acquire: the select sees that the context is done.
GiveUp(r) ==
    /\ pc[r] \in {"hash_wait", "verify_wait"}
    /\ r \in cancelled
    /\ Return(r)
    /\ UNCHANGED capacity

\* Mutant of SlotRefused: the slot is not given back.
SlotRefusedLeaking(r) ==
    /\ pc[r] \in {"hash_slot", "verify_slot"}
    /\ r \in cancelled
    /\ Return(r)
    /\ UNCHANGED capacity

\* acquire: the context was done when the slot came; it is given back.
SlotRefused(r) ==
    /\ pc[r] \in {"hash_slot", "verify_slot"}
    /\ r \in cancelled
    /\ capacity' = capacity - 1
    /\ Return(r)

SlotKept(r) ==
    /\ pc[r] \in {"hash_slot", "verify_slot"}
    /\ r \notin cancelled
    /\ Goto(r, IF pc[r] = "hash_slot" THEN "salt" ELSE "verify_check")
    /\ UNCHANGED <<cancelled, capacity, cost>>

\* Hash: the salt cannot be read.
SaltFails(r) ==
    /\ pc[r] = "salt"
    /\ Goto(r, "release")
    /\ UNCHANGED <<cancelled, capacity, cost>>

\* The last look at the context; after it the derivation cannot be stopped.
Check(r) ==
    /\ pc[r] \in {"salt", "verify_check"}
    /\ Goto(r, IF r \in cancelled THEN "release" ELSE "derive")
    /\ UNCHANGED <<cancelled, capacity, cost>>

\* The derivation ends.
Derived(r) ==
    /\ pc[r] = "derive"
    /\ Goto(r, "release")
    /\ UNCHANGED <<cancelled, capacity, cost>>

\* The deferred release, and the return.
Release(r) ==
    /\ pc[r] = "release"
    /\ capacity' = capacity - 1
    /\ Return(r)

Cancel(r) ==
    /\ pc[r] # "idle"
    /\ r \notin cancelled
    /\ cancelled' = cancelled \cup {r}
    /\ UNCHANGED <<pc, capacity, cost>>

\* What the goroutine of a request does without waiting.
Proceed(r) ==
    \/ Refuse(r) \/ AskForSlot(r) \/ GiveUp(r)
    \/ SlotRefused(r) \/ SlotKept(r) \/ SaltFails(r) \/ Check(r) \/ Release(r)

Next ==
    \E r \in Requests :
        Enter(r) \/ Proceed(r) \/ TakeSlot(r) \/ Derived(r) \/ Cancel(r)

Spec == Init /\ [][Next]_vars

\* Goroutines are scheduled.  Nothing is said of how long derivations take
\* or of who gets a free slot.
FairSpec == Spec /\ \A r \in Requests : WF_vars(Proceed(r))

\* Derivations end, and the channel serves its senders in order of arrival.
SlotsGoRound ==
    \A r \in Requests : WF_vars(Derived(r)) /\ SF_vars(TakeSlot(r))

----------------------------------------------------------------------------
(* Properties. *)

\* The requests between acquire and release.
Holders == {r \in Requests : pc[r] \in {"hash_slot", "verify_slot", "salt",
                                        "verify_check", "derive", "release"}}

\* The channel holds exactly one element for each request between acquire
\* and release: no path through a cancellation or an error loses a slot.
SlotsMatchHolders == capacity = Cardinality(Holders)

\* No more derivations run at once than the configuration allows, and none of
\* them uses more memory, time or threads than the service's own parameters,
\* whatever the rows hold: the slots bound the cost of hashing, not only the
\* number of calls.
BoundedCost ==
    LET deriving == {r \in Requests : pc[r] = "derive"}
    IN  /\ Cardinality(deriving) <= MaxConcurrency
        /\ \A r \in deriving, n \in Parameters : cost[r][n] <= Supported[n]

\* A cancelled request leaves the queue even if the derivations that hold
\* the slots never end.
CancelledLeaveQueue ==
    \A r \in Requests :
        (pc[r] \in {"hash_wait", "verify_wait"} /\ r \in cancelled)
            ~> (pc[r] = "idle")

\* If derivations end, every request is answered.
EveryRequestAnswered ==
    SlotsGoRound => \A r \in Requests :
                        (pc[r] # "idle") ~> (pc[r] = "idle")

=============================================================================
