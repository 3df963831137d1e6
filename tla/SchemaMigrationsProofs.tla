----------------------- MODULE SchemaMigrationsProofs -----------------------
(***************************************************************************)
(* SchemaMigrations for every set of jobs, instances and releases: the     *)
(* advisory lock makes the history a job has read the history it commits   *)
(* to, so the schema is moved from release to release in whole batches.    *)
(***************************************************************************)
EXTENDS SchemaMigrations, TLAPS

InTransaction == {"create", "read", "apply", "record", "commit"}
HasReadHistory == {"apply", "record", "commit"}

\* A job is past pg_advisory_xact_lock exactly as long as it holds the lock.
LockHeld == \A j \in Jobs : pc[j] \in InTransaction <=> lock = j

\* What a job has done since it read the history, which cannot have moved.
Progress(j) ==
    /\ applied[j] = history
    /\ IsPrefix(history, Embedded[release[j]])
    /\ Done(j) <= Len(Embedded[release[j]])
    /\ ran[j] = SubSeq(Embedded[release[j]], Len(history) + 1, Done(j))
    /\ pc[j] = "apply" =>
          rows[j] = Len(ran[j]) /\ Done(j) < Len(Embedded[release[j]])
    /\ pc[j] = "record" => Len(ran[j]) = rows[j] + 1
    /\ pc[j] = "commit" =>
          rows[j] = Len(ran[j]) /\ Done(j) = Len(Embedded[release[j]])

InProgress == \A j \in Jobs : pc[j] \in HasReadHistory => Progress(j)

\* A job that has not read anything has not written anything.
Untouched ==
    \A j \in Jobs : pc[j] \notin HasReadHistory =>
        applied[j] = <<>> /\ ran[j] = <<>> /\ rows[j] = 0

\* A release that was found or made current stays the first part of what is
\* recorded.
Lasting ==
    \A p \in Processes : pc[p] \in {"seed", "running", "valid", "up"} =>
        IsPrefix(Embedded[release[p]], history)

IInv ==
    /\ TypeOK /\ LockHeld /\ InProgress /\ Untouched
    /\ SchemaMatchesHistory /\ Lasting

----------------------------------------------------------------------------
(***************************************************************************)
(* Prefixes.                                                               *)
(***************************************************************************)

LEMMA PrefixByIndex ==
    ASSUME NEW S, NEW s \in Seq(S), NEW t \in Seq(S)
    PROVE  IsPrefix(s, t) <=>
             Len(s) <= Len(t) /\ \A i \in 1 .. Len(s) : s[i] = t[i]
BY DEF IsPrefix

LEMMA PrefixIsTransitive ==
    ASSUME NEW S, NEW s \in Seq(S), NEW t \in Seq(S), NEW u \in Seq(S),
           IsPrefix(s, t), IsPrefix(t, u)
    PROVE  IsPrefix(s, u)
BY PrefixByIndex

LEMMA EqualIsPrefix ==
    ASSUME NEW S, NEW s \in Seq(S)
    PROVE  IsPrefix(s, s)
BY PrefixByIndex

\* A whole prefix is the sequence.
LEMMA FullPrefix ==
    ASSUME NEW S, NEW s \in Seq(S), NEW t \in Seq(S),
           IsPrefix(s, t), Len(s) = Len(t)
    PROVE  s = t
BY PrefixByIndex

\* The rest completes a prefix.
LEMMA PrefixCompleted ==
    ASSUME NEW S, NEW s \in Seq(S), NEW t \in Seq(S), IsPrefix(s, t)
    PROVE  s \o SubSeq(t, Len(s) + 1, Len(t)) = t
BY PrefixByIndex

\* One more element of a part of a sequence.
LEMMA PartExtended ==
    ASSUME NEW S, NEW t \in Seq(S), NEW m \in Nat, NEW n \in Nat,
           m <= n, n < Len(t)
    PROVE  /\ Append(SubSeq(t, m + 1, n), t[n + 1]) = SubSeq(t, m + 1, n + 1)
           /\ Len(SubSeq(t, m + 1, n)) = n - m
           /\ SubSeq(t, m + 1, n + 1) \in Seq(S)
OBVIOUS

LEMMA NothingYet ==
    ASSUME NEW S, NEW t \in Seq(S), NEW n \in Nat
    PROVE  SubSeq(t, n + 1, n) = <<>>
OBVIOUS

----------------------------------------------------------------------------

LEMMA EmbeddedIsSequence ==
    ASSUME NEW r \in Releases
    PROVE  Embedded[r] \in Seq(Scripts)
BY SchemaMigrationsAssumption

LEMMA InitIInv == Init => IInv
<1> SUFFICES ASSUME Init PROVE IInv
    OBVIOUS
<1>1. TypeOK
  <2>1. metadata \in BOOLEAN
      BY Zenon DEF Init
  <2>2. history \in Seq(Scripts) /\ schema \in Seq(Scripts)
      BY DEF Init
  <2>3. lock \in Jobs \cup {Nil} /\ release \in [Processes -> Releases]
      BY Zenon DEF Init
  <2>4. pc \in [Processes -> PCs]
      BY DEF Init, PCs
  <2>5. /\ applied \in [Jobs -> Seq(Scripts)]
        /\ ran \in [Jobs -> Seq(Scripts)]
        /\ rows \in [Jobs -> Nat]
      BY DEF Init
  <2>. QED
      BY <2>1, <2>2, <2>3, <2>4, <2>5 DEF TypeOK
<1>2. LockHeld
    BY SchemaMigrationsAssumption DEF Init, LockHeld, InTransaction, Processes
<1>3. InProgress /\ Untouched
    BY DEF Init, InProgress, Untouched, HasReadHistory, Processes
<1>4. SchemaMatchesHistory /\ Lasting
    BY DEF Init, SchemaMatchesHistory, Lasting
<1>. QED
    BY <1>1, <1>2, <1>3, <1>4 DEF IInv

\* A step of a process that changes nothing but its own label and release,
\* outside a transaction.
LEMMA Moves ==
    ASSUME IInv, NEW p \in Processes, NEW l \in PCs,
           Goto(p, l), UNCHANGED <<db, lock, tx>>,
           release' \in [Processes -> Releases],
           \A q \in Processes : q # p => release'[q] = release[q],
           p \in Jobs =>
              /\ pc[p] \notin HasReadHistory /\ l \notin HasReadHistory
              /\ pc[p] \in InTransaction <=> l \in InTransaction,
           l \in {"seed", "running", "valid", "up"} =>
              IsPrefix(Embedded[release'[p]], history)
    PROVE  IInv'
<1>. USE DEF IInv, Goto, db, tx
<1>1. TypeOK'
    BY DEF TypeOK
<1>2. LockHeld'
    BY DEF TypeOK, LockHeld, Processes
<1>3. InProgress' /\ Untouched'
  <2> SUFFICES ASSUME NEW j \in Jobs
               PROVE  /\ (pc[j] \in HasReadHistory => Progress(j))'
                      /\ (pc[j] \notin HasReadHistory =>
                             applied[j] = <<>> /\ ran[j] = <<>> /\ rows[j] = 0)'
      BY DEF InProgress, Untouched
  <2>1. CASE j = p
      BY <2>1 DEF TypeOK, Untouched, Processes
  <2>2. CASE j # p
    <3>1. pc'[j] = pc[j] /\ release'[j] = release[j]
        BY <2>2 DEF TypeOK, Processes
    <3>. QED
        BY <3>1 DEF InProgress, Untouched, Progress, Done
  <2>. QED
      BY <2>1, <2>2
<1>4. SchemaMatchesHistory'
    BY DEF SchemaMatchesHistory
<1>5. Lasting'
    BY DEF TypeOK, Lasting
<1>. QED
    BY <1>1, <1>2, <1>3, <1>4, <1>5

\* The end of a transaction that leaves the tables alone.
LEMMA RollsBack ==
    ASSUME IInv, NEW j \in Jobs, pc[j] \in JobPCs, Rollback(j),
           UNCHANGED <<db, release>>
    PROVE  IInv'
<1>. USE DEF IInv, Rollback, EndTransaction, Goto, db
<1>1. TypeOK'
    BY DEF TypeOK, PCs, Processes
<1>2. LockHeld'
    BY SchemaMigrationsAssumption
    DEF TypeOK, LockHeld, Processes, InTransaction, JobPCs
<1>3. InProgress' /\ Untouched'
  <2> SUFFICES ASSUME NEW k \in Jobs
               PROVE  /\ (pc[k] \in HasReadHistory => Progress(k))'
                      /\ (pc[k] \notin HasReadHistory =>
                             applied[k] = <<>> /\ ran[k] = <<>> /\ rows[k] = 0)'
      BY DEF InProgress, Untouched
  <2>1. CASE k = j
      BY <2>1 DEF TypeOK, HasReadHistory, Processes
  <2>2. CASE k # j
    <3>1. /\ pc'[k] = pc[k] /\ applied'[k] = applied[k]
          /\ ran'[k] = ran[k] /\ rows'[k] = rows[k]
        BY <2>2 DEF TypeOK, Processes
    <3>. QED
        BY <3>1 DEF InProgress, Untouched, Progress, Done
  <2>. QED
      BY <2>1, <2>2
<1>4. SchemaMatchesHistory'
    BY DEF SchemaMatchesHistory
<1>5. Lasting'
    BY DEF TypeOK, Lasting, Processes
<1>. QED
    BY <1>1, <1>2, <1>3, <1>4, <1>5

\* A job that holds the lock writes inside its transaction.
LEMMA Advances ==
    ASSUME IInv, NEW j \in Jobs, pc[j] \in {"read", "apply", "record"},
           NEW l \in HasReadHistory, Goto(j, l),
           UNCHANGED <<db, lock, release>>,
           \A k \in Jobs : k # j => /\ applied'[k] = applied[k]
                                    /\ ran'[k] = ran[k]
                                    /\ rows'[k] = rows[k],
           applied' \in [Jobs -> Seq(Scripts)],
           ran' \in [Jobs -> Seq(Scripts)],
           rows' \in [Jobs -> Nat],
           Progress(j)'
    PROVE  IInv'
<1>. USE DEF IInv, Goto, db
<1>1. TypeOK'
    BY DEF TypeOK, PCs, JobPCs, HasReadHistory, Processes
<1>2. LockHeld'
    BY DEF TypeOK, LockHeld, Processes, InTransaction, HasReadHistory
<1>3. InProgress' /\ Untouched'
  <2> SUFFICES ASSUME NEW k \in Jobs
               PROVE  /\ (pc[k] \in HasReadHistory => Progress(k))'
                      /\ (pc[k] \notin HasReadHistory =>
                             applied[k] = <<>> /\ ran[k] = <<>> /\ rows[k] = 0)'
      BY DEF InProgress, Untouched
  <2>1. CASE k = j
      BY <2>1 DEF TypeOK, Processes
  <2>2. CASE k # j
    <3>1. /\ pc'[k] = pc[k] /\ applied'[k] = applied[k]
          /\ ran'[k] = ran[k] /\ rows'[k] = rows[k]
        BY <2>2 DEF TypeOK, Processes
    <3>. QED
        BY <3>1 DEF InProgress, Untouched, Progress, Done
  <2>. QED
      BY <2>1, <2>2
<1>4. SchemaMatchesHistory'
    BY DEF SchemaMatchesHistory
<1>5. Lasting'
    BY DEF TypeOK, Lasting, HasReadHistory, Processes
<1>. QED
    BY <1>1, <1>2, <1>3, <1>4, <1>5

\* The jobs' statements, one by one.
LEMMA ReadAppliedStep ==
    ASSUME IInv, NEW j \in Jobs, ReadApplied(j)
    PROVE  IInv'
<1>. DEFINE E == Embedded[release[j]]
<1>1. /\ pc[j] = "read" /\ applied[j] = <<>> /\ rows[j] = 0
      /\ E \in Seq(Scripts) /\ history \in Seq(Scripts)
    BY EmbeddedIsSequence
    DEF IInv, TypeOK, ReadApplied, Untouched, HasReadHistory, Processes
<1>2. CASE ~validateMigrationState(E, history)
    BY <1>1, <1>2, RollsBack DEF ReadApplied, JobPCs
<1>3. CASE validateMigrationState(E, history)
  <2>1. /\ applied' = [applied EXCEPT ![j] = history]
        /\ UNCHANGED <<lock, ran, rows, db, release>>
        /\ Goto(j, AfterScript(j, Len(history)))
      BY <1>3 DEF ReadApplied
  <2>2. IsPrefix(history, E) /\ Len(history) <= Len(E)
      BY <1>1, <1>3, PrefixByIndex DEF validateMigrationState
  <2>3. AfterScript(j, Len(history)) \in HasReadHistory
      BY DEF AfterScript, HasReadHistory
  <2>4. ran[j] = <<>>
      BY <1>1 DEF IInv, Untouched, HasReadHistory
  <2>5. /\ applied'[j] = history /\ history' = history /\ ran'[j] = <<>>
        /\ rows'[j] = 0 /\ release'[j] = release[j]
        /\ pc'[j] = AfterScript(j, Len(history))
      BY <1>1, <2>1, <2>4 DEF IInv, TypeOK, db, Goto, Processes
  <2>6. Done(j)' = Len(history)
      BY <1>1, <2>5 DEF Done
  <2>7. SubSeq(E, Len(history) + 1, Len(history)) = <<>>
      BY <1>1, NothingYet
  <2>8. Progress(j)'
    <3>1. Len(history) \in Nat /\ Len(E) \in Nat /\ Len(<<>>) = 0
        BY <1>1
    <3>. QED
        BY <2>2, <2>5, <2>6, <2>7, <3>1 DEF Progress, AfterScript
  <2>9. /\ applied' \in [Jobs -> Seq(Scripts)]
        /\ ran' \in [Jobs -> Seq(Scripts)]
        /\ rows' \in [Jobs -> Nat]
        /\ \A k \in Jobs : k # j => /\ applied'[k] = applied[k]
                                    /\ ran'[k] = ran[k]
                                    /\ rows'[k] = rows[k]
      BY <1>1, <2>1 DEF IInv, TypeOK
  <2>. QED
      BY <1>1, <2>1, <2>3, <2>8, <2>9, Advances
<1>. QED
    BY <1>2, <1>3

LEMMA ApplyScriptStep ==
    ASSUME IInv, NEW j \in Jobs, ApplyScript(j)
    PROVE  IInv'
<1>. DEFINE E == Embedded[release[j]]
<1>1. /\ pc[j] = "apply" /\ Progress(j)
      /\ E \in Seq(Scripts) /\ history \in Seq(Scripts)
      /\ ran[j] \in Seq(Scripts) /\ rows[j] \in Nat
    BY EmbeddedIsSequence
    DEF IInv, TypeOK, ApplyScript, InProgress, HasReadHistory, Processes
<1>2. /\ ran' = [ran EXCEPT ![j] = Append(@, E[Done(j) + 1])]
      /\ UNCHANGED <<lock, applied, rows, db, release>>
      /\ Goto(j, "record")
    BY DEF ApplyScript
<1>3. /\ applied[j] = history /\ Done(j) = Len(history) + Len(ran[j])
      /\ Done(j) < Len(E) /\ rows[j] = Len(ran[j])
      /\ ran[j] = SubSeq(E, Len(history) + 1, Done(j))
      /\ IsPrefix(history, E)
    BY <1>1 DEF Progress, Done
<1>4. Len(history) \in Nat /\ Len(ran[j]) \in Nat /\ Done(j) \in Nat
      /\ Len(E) \in Nat /\ Len(history) <= Done(j)
    BY <1>1, <1>3
<1>5. Append(ran[j], E[Done(j) + 1]) = SubSeq(E, Len(history) + 1, Done(j) + 1)
  <2>1. \A m, n \in Nat : m <= n /\ n < Len(E) =>
          Append(SubSeq(E, m + 1, n), E[n + 1]) = SubSeq(E, m + 1, n + 1)
      BY <1>1, PartExtended
  <2>. HIDE DEF E
  <2>. QED
      BY <1>3, <1>4, <2>1
<1>6. /\ applied'[j] = history /\ history' = history
      /\ ran'[j] = Append(ran[j], E[Done(j) + 1])
      /\ rows'[j] = rows[j] /\ release'[j] = release[j]
      /\ pc'[j] = "record"
    BY <1>1, <1>2, <1>3 DEF IInv, TypeOK, db, Goto, Processes
<1>7. E[Done(j) + 1] \in Scripts
    BY <1>1, <1>3, <1>4
<1>8. Len(ran'[j]) = Len(ran[j]) + 1
    BY <1>1, <1>6, <1>7
<1>9. Done(j)' = Done(j) + 1
    BY <1>3, <1>4, <1>6, <1>8 DEF Done
<1>10. Progress(j)'
  <2>1. ran'[j] = SubSeq(E, Len(history) + 1, Done(j) + 1)
      BY <1>5, <1>6
  <2>2. Done(j) + 1 <= Len(E) /\ Len(ran'[j]) = rows'[j] + 1
      BY <1>3, <1>4, <1>6, <1>8
  <2>3. pc'[j] # "apply" /\ pc'[j] # "commit"
      BY <1>6
  <2>. HIDE DEF E
  <2>4. E' = E
      BY <1>6 DEF E
  <2>. QED
      BY <1>3, <1>6, <1>9, <2>1, <2>2, <2>3, <2>4 DEF Progress, E
<1>11. /\ applied' \in [Jobs -> Seq(Scripts)]
       /\ ran' \in [Jobs -> Seq(Scripts)]
       /\ rows' \in [Jobs -> Nat]
       /\ \A k \in Jobs : k # j => /\ applied'[k] = applied[k]
                                   /\ ran'[k] = ran[k]
                                   /\ rows'[k] = rows[k]
    BY <1>1, <1>2, <1>7 DEF IInv, TypeOK
<1>. QED
    BY <1>1, <1>2, <1>10, <1>11, Advances DEF HasReadHistory

LEMMA RecordScriptStep ==
    ASSUME IInv, NEW j \in Jobs, RecordScript(j)
    PROVE  IInv'
<1>. DEFINE E == Embedded[release[j]]
<1>1. /\ pc[j] = "record" /\ Progress(j)
      /\ E \in Seq(Scripts) /\ history \in Seq(Scripts)
      /\ ran[j] \in Seq(Scripts) /\ rows[j] \in Nat
    BY EmbeddedIsSequence
    DEF IInv, TypeOK, RecordScript, InProgress, HasReadHistory, Processes
<1>2. CASE Duplicate(j)
    BY <1>1, <1>2, RollsBack DEF RecordScript, JobPCs
<1>3. CASE ~Duplicate(j)
  <2>1. /\ rows' = [rows EXCEPT ![j] = @ + 1]
        /\ UNCHANGED <<lock, applied, ran, db, release>>
        /\ Goto(j, AfterScript(j, Done(j)))
      BY <1>3 DEF RecordScript
  <2>2. AfterScript(j, Done(j)) \in HasReadHistory
      BY DEF AfterScript, HasReadHistory
  <2>3. /\ applied[j] = history /\ Done(j) = Len(history) + Len(ran[j])
        /\ Done(j) <= Len(E) /\ Len(ran[j]) = rows[j] + 1
        /\ ran[j] = SubSeq(E, Len(history) + 1, Done(j))
        /\ IsPrefix(history, E)
      BY <1>1 DEF Progress, Done
  <2>4. /\ applied'[j] = history /\ history' = history /\ ran'[j] = ran[j]
        /\ rows'[j] = rows[j] + 1 /\ release'[j] = release[j]
        /\ pc'[j] = AfterScript(j, Done(j))
      BY <1>1, <2>1, <2>3 DEF IInv, TypeOK, db, Goto, Processes
  <2>5. Done(j)' = Done(j)
      BY <2>3, <2>4 DEF Done
  <2>6. Progress(j)'
    <3>1. Len(history) \in Nat /\ Len(ran[j]) \in Nat /\ Len(E) \in Nat
        BY <1>1
    <3>. HIDE DEF E
    <3>2. Done(j) \in Nat
        BY <3>1, <2>3
    <3>3. AfterScript(j, Done(j)) = IF Done(j) = Len(E) THEN "commit" ELSE "apply"
        BY DEF AfterScript, E
    <3>4. /\ pc'[j] = "apply" => Done(j) < Len(E)
          /\ pc'[j] = "commit" => Done(j) = Len(E)
          /\ pc'[j] # "record"
      <4>1. Done(j) <= Len(E)
          BY <2>3
      <4>2. pc'[j] = AfterScript(j, Done(j))
          BY <2>4
      <4>. QED
          BY <3>1, <3>2, <3>3, <4>1, <4>2
    <3>5. E' = E
        BY <2>4 DEF E
    <3>. QED
        BY <2>3, <2>4, <2>5, <3>4, <3>5 DEF Progress, E
  <2>7. /\ applied' \in [Jobs -> Seq(Scripts)]
        /\ ran' \in [Jobs -> Seq(Scripts)]
        /\ rows' \in [Jobs -> Nat]
        /\ \A k \in Jobs : k # j => /\ applied'[k] = applied[k]
                                    /\ ran'[k] = ran[k]
                                    /\ rows'[k] = rows[k]
      BY <1>1, <2>1 DEF IInv, TypeOK
  <2>. QED
      BY <1>1, <2>1, <2>2, <2>6, <2>7, Advances
<1>. QED
    BY <1>2, <1>3

\* A commit completes the history and the schema to the migrations of the
\* release.
LEMMA CommitCompletes ==
    ASSUME IInv, NEW j \in Jobs, Commit(j)
    PROVE  /\ IsPrefix(history, Embedded[release[j]])
           /\ history' = Embedded[release[j]]
           /\ schema' = Embedded[release[j]]
<1>. DEFINE E == Embedded[release[j]]
<1>1. /\ pc[j] = "commit" /\ Progress(j)
      /\ E \in Seq(Scripts) /\ history \in Seq(Scripts)
    BY EmbeddedIsSequence
    DEF IInv, TypeOK, Commit, InProgress, HasReadHistory, Processes
<1>2. /\ applied[j] = history /\ Done(j) = Len(history) + Len(ran[j])
      /\ Done(j) = Len(E) /\ rows[j] = Len(ran[j])
      /\ ran[j] = SubSeq(E, Len(history) + 1, Done(j))
      /\ IsPrefix(history, E)
    BY <1>1 DEF Progress, Done
<1>3. Recorded(j) = SubSeq(E, Len(history) + 1, Len(E))
      /\ ran[j] = SubSeq(E, Len(history) + 1, Len(E))
  <2>1. Len(history) + rows[j] = Len(E)
      BY <1>2
  <2>. QED
      BY <1>2, <2>1, Zenon DEF Recorded
<1>4. history \o SubSeq(E, Len(history) + 1, Len(E)) = E
    BY <1>1, <1>2, PrefixCompleted
<1>5. schema = history
    BY DEF IInv, SchemaMatchesHistory
<1>6. history' = history \o Recorded(j) /\ schema' = schema \o ran[j]
    BY DEF Commit
<1>. HIDE DEF E
<1>7. history' = E /\ schema' = E
    BY <1>3, <1>4, <1>5, <1>6, Zenon
<1>. QED
    BY <1>2, <1>7 DEF E

LEMMA CommitStep ==
    ASSUME IInv, NEW j \in Jobs, Commit(j)
    PROVE  IInv'
<1>. DEFINE E == Embedded[release[j]]
<1>1. /\ IsPrefix(history, E) /\ history' = E /\ schema' = E
      /\ E \in Seq(Scripts) /\ history \in Seq(Scripts)
    BY CommitCompletes, EmbeddedIsSequence DEF IInv, TypeOK, Processes
<1>2. PICK l \in {"up", "failed"} : Goto(j, l)
    BY DEF Commit
<1>3. /\ pc[j] = "commit" /\ release' = release
      /\ metadata' = TRUE /\ EndTransaction(j)
    BY DEF Commit
<1>4. lock = j
    BY <1>3 DEF IInv, LockHeld, InTransaction
<1>5. TypeOK'
  <2>1. metadata' \in BOOLEAN
      BY <1>3, Zenon
  <2>2. history' \in Seq(Scripts) /\ schema' \in Seq(Scripts)
      BY <1>1, Zenon
  <2>3. /\ lock' \in Jobs \cup {Nil} /\ release' \in [Processes -> Releases]
        /\ pc' \in [Processes -> PCs]
      BY <1>2, <1>3 DEF IInv, TypeOK, EndTransaction, Goto, PCs, Processes
  <2>4. /\ applied' \in [Jobs -> Seq(Scripts)]
        /\ ran' \in [Jobs -> Seq(Scripts)]
        /\ rows' \in [Jobs -> Nat]
      BY <1>3 DEF IInv, TypeOK, EndTransaction
  <2>. QED
      BY <2>1, <2>2, <2>3, <2>4 DEF TypeOK
<1>6. LockHeld'
    BY <1>2, <1>3, <1>4, SchemaMigrationsAssumption
    DEF IInv, TypeOK, LockHeld, EndTransaction, Goto, Processes, InTransaction
<1>7. \A k \in Jobs : pc'[k] \notin HasReadHistory
    BY <1>2, <1>4
    DEF IInv, TypeOK, LockHeld, Goto, Processes, InTransaction, HasReadHistory
<1>8. InProgress' /\ Untouched'
  <2>1. \A k \in Jobs : k # j => pc[k] \notin HasReadHistory
      BY <1>4 DEF IInv, LockHeld, InTransaction, HasReadHistory
  <2>. QED
      BY <1>3, <1>7, <2>1
      DEF IInv, TypeOK, EndTransaction, InProgress, Untouched
<1>9. SchemaMatchesHistory'
    BY <1>1 DEF SchemaMatchesHistory
<1>10. Lasting'
  <2> SUFFICES ASSUME NEW p \in Processes,
                      pc'[p] \in {"seed", "running", "valid", "up"}
               PROVE  IsPrefix(Embedded[release[p]], E)
      BY <1>1, <1>3 DEF Lasting
  <2>1. CASE p = j
      BY <1>1, <2>1, EqualIsPrefix
  <2>2. CASE p # j
    <3>1. IsPrefix(Embedded[release[p]], history)
        BY <1>2, <2>2 DEF IInv, TypeOK, Lasting, Goto
    <3>2. Embedded[release[p]] \in Seq(Scripts)
        BY EmbeddedIsSequence DEF IInv, TypeOK
    <3>. QED
        BY <1>1, <3>1, <3>2, PrefixIsTransitive
  <2>. QED
      BY <2>1, <2>2
<1>. QED
    BY <1>5, <1>6, <1>8, <1>9, <1>10 DEF IInv

\* The steps of checkers, and of jobs before they read the history.
LEMMA OtherJobSteps ==
    ASSUME IInv, NEW j \in Jobs,
           StartJob(j) \/ Begin(j) \/ AcquireLock(j) \/ CreateTable(j) \/ Fail(j)
    PROVE  IInv'
<1>. j \in Processes
    BY DEF Processes
<1>1. CASE StartJob(j)
    BY <1>1, Moves
    DEF IInv, TypeOK, StartJob, Start, PCs, JobPCs, HasReadHistory, InTransaction
<1>2. CASE Begin(j)
    BY <1>2, Moves
    DEF IInv, TypeOK, Begin, PCs, JobPCs, HasReadHistory, InTransaction
<1>3. CASE CreateTable(j)
    BY <1>3, Moves
    DEF IInv, TypeOK, CreateTable, PCs, JobPCs, HasReadHistory, InTransaction
<1>4. CASE AcquireLock(j)
  <2>1. /\ pc[j] = "lock" /\ lock = Nil /\ lock' = j
        /\ pc' = [pc EXCEPT ![j] = "create"]
        /\ UNCHANGED <<db, release, tx>>
      BY <1>4 DEF AcquireLock, LockFree, Goto
  <2>2. TypeOK'
      BY <2>1 DEF IInv, TypeOK, PCs, JobPCs, db, tx
  <2>3. LockHeld'
      BY <2>1, SchemaMigrationsAssumption
      DEF IInv, TypeOK, LockHeld, InTransaction
  <2>4. \A k \in Jobs : pc[k] \notin HasReadHistory /\ pc'[k] \notin HasReadHistory
      BY <2>1, SchemaMigrationsAssumption
      DEF IInv, TypeOK, LockHeld, InTransaction, HasReadHistory
  <2>5. InProgress' /\ Untouched'
      BY <2>1, <2>4 DEF IInv, InProgress, Untouched, tx
  <2>6. SchemaMatchesHistory' /\ Lasting'
      BY <2>1 DEF IInv, TypeOK, SchemaMatchesHistory, Lasting, db
  <2>. QED
      BY <2>2, <2>3, <2>5, <2>6 DEF IInv
<1>5. CASE Fail(j)
    BY <1>5, RollsBack DEF Fail, MayFail
<1>. QED
    BY <1>1, <1>2, <1>3, <1>4, <1>5

LEMMA CheckerSteps ==
    ASSUME IInv, NEW c \in Checkers, StartCheck(c) \/ CheckStep(c) \/ Stop(c)
    PROVE  IInv'
<1>1. c \in Processes /\ c \notin Jobs
    BY SchemaMigrationsAssumption DEF Processes
<1>2. CASE StartCheck(c)
  <2>1. /\ Goto(c, "locate") /\ UNCHANGED <<db, lock, tx>>
        /\ \E r \in Releases : release' = [release EXCEPT ![c] = r]
      BY <1>2 DEF StartCheck, Start
  <2>2. /\ release' \in [Processes -> Releases]
        /\ \A q \in Processes : q # c => release'[q] = release[q]
      BY <2>1 DEF IInv, TypeOK
  <2>3. "locate" \in PCs
      BY DEF PCs, CheckPCs
  <2>. QED
      BY <1>1, <2>1, <2>2, <2>3, Moves
<1>3. CASE LocateMetadata(c)
  <2>1. CASE metadata
      BY <1>1, <1>3, <2>1, Moves DEF IInv, TypeOK, LocateMetadata, PCs, CheckPCs
  <2>2. CASE ~metadata
      BY <1>1, <1>3, <2>2, Moves DEF IInv, TypeOK, LocateMetadata, PCs, CheckPCs
  <2>. QED
      BY <2>1, <2>2
<1>4. CASE CheckHistory(c)
  <2>1. CASE ~IsCurrent(release[c])
      BY <1>1, <1>4, <2>1, Moves DEF IInv, TypeOK, CheckHistory, PCs, CheckPCs
  <2>2. CASE IsCurrent(release[c])
    <3>1. /\ Embedded[release[c]] \in Seq(Scripts) /\ history \in Seq(Scripts)
          /\ IsPrefix(history, Embedded[release[c]])
          /\ Len(history) = Len(Embedded[release[c]])
        BY <1>1, <2>2, EmbeddedIsSequence
        DEF IInv, TypeOK, IsCurrent, validateMigrationState
    <3>2. IsPrefix(Embedded[release[c]], history)
        BY <3>1, FullPrefix, EqualIsPrefix
    <3>3. PICK l \in {"valid", "seed"} : Goto(c, l)
        BY <1>4, <2>2 DEF CheckHistory
    <3>. QED
        BY <1>1, <1>4, <3>2, <3>3, Moves
        DEF IInv, TypeOK, CheckHistory, PCs, CheckPCs
  <2>. QED
      BY <2>1, <2>2
<1>5. CASE Serve(c)
  <2>1. IsPrefix(Embedded[release[c]], history)
      BY <1>1, <1>5 DEF IInv, Lasting, Serve
  <2>. QED
      BY <1>1, <1>5, <2>1, Moves DEF IInv, TypeOK, Serve, PCs, CheckPCs
<1>6. CASE Stop(c)
  <2>1. Goto(c, "failed") /\ UNCHANGED <<db, lock, release, tx>>
      BY <1>6 DEF Stop
  <2>. QED
      BY <1>1, <2>1, Moves DEF IInv, TypeOK, PCs
<1>. QED
    BY <1>2, <1>3, <1>4, <1>5, <1>6 DEF CheckStep

LEMMA NextIInv == IInv /\ [Next]_vars => IInv'
<1> SUFFICES ASSUME IInv, [Next]_vars PROVE IInv'
    OBVIOUS
<1>1. ASSUME NEW j \in Jobs, StartJob(j) \/ JobStep(j) \/ Fail(j)
      PROVE  IInv'
    BY <1>1, OtherJobSteps, ReadAppliedStep, ApplyScriptStep,
       RecordScriptStep, CommitStep DEF JobStep
<1>2. CASE UNCHANGED vars
  <2>1. /\ TypeOK' /\ LockHeld' /\ Untouched' /\ SchemaMatchesHistory' /\ Lasting'
      BY <1>2 DEF vars, IInv, TypeOK, LockHeld, Untouched, SchemaMatchesHistory,
                  Lasting
  <2>2. InProgress'
      BY <1>2 DEF vars, IInv, InProgress, Progress, Done
  <2>. QED
      BY <2>1, <2>2 DEF IInv
<1>. QED
    BY <1>1, <1>2, CheckerSteps DEF Next

----------------------------------------------------------------------------

\* The inductive invariant: the advisory lock of applyMigrations, held until
\* the transaction ends, keeps the history a job has read in place.
THEOREM InductiveInvariant == Spec => []IInv
BY InitIInv, NextIInv, PTL DEF Spec

\* What schema_migrations records is what has been executed.
THEOREM HistoryIsTrue == Spec => []SchemaMatchesHistory
<1>1. IInv => SchemaMatchesHistory
    BY DEF IInv
<1>. QED
    BY <1>1, InductiveInvariant, PTL

\* What validateCurrentMigrations found, and what applyMigrations reported,
\* stays true whatever other jobs do.
THEOREM SuccessLasts == Spec => []SuccessIsLasting
<1>1. IInv => SuccessIsLasting
    BY DEF IInv, SchemaMatchesHistory, Lasting, SuccessIsLasting
<1>. QED
    BY <1>1, InductiveInvariant, PTL

\* No insert into schema_migrations waits for another job or violates the
\* primary key.
THEOREM NoCollision == Spec => []JobsDoNotCollide
<1>1. IInv => JobsDoNotCollide
  <2> SUFFICES ASSUME IInv, NEW j \in Jobs, pc[j] = "record"
               PROVE  ~Contended(j) /\ ~Duplicate(j)
      BY DEF JobsDoNotCollide
  <2>1. /\ Progress(j) /\ rows[j] \in Nat /\ Len(ran[j]) = rows[j] + 1
        /\ history \in Seq(Scripts)
      BY DEF IInv, TypeOK, InProgress, Progress, HasReadHistory
  <2>2. Done(j) = Len(history) + rows[j] + 1 /\ Len(history) \in Nat
      BY <2>1 DEF Progress, Done
  <2>3. ~Duplicate(j)
      BY <2>1, <2>2 DEF Duplicate
  <2>4. ASSUME NEW k \in Jobs \ {j}
        PROVE  applied[k] = <<>> /\ rows[k] = 0
      BY DEF IInv, LockHeld, Untouched, InTransaction, HasReadHistory
  <2>5. ~Contended(j)
      BY <2>1, <2>2, <2>4 DEF Contended
  <2>. QED
      BY <2>3, <2>5
<1>. QED
    BY <1>1, InductiveInvariant, PTL

\* A commit of applyMigrations takes the history from the first migrations of
\* a release to all of them.
THEOREM BatchesAreWhole == Spec => WholeBatches
<1>1. IInv /\ [Next]_vars =>
        [history' # history =>
            \E r \in Releases :
               IsPrefix(history, Embedded[r]) /\ history' = Embedded[r]]_vars
  <2> SUFFICES ASSUME IInv, Next, history' # history
               PROVE  \E r \in Releases :
                         IsPrefix(history, Embedded[r]) /\ history' = Embedded[r]
      BY DEF vars
  <2>1. PICK j \in Jobs : Commit(j)
      BY DEF Next, StartJob, JobStep, Begin, AcquireLock, CreateTable,
             ReadApplied, ApplyScript, RecordScript, Fail, StartCheck,
             CheckStep, LocateMetadata, CheckHistory, Serve, Stop, db
  <2>2. release[j] \in Releases
      BY DEF IInv, TypeOK, Processes
  <2>. QED
      BY <2>1, <2>2, CommitCompletes
<1>. QED
    BY <1>1, InductiveInvariant, PTL DEF Spec, WholeBatches

----------------------------------------------------------------------------
(***************************************************************************)
(* Why jobs end.  The deadline of the operation is fairness, which the run *)
(* assumes.  That a job which is let go on has finitely many statements    *)
(* left, and that only the lock makes it wait, is proved here.             *)
(***************************************************************************)

\* How many statements are left, at most, to a job at l whose release has n
\* migrations of which d are applied.
StatementsLeft(l, n, d) ==
    CASE l = "begin"  -> 2 * n + 6
      [] l = "lock"   -> 2 * n + 5
      [] l = "create" -> 2 * n + 4
      [] l = "read"   -> 2 * n + 3
      [] l = "record" -> 2 * (n - d) + 3
      [] l = "apply"  -> 2 * (n - d) + 2
      [] l = "commit" -> 1
      [] OTHER        -> 0

Left(j) == StatementsLeft(pc[j], Len(Embedded[release[j]]), Done(j))

\* A job that has begun comes nearer to its end with each of its statements
\* and is not touched by anybody else's.
ComesNearer(j) ==
    pc[j] \in JobPCs => \/ UNCHANGED <<pc[j], Left(j)>>
                        \/ Left(j)' \in Nat /\ Left(j)' < Left(j)

\* The order of the statements of applyMigrations: from l, with d of n
\* migrations applied, to m with e of them.
Follows(l, d, m, e, n) ==
    \/ l = "begin" /\ m = "lock"
    \/ l = "lock" /\ m = "create"
    \/ l = "create" /\ m = "read"
    \/ l = "read" /\ m \in {"apply", "commit"}
    \/ l = "apply" /\ m = "record" /\ e = d + 1
    \/ l = "record" /\ m \in {"apply", "commit"} /\ e = d
    \/ m \in {"up", "failed"}

\* Whatever follows has fewer statements left.
LEMMA FollowsLowers ==
    ASSUME NEW n \in Nat, NEW d \in Nat, NEW e \in Nat, NEW l \in JobPCs, NEW m,
           l \in HasReadHistory => d <= n,
           m \in HasReadHistory => e <= n,
           Follows(l, d, m, e, n)
    PROVE  /\ StatementsLeft(m, n, e) \in Nat
           /\ StatementsLeft(m, n, e) < StatementsLeft(l, n, d)
BY DEF Follows, StatementsLeft, JobPCs, HasReadHistory

\* What a job has applied is counted in numbers, within its release.
LEMMA CountsAreNumbers ==
    ASSUME IInv, NEW j \in Jobs
    PROVE  /\ Len(Embedded[release[j]]) \in Nat
           /\ Done(j) \in Nat
           /\ pc[j] \in HasReadHistory => Done(j) <= Len(Embedded[release[j]])
<1>1. /\ Embedded[release[j]] \in Seq(Scripts)
      /\ applied[j] \in Seq(Scripts) /\ ran[j] \in Seq(Scripts)
    BY EmbeddedIsSequence DEF IInv, TypeOK, Processes
<1>2. /\ Len(Embedded[release[j]]) \in Nat
      /\ Len(applied[j]) \in Nat /\ Len(ran[j]) \in Nat
    BY <1>1
<1>3. \A m, n \in Nat : m + n \in Nat
    OBVIOUS
<1>4. Done(j) \in Nat
    BY <1>2, <1>3, Zenon DEF Done
<1>. QED
    BY <1>2, <1>4 DEF IInv, InProgress, Progress

\* Each statement of a job, and its failure, is one of the order.
LEMMA StatementFollows ==
    ASSUME IInv, NEW j \in Jobs, JobStep(j) \/ Fail(j)
    PROVE  /\ pc[j] \in JobPCs /\ release' = release
           /\ Follows(pc[j], Done(j), pc'[j], Done(j)',
                      Len(Embedded[release[j]]))
<1>1. ASSUME NEW l, Goto(j, l) PROVE pc'[j] = l
    BY <1>1 DEF Goto, IInv, TypeOK, Processes
<1>2. CASE Begin(j) \/ AcquireLock(j) \/ CreateTable(j)
    BY <1>1, <1>2 DEF Begin, AcquireLock, CreateTable, JobPCs, Follows
<1>3. CASE ReadApplied(j)
  <2>1. pc[j] = "read" /\ release' = release
      BY <1>3 DEF ReadApplied
  <2>2. pc'[j] \in {"apply", "commit", "failed"}
      BY <1>1, <1>3 DEF ReadApplied, Rollback, AfterScript
  <2>. QED
      BY <2>1, <2>2 DEF JobPCs, Follows
<1>4. CASE ApplyScript(j)
  <2>1. /\ pc[j] = "apply" /\ release' = release /\ pc'[j] = "record"
        /\ applied' = applied
        /\ ran' = [ran EXCEPT ![j] =
                      Append(@, Embedded[release[j]][Done(j) + 1])]
      BY <1>1, <1>4 DEF ApplyScript
  <2>2. /\ Embedded[release[j]] \in Seq(Scripts)
        /\ ran[j] \in Seq(Scripts) /\ applied[j] \in Seq(Scripts)
        /\ Done(j) < Len(Embedded[release[j]])
      BY <2>1, EmbeddedIsSequence
      DEF IInv, TypeOK, InProgress, Progress, HasReadHistory, Processes
  <2>3. Embedded[release[j]][Done(j) + 1] \in Scripts
      BY <2>2, CountsAreNumbers
  <2>4. Len(ran'[j]) = Len(ran[j]) + 1
      BY <2>1, <2>2, <2>3 DEF IInv, TypeOK
  <2>5. Done(j)' = Done(j) + 1
    <3>1. Len(applied[j]) \in Nat /\ Len(ran[j]) \in Nat
        BY <2>2
    <3>2. \A m, n \in Nat : m + (n + 1) = (m + n) + 1
        OBVIOUS
    <3>. QED
        BY <2>1, <2>4, <3>1, <3>2, Zenon DEF Done
  <2>. QED
      BY <2>1, <2>5 DEF JobPCs, Follows
<1>5. CASE RecordScript(j)
  <2>1. pc[j] = "record" /\ release' = release
      BY <1>5 DEF RecordScript
  <2>2. CASE Duplicate(j)
      BY <1>1, <1>5, <2>1, <2>2 DEF RecordScript, Rollback, JobPCs, Follows
  <2>3. CASE ~Duplicate(j)
    <3>1. /\ UNCHANGED <<applied, ran>>
          /\ pc'[j] \in {"apply", "commit"}
        BY <1>1, <1>5, <2>3 DEF RecordScript, AfterScript
    <3>2. Done(j)' = Done(j)
        BY <3>1 DEF Done
    <3>. QED
        BY <2>1, <3>1, <3>2 DEF JobPCs, Follows
  <2>. QED
      BY <2>2, <2>3
<1>6. CASE Commit(j) \/ Fail(j)
    BY <1>1, <1>6 DEF Commit, Fail, MayFail, Rollback, JobPCs, Follows
<1>. QED
    BY <1>2, <1>3, <1>4, <1>5, <1>6 DEF JobStep

\* A step of another process does not touch a job.
LEMMA OthersLeaveJob ==
    ASSUME IInv, NEW j \in Jobs,
           \/ \E k \in Jobs \ {j} : StartJob(k) \/ JobStep(k) \/ Fail(k)
           \/ \E c \in Checkers : StartCheck(c) \/ CheckStep(c) \/ Stop(c)
    PROVE  UNCHANGED <<pc[j], Left(j)>>
<1>1. /\ pc \in [Processes -> PCs] /\ release \in [Processes -> Releases]
      /\ applied \in [Jobs -> Seq(Scripts)] /\ ran \in [Jobs -> Seq(Scripts)]
      /\ j \in Processes
    BY DEF IInv, TypeOK, Processes
<1>2. ASSUME NEW k \in Jobs, k # j, StartJob(k) \/ JobStep(k) \/ Fail(k)
      PROVE  UNCHANGED <<pc[j], release[j], applied[j], ran[j]>>
  <2>1. ASSUME NEW l, Goto(k, l) PROVE pc'[j] = pc[j]
      BY <1>1, <1>2, <2>1 DEF Goto
  <2>2. CASE StartJob(k) \/ Begin(k) \/ AcquireLock(k) \/ CreateTable(k)
      BY <1>1, <1>2, <2>1, <2>2
      DEF StartJob, Start, Begin, AcquireLock, CreateTable, tx
  <2>3. CASE ReadApplied(k) \/ ApplyScript(k) \/ RecordScript(k)
      BY <1>1, <1>2, <2>1, <2>3
      DEF ReadApplied, ApplyScript, RecordScript, Rollback, EndTransaction
  <2>4. CASE Commit(k) \/ Fail(k)
      BY <1>1, <1>2, <2>1, <2>4 DEF Commit, Fail, Rollback, EndTransaction
  <2>. QED
      BY <1>2, <2>2, <2>3, <2>4 DEF JobStep
<1>3. ASSUME NEW c \in Checkers, StartCheck(c) \/ CheckStep(c) \/ Stop(c)
      PROVE  UNCHANGED <<pc[j], release[j], applied[j], ran[j]>>
    BY <1>1, <1>3, SchemaMigrationsAssumption
    DEF StartCheck, Start, CheckStep, LocateMetadata, CheckHistory, Serve,
        Stop, Goto, tx
<1>4. UNCHANGED <<pc[j], release[j], applied[j], ran[j]>>
    BY <1>2, <1>3
<1>. QED
    BY <1>4 DEF Left, Done

\* migrate up is short: a job of a release with n migrations ends after at
\* most 2n + 6 statements of its own, whichever other jobs and instances run
\* beside it and whatever they deploy.  What EveryJobEnds adds is that each
\* statement returns, at the latest when the deadline passes.
THEOREM JobsAreShort == Spec => [][\A j \in Jobs : ComesNearer(j)]_vars
<1>1. IInv /\ IInv' /\ [Next]_vars => \A j \in Jobs : ComesNearer(j)
  <2> SUFFICES ASSUME IInv, IInv', [Next]_vars, NEW j \in Jobs, pc[j] \in JobPCs
               PROVE  \/ UNCHANGED <<pc[j], Left(j)>>
                      \/ Left(j)' \in Nat /\ Left(j)' < Left(j)
      BY DEF ComesNearer
  <2>1. CASE JobStep(j) \/ Fail(j)
    <3>1. release' = release
          /\ Follows(pc[j], Done(j), pc'[j], Done(j)',
                     Len(Embedded[release[j]]))
        BY <2>1, StatementFollows
    <3>2. /\ Len(Embedded[release[j]]) \in Nat /\ Done(j) \in Nat
          /\ pc[j] \in HasReadHistory => Done(j) <= Len(Embedded[release[j]])
        BY CountsAreNumbers
    <3>3. /\ Done(j)' \in Nat
          /\ pc'[j] \in HasReadHistory => Done(j)' <= Len(Embedded[release[j]])
      <4>1. applied'[j] \in Seq(Scripts) /\ ran'[j] \in Seq(Scripts)
          BY DEF IInv, TypeOK
      <4>2. Len(applied'[j]) \in Nat /\ Len(ran'[j]) \in Nat
          BY <4>1
      <4>3. \A m, n \in Nat : m + n \in Nat
          OBVIOUS
      <4>4. Done(j)' \in Nat
          BY <4>2, <4>3, Zenon DEF Done
      <4>. QED
          BY <3>1, <4>4 DEF IInv, InProgress, Progress
    <3>4. /\ StatementsLeft(pc'[j], Len(Embedded[release[j]]), Done(j)') \in Nat
          /\ StatementsLeft(pc'[j], Len(Embedded[release[j]]), Done(j)')
               < StatementsLeft(pc[j], Len(Embedded[release[j]]), Done(j))
        BY <3>1, <3>2, <3>3, FollowsLowers
    <3>. QED
        BY <3>1, <3>4 DEF Left
  <2>2. CASE \/ \E k \in Jobs \ {j} : StartJob(k) \/ JobStep(k) \/ Fail(k)
             \/ \E c \in Checkers : StartCheck(c) \/ CheckStep(c) \/ Stop(c)
      BY <2>2, OthersLeaveJob
  <2>3. CASE StartJob(j)
      BY <2>3 DEF StartJob, Start, JobPCs
  <2>4. CASE UNCHANGED vars
      BY <2>4 DEF vars, Left, Done
  <2>. QED
      BY <2>1, <2>2, <2>3, <2>4 DEF Next
<1>. QED
    BY <1>1, InductiveInvariant, PTL DEF Spec

\* A job waits for nothing but the lock, and then for a job in its
\* transaction, which itself waits for nothing: the insert of a row never
\* meets the row of a transaction that has not ended.
LockIsTheOnlyWait ==
    \A j \in Jobs :
        /\ pc[j] = "lock" /\ ~LockFree(j) =>
              lock \in Jobs \ {j} /\ pc[lock] \in InTransaction
        /\ pc[j] = "record" => ~Contended(j)

\* Jobs never wait for each other in a circle, for any number of them: the
\* advisory lock is taken before any row is written.
THEOREM NoCircularWait == Spec => []LockIsTheOnlyWait
<1>1. IInv /\ JobsDoNotCollide => LockIsTheOnlyWait
    BY DEF IInv, TypeOK, LockHeld, InTransaction, JobsDoNotCollide,
           LockIsTheOnlyWait, LockFree
<1>. QED
    BY <1>1, InductiveInvariant, NoCollision, PTL

=============================================================================
