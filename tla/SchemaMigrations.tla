-------------------------- MODULE SchemaMigrations --------------------------
(***************************************************************************)
(* The deployment of the PostgreSQL schema: "migrate up" jobs              *)
(* (applyMigrations), the check of the recorded history by                 *)
(* "migrate validate" and by an application instance that starts           *)
(* (validateCurrentMigrations), for several releases, whose embedded       *)
(* migrations may have drifted apart.  Jobs and instances run side by      *)
(* side, fail or die at any statement and are started again.               *)
(*                                                                         *)
(* PostgreSQL is modelled from its use: what a transaction writes is seen  *)
(* by the others when it commits, a statement reads what is committed when *)
(* it starts, an advisory lock is released with its transaction, and two   *)
(* rows with one version cannot be inserted.                               *)
(***************************************************************************)
EXTENDS Naturals, Sequences, SequencesExt

CONSTANTS
    Jobs,       \* "migrate up" processes
    Checkers,   \* "migrate validate" processes and application instances
    Scripts,    \* migration files: name and contents, hence checksum
    Releases,   \* the binaries that may be deployed
    Embedded,   \* the migrations of each release, in the order of version
    Nil         \* nobody holds the lock

\* loadMigrations refuses a release without migrations, and one whose
\* versions are not 1, 2, ...: a version is a place in Embedded.
ASSUME SchemaMigrationsAssumption ==
    /\ Embedded \in [Releases -> Seq(Scripts) \ {<<>>}]
    /\ Nil \notin Jobs
    /\ Jobs \cap Checkers = {}

VARIABLES
    metadata,  \* the table schema_migrations exists
    history,   \* its rows, by version
    schema,    \* the scripts whose statements have been committed, in order
    lock,      \* who holds the advisory lock
    pc,        \* where each process is
    release,   \* the binary it runs
    applied,   \* the history the transaction of a job read
    ran,       \* the scripts it executed
    rows       \* the versions it recorded

vars == <<metadata, history, schema, lock, pc, release, applied, ran, rows>>
db == <<metadata, history, schema>>
tx == <<applied, ran, rows>>

Processes == Jobs \cup Checkers

JobPCs == {"begin", "lock", "create", "read", "apply", "record", "commit"}

CheckPCs == {"locate", "check", "seed", "running", "valid"}

PCs == JobPCs \cup CheckPCs \cup {"idle", "up", "failed"}

TypeOK ==
    /\ metadata \in BOOLEAN
    /\ history \in Seq(Scripts)
    /\ schema \in Seq(Scripts)
    /\ lock \in Jobs \cup {Nil}
    /\ pc \in [Processes -> PCs]
    /\ release \in [Processes -> Releases]
    /\ applied \in [Jobs -> Seq(Scripts)]
    /\ ran \in [Jobs -> Seq(Scripts)]
    /\ rows \in [Jobs -> Nat]

Init ==
    /\ metadata = FALSE
    /\ history = <<>>
    /\ schema = <<>>
    /\ lock = Nil
    /\ pc = [p \in Processes |-> "idle"]
    /\ release \in [Processes -> Releases]
    /\ applied = [j \in Jobs |-> <<>>]
    /\ ran = [j \in Jobs |-> <<>>]
    /\ rows = [j \in Jobs |-> 0]

Goto(p, l) == pc' = [pc EXCEPT ![p] = l]

\* Mutant of validateMigrationState: only the versions are compared.
validateVersionsOnly(available, recorded) == Len(recorded) <= Len(available)

\* validateMigrationState: the recorded migrations are the first of the
\* available ones, with the same names and checksums.
validateMigrationState(available, recorded) == IsPrefix(recorded, available)

\* A process starts, perhaps again and with another binary.
Start(p, l) ==
    /\ pc[p] \in {"idle", "up", "failed", "valid"}
    /\ Goto(p, l)
    /\ \E r \in Releases : release' = [release EXCEPT ![p] = r]

----------------------------------------------------------------------------
(***************************************************************************)
(* migrate up: applyMigrations.                                            *)
(***************************************************************************)

StartJob(j) ==
    /\ Start(j, "begin")
    /\ UNCHANGED <<db, lock, tx>>

\* BeginTxx.
Begin(j) ==
    /\ pc[j] = "begin"
    /\ Goto(j, "lock")
    /\ UNCHANGED <<db, lock, release, tx>>

\* Mutant of LockFree: the lock is not asked for.
LockFreeAlways(j) == TRUE

LockFree(j) == lock = Nil

\* pg_advisory_xact_lock returns.
AcquireLock(j) ==
    /\ pc[j] = "lock"
    /\ LockFree(j)
    /\ lock' = j
    /\ Goto(j, "create")
    /\ UNCHANGED <<db, release, tx>>

\* CREATE TABLE IF NOT EXISTS; the table appears with the commit.
CreateTable(j) ==
    /\ pc[j] = "create"
    /\ Goto(j, "read")
    /\ UNCHANGED <<db, lock, release, tx>>

\* The transaction ends: what it read and wrote is forgotten, its lock is
\* released.
EndTransaction(j) ==
    /\ lock' = IF lock = j THEN Nil ELSE lock
    /\ applied' = [applied EXCEPT ![j] = <<>>]
    /\ ran' = [ran EXCEPT ![j] = <<>>]
    /\ rows' = [rows EXCEPT ![j] = 0]

Rollback(j) ==
    /\ Goto(j, "failed")
    /\ EndTransaction(j)

\* The migration a job applies next.
Done(j) == Len(applied[j]) + Len(ran[j])

AfterScript(j, n) == IF n = Len(Embedded[release[j]]) THEN "commit" ELSE "apply"

\* readAppliedMigrations and validateMigrationState.
ReadApplied(j) ==
    /\ pc[j] = "read"
    /\ IF validateMigrationState(Embedded[release[j]], history)
       THEN /\ applied' = [applied EXCEPT ![j] = history]
            /\ Goto(j, AfterScript(j, Len(history)))
            /\ UNCHANGED <<lock, ran, rows>>
       ELSE Rollback(j)
    /\ UNCHANGED <<db, release>>

\* The statements of the next pending migration.
ApplyScript(j) ==
    /\ pc[j] = "apply"
    /\ ran' = [ran EXCEPT ![j] = Append(@, Embedded[release[j]][Done(j) + 1])]
    /\ Goto(j, "record")
    /\ UNCHANGED <<db, lock, release, applied, rows>>

\* Another transaction holds a row with that version and has not ended: the
\* insert waits for it.
Contended(j) ==
    \E k \in Jobs \ {j} :
        /\ Len(applied[k]) < Done(j)
        /\ Len(applied[k]) + rows[k] >= Done(j)

\* A row with that version is committed: unique violation.
Duplicate(j) == Len(history) >= Done(j)

\* INSERT INTO schema_migrations.
RecordScript(j) ==
    /\ pc[j] = "record"
    /\ ~Contended(j)
    /\ IF Duplicate(j)
       THEN Rollback(j)
       ELSE /\ rows' = [rows EXCEPT ![j] = @ + 1]
            /\ Goto(j, AfterScript(j, Done(j)))
            /\ UNCHANGED <<lock, applied, ran>>
    /\ UNCHANGED <<db, release>>

\* Mutant of Recorded: the row of the last script is lost.
RecordedButLast(j) ==
    SubSeq(Embedded[release[j]], Len(applied[j]) + 1,
           Len(applied[j]) + rows[j] - 1)

\* The rows of the transaction.
Recorded(j) ==
    SubSeq(Embedded[release[j]], Len(applied[j]) + 1,
           Len(applied[j]) + rows[j])

\* Commit; its reply may be lost, and the job then reports a failure.
Commit(j) ==
    /\ pc[j] = "commit"
    /\ metadata' = TRUE
    /\ history' = history \o Recorded(j)
    /\ schema' = schema \o ran[j]
    /\ \E l \in {"up", "failed"} : Goto(j, l)
    /\ EndTransaction(j)
    /\ UNCHANGED release

\* Mutant of MayFail: waiting for the lock ignores the context.
MayFailButLock(j) == pc[j] \in JobPCs \ {"lock"}

MayFail(j) == pc[j] \in JobPCs

\* A statement fails, the deadline of the operation passes, a signal cancels
\* it or the process dies: the transaction is rolled back.
Fail(j) ==
    /\ MayFail(j)
    /\ Rollback(j)
    /\ UNCHANGED <<db, release>>

----------------------------------------------------------------------------
(***************************************************************************)
(* migrate validate and the start of an instance: NewDatabase.             *)
(***************************************************************************)

StartCheck(c) ==
    /\ Start(c, "locate")
    /\ UNCHANGED <<db, lock, tx>>

\* to_regclass: no metadata, no history.
LocateMetadata(c) ==
    /\ pc[c] = "locate"
    /\ Goto(c, IF metadata THEN "check" ELSE "failed")
    /\ UNCHANGED <<db, lock, release, tx>>

\* Mutant of IsCurrent: pending migrations are accepted.
IsCurrentOrBehind(r) == validateMigrationState(Embedded[r], history)

\* The history is valid and nothing is pending.
IsCurrent(r) ==
    /\ validateMigrationState(Embedded[r], history)
    /\ Len(history) = Len(Embedded[r])

\* validateCurrentMigrations; an instance goes on to seed.
CheckHistory(c) ==
    /\ pc[c] = "check"
    /\ IF IsCurrent(release[c])
       THEN \E l \in {"valid", "seed"} : Goto(c, l)
       ELSE Goto(c, "failed")
    /\ UNCHANGED <<db, lock, release, tx>>

\* The seeding, the subject of RoleAdministration, and the rest of the boot
\* succeed.
Serve(c) ==
    /\ pc[c] = "seed"
    /\ Goto(c, "running")
    /\ UNCHANGED <<db, lock, release, tx>>

\* The check, the seeding or the boot fails, or the instance stops.
Stop(c) ==
    /\ pc[c] \in {"locate", "check", "seed", "running"}
    /\ Goto(c, "failed")
    /\ UNCHANGED <<db, lock, release, tx>>

JobStep(j) ==
    \/ Begin(j) \/ AcquireLock(j) \/ CreateTable(j) \/ ReadApplied(j)
    \/ ApplyScript(j) \/ RecordScript(j) \/ Commit(j)

CheckStep(c) == LocateMetadata(c) \/ CheckHistory(c) \/ Serve(c)

Next ==
    \/ \E j \in Jobs : StartJob(j) \/ JobStep(j) \/ Fail(j)
    \/ \E c \in Checkers : StartCheck(c) \/ CheckStep(c) \/ Stop(c)

\* A job goes on: each statement returns or, at the latest when the
\* initialization timeout passes, fails.
Spec ==
    /\ Init /\ [][Next]_vars
    /\ \A j \in Jobs : WF_vars(JobStep(j) \/ Fail(j))

----------------------------------------------------------------------------

\* applyMigrations: what is recorded is what was executed, each script once
\* and in the order of the versions, whichever jobs of whichever releases ran
\* at the same time and wherever they failed.
SchemaMatchesHistory == schema = history

\* README "applies the complete pending batch in one transaction": the
\* history moves from the first migrations of a release to all of them,
\* never to a part, and no release whose migrations differ from what is
\* recorded moves it.
WholeBatches ==
    [][history' # history =>
          \E r \in Releases :
             IsPrefix(history, Embedded[r]) /\ history' = Embedded[r]]_vars

\* README "refuses to construct Redis, workers, or the HTTP runtime when
\* migrations are missing, pending, or drifted": while an instance seeds or
\* runs, and after a job reported success, all the migrations of its release
\* are in the schema, unchanged and first, although other releases may have
\* migrated on since the check.
SuccessIsLasting ==
    \A p \in Processes : pc[p] \in {"seed", "running", "valid", "up"} =>
        IsPrefix(Embedded[release[p]], schema)

\* README "serializes concurrent migration jobs": no job runs into the rows
\* of another one; a job that fails does so for a reason of its own.
JobsDoNotCollide ==
    \A j \in Jobs : pc[j] = "record" => ~Contended(j) /\ ~Duplicate(j)

\* Every job ends, although it may wait for a lock that other jobs take again
\* and again: the wait honours the deadline of the operation.
EveryJobEnds ==
    \A j \in Jobs : (pc[j] = "begin") ~> (pc[j] \in {"up", "failed"})
=============================================================================
