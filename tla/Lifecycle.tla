----------------------------- MODULE Lifecycle -----------------------------
(***************************************************************************)
(* One process of the API from construction to exit: initializeApp         *)
(* (cmd/app/app.go), Application.Run and Shutdown (cmd/app/lifecycle.go),  *)
(* the session cleaner (internal/cron) and the HTTP server                 *)
(* (internal/delivery/http/server.go).  Run and Shutdown may be called     *)
(* from several goroutines; the cleaner, the serving goroutine and the     *)
(* request handlers run beside them.                                       *)
(***************************************************************************)
EXTENDS Naturals, FiniteSets

CONSTANTS
    Runners,    \* goroutines that call Run
    Stoppers,   \* goroutines that call Shutdown
    Conns,      \* client connections, each with one request at a time
    None        \* nobody holds lifecycleMu

ASSUME LifecycleAssumption ==
    /\ Runners \cap Stoppers = {}
    /\ None \notin Runners \cup Stoppers

VARIABLES
    boot,       \* the step initializeApp has reached
    resource,   \* logger, PostgreSQL pool and Redis client
    pc,         \* where each caller of Run or Shutdown is
    mu,         \* holder of Application.lifecycleMu
    app,        \* the flags of Application; cleaned: cleanupOnce has run
    cancelled,  \* the context given to Run is cancelled
    cleaner,    \* the cleaner goroutine
    server,     \* the HTTP server
    forced,     \* the shutdown deadline passed and the server was closed
    open,       \* the accepted connections that are open
    handling,   \* those with a running handler
    accepting,  \* Server.accepting
    probe       \* how far the handler of GET /ready on a connection is

vars == <<boot, resource, pc, mu, app, cancelled, cleaner, server, forced,
          open, handling, accepting, probe>>

Callers == Runners \cup Stoppers
Resources == {"logger", "postgres", "redis"}
BootSteps == {"logger", "hasher", "postgres", "redis", "assets", "runtime"}

PCs == {"init", "start", "listen", "await_ready", "serving", "shutdown",
        "stop_server", "stop_cleaner", "close_redis", "close_postgres",
        "sync_logger", "returned"}

\* No probe; waiting for the named store's answer; answered 200; answered 503.
ProbeStates == {"none", "postgres", "redis", "ready", "not_ready"}

TypeOK ==
    /\ boot \in BootSteps \cup {"ready", "failed"}
    /\ resource \in [Resources -> {"absent", "open", "closed"}]
    /\ pc \in [Callers -> PCs]
    /\ mu \in Callers \cup {None}
    /\ app \in [runStarted: BOOLEAN, closed: BOOLEAN, serverStarted: BOOLEAN,
                workersCancelled: BOOLEAN, cleaned: BOOLEAN]
    /\ cancelled \in BOOLEAN
    /\ cleaner \in {"off", "waiting", "cleaning", "stopped"}
    /\ server \in {"off", "serving", "failed", "draining", "stopped"}
    /\ forced \in BOOLEAN
    /\ open \in SUBSET Conns
    /\ handling \in SUBSET Conns
    /\ accepting \in BOOLEAN
    /\ probe \in [Conns -> ProbeStates]

Init ==
    /\ boot = "logger"
    /\ resource = [r \in Resources |-> "absent"]
    /\ pc = [p \in Callers |-> "init"]
    /\ mu = None
    /\ app = [runStarted |-> FALSE, closed |-> FALSE, serverStarted |-> FALSE,
              workersCancelled |-> FALSE, cleaned |-> FALSE]
    /\ cancelled = FALSE
    /\ cleaner = "off"
    /\ server = "off"
    /\ forced = FALSE
    /\ open = {}
    /\ handling = {}
    /\ accepting = FALSE
    /\ probe = [c \in Conns |-> "none"]

----------------------------------------------------------------------------
(* Construction. *)

AfterBootStep(s) ==
    CASE s = "logger"   -> "hasher"
      [] s = "hasher"   -> "postgres"
      [] s = "postgres" -> "redis"
      [] s = "redis"    -> "assets"
      [] s = "assets"   -> "runtime"
      [] s = "runtime"  -> "ready"

Acquired(s) == {s} \cap Resources

\* Mutant of RollbackFailure: the pool is forgotten when Redis fails.
RollbackFailureLeaking(s) ==
    CASE s = "logger" -> {}
      [] s \in {"hasher", "postgres", "redis"} -> {"logger"}
      [] s \in {"assets", "runtime"} -> {"redis", "postgres", "logger"}

\* What the error return of each step closes: the step itself failed.
RollbackFailure(s) ==
    CASE s = "logger" -> {}
      [] s \in {"hasher", "postgres"} -> {"logger"}
      [] s = "redis" -> {"postgres", "logger"}
      [] s \in {"assets", "runtime"} -> {"redis", "postgres", "logger"}

\* What is closed when the context turns out cancelled after a step.  There
\* is no such check between the password hasher and PostgreSQL.
RollbackCancelled(s) ==
    CASE s = "logger" -> {"logger"}
      [] s = "postgres" -> {"postgres", "logger"}
      [] s \in {"redis", "assets", "runtime"} ->
           {"redis", "postgres", "logger"}

Opened(s) == [r \in Resources |-> IF r \in Acquired(s) THEN "open"
                                                       ELSE resource[r]]
Closed(res, R) == [r \in Resources |-> IF r \in R THEN "closed" ELSE res[r]]

\* The constructor of a step succeeds.  Only the password hasher is not
\* followed by a look at the startup context.
BootStep ==
    /\ boot \in BootSteps
    /\ ~cancelled \/ boot = "hasher"
    /\ resource' = Opened(boot)
    /\ boot' = AfterBootStep(boot)
    /\ UNCHANGED <<pc, mu, app, cancelled, cleaner, server, forced, open,
                   handling, accepting, probe>>

\* The constructor of a step returns an error, having kept nothing open; for
\* the logger also the check that precedes it.
BootFails ==
    /\ boot \in BootSteps
    /\ resource' = Closed(resource, RollbackFailure(boot))
    /\ boot' = "failed"
    /\ UNCHANGED <<pc, mu, app, cancelled, cleaner, server, forced, open,
                   handling, accepting, probe>>

\* The step succeeds but startup was cancelled meanwhile.
BootCancelled ==
    /\ boot \in BootSteps \ {"hasher"}
    /\ cancelled
    /\ resource' = Closed(Opened(boot), RollbackCancelled(boot))
    /\ boot' = "failed"
    /\ UNCHANGED <<pc, mu, app, cancelled, cleaner, server, forced, open,
                   handling, accepting, probe>>

----------------------------------------------------------------------------
(* Run. *)

Goto(p, l) == pc' = [pc EXCEPT ![p] = l]
Lock(p) == mu = None /\ mu' = p
Unlock(p) == mu = p /\ mu' = None

\* Run with a cancelled context, or Shutdown, goes straight to the cleanup.
Call(p) ==
    /\ boot = "ready"
    /\ pc[p] = "init"
    /\ Goto(p, IF p \in Stoppers \/ cancelled THEN "shutdown" ELSE "start")
    /\ UNCHANGED <<boot, resource, mu, app, cancelled, cleaner, server,
                   forced, open, handling, accepting, probe>>

\* Mutant of MayStart: a closed application is started.
MayStartClosed == ~app.runStarted

\* The checks of start under the lock.
MayStart == ~app.closed /\ ~app.runStarted

\* start: refused, or the cleaner is started and the lock kept.
Start(p) ==
    /\ pc[p] = "start"
    /\ mu = None
    /\ IF MayStart
       THEN /\ mu' = p
            /\ app' = [app EXCEPT !.runStarted = TRUE]
            /\ cleaner' = "waiting"
            /\ Goto(p, "listen")
       ELSE Goto(p, "shutdown") /\ UNCHANGED <<mu, app, cleaner>>
    /\ UNCHANGED <<boot, resource, cancelled, server, forced, open, handling,
                   accepting, probe>>

\* Server.Start: the listener is bound and a goroutine serves it.
Listen(p) ==
    /\ pc[p] = "listen"
    /\ server' = "serving"
    /\ accepting' = TRUE
    /\ Goto(p, "await_ready")
    /\ UNCHANGED <<boot, resource, mu, app, cancelled, cleaner, forced, open,
                   handling, probe>>

\* Mutant of ListenFails: the error is returned without the unlock.
ListenFailsLocked(p) ==
    /\ pc[p] = "listen"
    /\ Goto(p, "shutdown")
    /\ UNCHANGED <<boot, resource, mu, app, cancelled, cleaner, server,
                   forced, open, handling, accepting, probe>>

\* Server.Start: the listener cannot be bound.
ListenFails(p) ==
    /\ pc[p] = "listen"
    /\ Unlock(p)
    /\ Goto(p, "shutdown")
    /\ UNCHANGED <<boot, resource, app, cancelled, cleaner, server, forced,
                   open, handling, accepting, probe>>

\* Server.Start: the select sees that Accept has been called.
Ready(p) ==
    /\ pc[p] = "await_ready"
    /\ app' = [app EXCEPT !.serverStarted = TRUE]
    /\ Unlock(p)
    /\ Goto(p, "serving")
    /\ UNCHANGED <<boot, resource, cancelled, cleaner, server, forced, open,
                   handling, accepting, probe>>

\* Server.Start: the select sees the serve error, which it may do although
\* Accept was called before: both channels are ready then.
StoppedBeforeReady(p) ==
    /\ pc[p] = "await_ready"
    /\ server = "failed"
    /\ Unlock(p)
    /\ Goto(p, "shutdown")
    /\ UNCHANGED <<boot, resource, app, cancelled, cleaner, server, forced,
                   open, handling, accepting, probe>>

\* Run: the select on cancellation and the serve result.
RunWoken(p) ==
    /\ pc[p] = "serving"
    /\ cancelled \/ server \notin {"off", "serving"}
    /\ Goto(p, "shutdown")
    /\ UNCHANGED <<boot, resource, mu, app, cancelled, cleaner, server,
                   forced, open, handling, accepting, probe>>

----------------------------------------------------------------------------
(* Shutdown. *)

\* Mutant of ShutdownServer: only the end of Serve takes readiness away.
ShutdownServerStillReady ==
    /\ server' = "draining"
    /\ UNCHANGED accepting

\* Server.Shutdown takes readiness away before it drains.
ShutdownServer ==
    /\ server' = "draining"
    /\ accepting' = FALSE

\* Shutdown under the lock, up to the first call of cleanup that can block.
\* A later caller finds cleanupOnce done.
BeginShutdown(p) ==
    /\ pc[p] = "shutdown"
    /\ mu = None
    /\ IF app.cleaned
       THEN /\ Goto(p, "returned")
            /\ app' = [app EXCEPT !.closed = TRUE]
            /\ UNCHANGED <<mu, server, accepting>>
       ELSE /\ mu' = p
            /\ app' = [app EXCEPT !.closed = TRUE, !.workersCancelled = TRUE]
            /\ IF app.serverStarted THEN ShutdownServer
               ELSE UNCHANGED <<server, accepting>>
            /\ Goto(p, IF app.serverStarted THEN "stop_server"
                                            ELSE "stop_cleaner")
    /\ UNCHANGED <<boot, resource, cancelled, cleaner, forced, open, handling,
                   probe>>

\* Mutant of Drained: the server is stopped without waiting.
DrainedAtOnce == TRUE

\* http.Server.Shutdown has seen every connection idle.
Drained == handling = {}

\* Server.Shutdown returns without an error.
StopServer(p) ==
    /\ pc[p] = "stop_server"
    /\ Drained
    /\ server' = "stopped"
    /\ open' = {}
    /\ Goto(p, "stop_cleaner")
    /\ UNCHANGED <<boot, resource, mu, app, cancelled, cleaner, forced,
                   handling, accepting, probe>>

\* Server.Shutdown meets its deadline and Server.Close is called: connections
\* are closed but handlers are not waited for.
CloseServer(p) ==
    /\ pc[p] = "stop_server"
    /\ server' = "stopped"
    /\ accepting' = FALSE
    /\ open' = {}
    /\ forced' = TRUE
    /\ Goto(p, "stop_cleaner")
    /\ UNCHANGED <<boot, resource, mu, app, cancelled, cleaner, handling,
                   probe>>

\* Mutant of CleanerGone: the worker is cancelled but not waited for.
CleanerNotAwaited == TRUE

\* Mutant of CleanerGone: a worker whose server never started is forgotten.
CleanerGoneUnlessServing == ~app.serverStarted \/ cleaner = "stopped"

\* SessionCleaner.Shutdown returns when the worker has closed done, or at
\* once when the worker was never started.
CleanerGone == ~app.runStarted \/ cleaner = "stopped"

StopCleaner(p) ==
    /\ pc[p] = "stop_cleaner"
    /\ CleanerGone
    /\ Goto(p, "close_redis")
    /\ UNCHANGED <<boot, resource, mu, app, cancelled, cleaner, server,
                   forced, open, handling, accepting, probe>>

CloseRedis(p) ==
    /\ pc[p] = "close_redis"
    /\ resource' = Closed(resource, {"redis"})
    /\ Goto(p, "close_postgres")
    /\ UNCHANGED <<boot, mu, app, cancelled, cleaner, server, forced, open,
                   handling, accepting, probe>>

ClosePostgres(p) ==
    /\ pc[p] = "close_postgres"
    /\ resource' = Closed(resource, {"postgres"})
    /\ Goto(p, "sync_logger")
    /\ UNCHANGED <<boot, mu, app, cancelled, cleaner, server, forced, open,
                   handling, accepting, probe>>

\* The logger is flushed, cleanupOnce is done and the lock released.  A call
\* that reports an error is done with all the same.
SyncLogger(p) ==
    /\ pc[p] = "sync_logger"
    /\ resource' = Closed(resource, {"logger"})
    /\ app' = [app EXCEPT !.cleaned = TRUE]
    /\ Unlock(p)
    /\ Goto(p, "returned")
    /\ UNCHANGED <<boot, cancelled, cleaner, server, forced, open, handling,
                   accepting, probe>>

----------------------------------------------------------------------------
(* What runs beside the callers. *)

\* SIGINT, SIGTERM or the caller of Run.
CancelContext ==
    /\ ~cancelled
    /\ cancelled' = TRUE
    /\ UNCHANGED <<boot, resource, pc, mu, app, cleaner, server, forced, open,
                   handling, accepting, probe>>

\* Serve returns an error; connections it accepted stay open.
ServeFails ==
    /\ server = "serving"
    /\ server' = "failed"
    /\ UNCHANGED <<boot, resource, pc, mu, app, cancelled, cleaner, forced,
                   open, handling, accepting, probe>>

Accept(c) ==
    /\ server = "serving"
    /\ c \notin open \cup handling
    /\ open' = open \cup {c}
    /\ UNCHANGED <<boot, resource, pc, mu, app, cancelled, cleaner, server,
                   forced, handling, accepting, probe>>

\* A request arrives on an open connection, draining or not.
HandlerStart(c) ==
    /\ c \in open \ handling
    /\ handling' = handling \cup {c}
    /\ UNCHANGED <<boot, resource, pc, mu, app, cancelled, cleaner, server,
                   forced, open, accepting, probe>>

HandlerEnd(c) ==
    /\ c \in handling
    /\ probe[c] \in {"none", "ready", "not_ready"}
    /\ handling' = handling \ {c}
    /\ probe' = [probe EXCEPT ![c] = "none"]
    /\ UNCHANGED <<boot, resource, pc, mu, app, cancelled, cleaner, server,
                   forced, open, accepting>>

\* The serving goroutine ends some time after Serve has returned.
ServeExits ==
    /\ server = "failed"
    /\ accepting
    /\ accepting' = FALSE
    /\ UNCHANGED <<boot, resource, pc, mu, app, cancelled, cleaner, server,
                   forced, open, handling, probe>>

\* readiness: the handler looks at accepting once, before it asks the stores.
ProbeBegins(c) ==
    /\ c \in handling
    /\ probe[c] = "none"
    /\ probe' = [probe EXCEPT ![c] = IF accepting THEN "postgres"
                                                  ELSE "not_ready"]
    /\ UNCHANGED <<boot, resource, pc, mu, app, cancelled, cleaner, server,
                   forced, open, handling, accepting>>

\* Mutant of AfterPing: Redis is asked first.
AfterPingRedisFirst(c) ==
    CASE probe[c] = "postgres" /\ resource["redis"] = "open" -> "redis"
      [] probe[c] = "redis" /\ resource["postgres"] = "open" -> "ready"
      [] OTHER -> "not_ready"

\* CheckReadiness: PostgreSQL answers a ping, then Redis does.  A pool or
\* client that is closed answers with an error.
AfterPing(c) ==
    CASE probe[c] = "postgres" /\ resource["postgres"] = "open" -> "redis"
      [] probe[c] = "redis" /\ resource["redis"] = "open" -> "ready"
      [] OTHER -> "not_ready"

\* A store answers, or the ping fails or meets the readiness timeout.
Ping(c) ==
    /\ probe[c] \in {"postgres", "redis"}
    /\ \/ probe' = [probe EXCEPT ![c] = AfterPing(c)]
       \/ probe' = [probe EXCEPT ![c] = "not_ready"]
    /\ UNCHANGED <<boot, resource, pc, mu, app, cancelled, cleaner, server,
                   forced, open, handling, accepting>>

\* The ticker fires.  A pending tick may be taken even when the worker's
\* context is done: select chooses among the ready cases.
CleanerTick ==
    /\ cleaner = "waiting"
    /\ cleaner' = "cleaning"
    /\ UNCHANGED <<boot, resource, pc, mu, app, cancelled, server, forced,
                   open, handling, accepting, probe>>

\* DeleteOrphanSessions returns.
CleanerDone ==
    /\ cleaner = "cleaning"
    /\ cleaner' = "waiting"
    /\ UNCHANGED <<boot, resource, pc, mu, app, cancelled, server, forced,
                   open, handling, accepting, probe>>

\* The worker's context derives from the one given to Run.
CleanerStops ==
    /\ cleaner = "waiting"
    /\ cancelled \/ app.workersCancelled
    /\ cleaner' = "stopped"
    /\ UNCHANGED <<boot, resource, pc, mu, app, cancelled, server, forced,
                   open, handling, accepting, probe>>

----------------------------------------------------------------------------

CallerStep(p) ==
    \/ Call(p) \/ Start(p) \/ Listen(p) \/ ListenFails(p) \/ Ready(p)
    \/ StoppedBeforeReady(p) \/ RunWoken(p)
    \/ BeginShutdown(p) \/ StopServer(p) \/ CloseServer(p) \/ StopCleaner(p)
    \/ CloseRedis(p) \/ ClosePostgres(p) \/ SyncLogger(p)

Next ==
    \/ BootStep \/ BootFails \/ BootCancelled
    \/ \E p \in Callers : CallerStep(p)
    \/ CancelContext \/ ServeFails \/ ServeExits
    \/ \E c \in Conns : \/ Accept(c) \/ HandlerStart(c) \/ HandlerEnd(c)
                        \/ ProbeBegins(c) \/ Ping(c)
    \/ CleanerTick \/ CleanerDone \/ CleanerStops

\* Goroutines are scheduled, a mutex is handed on, the shutdown deadline
\* passes and a Redis call of the cleaner returns.  select picks fairly among
\* ready cases, so the cleaner cannot prefer its ticker for ever.  Handlers
\* need not end and nobody need cancel.
Fairness ==
    /\ \A p \in Callers : WF_vars(CallerStep(p))
    /\ WF_vars(CleanerDone)
    /\ SF_vars(CleanerStops)

Spec == Init /\ [][Next]_vars
FairSpec == Spec /\ Fairness

----------------------------------------------------------------------------
(* Properties. *)

\* "Every return path performs complete cleanup" (lifecycle.go): whoever
\* returns from Run or Shutdown, also the caller that did not do the work,
\* leaves no resource open, no worker and no serving listener.
CompleteCleanup ==
    \A p \in Callers : pc[p] = "returned" =>
        /\ \A r \in Resources : resource[r] = "closed"
        /\ cleaner \in {"off", "stopped"}
        /\ server # "serving"

\* The cleaner uses its repository and its logger only while they are open:
\* SessionCleaner.Shutdown waits until it no longer can (session_cleaner.go).
CleanerNeverUsesClosed ==
    cleaner # "off" /\ cleaner # "stopped" =>
        resource["redis"] = "open" /\ resource["logger"] = "open"

\* Unless the deadline forced the server closed, or Server.Start reported the
\* failure of a server that had already accepted connections, no handler is
\* running when Redis or PostgreSQL is closed beneath it.
DrainedBeforeClose ==
    handling # {} /\ ~forced /\ app.serverStarted =>
        resource["redis"] = "open" /\ resource["postgres"] = "open"

\* A construction that fails at any step, or is cancelled between two, leaves
\* nothing open; a constructed application owns everything.
BootLeaksNothing ==
    /\ boot = "failed" => \A r \in Resources : resource[r] # "open"
    /\ boot = "ready" /\ ~app.closed =>
         \A r \in Resources : resource[r] = "open"

\* Once Shutdown has been entered nothing is started any more, whichever of
\* Run and Shutdown gets the lock first.
NothingStartsAfterClosed ==
    [][app.closed => /\ cleaner = "off" => cleaner' = "off"
                     /\ server = "off" => server' = "off"]_vars

\* Readiness tells the truth across a shutdown: a probe that begins once the
\* server drains is refused, and the ping that completes a 200 finds both
\* stores open even when a forced shutdown closes them beneath the probe,
\* because they are asked in the order opposite to their closing (readiness,
\* CheckReadiness, cleanup).
ReadinessIsTrue ==
    [][\A c \in Conns :
          /\ probe[c] = "none" /\ probe'[c] = "postgres" =>
                server \in {"serving", "failed"}
          /\ probe[c] # "ready" /\ probe'[c] = "ready" =>
                resource["postgres"] = "open" /\ resource["redis"] = "open"
      ]_vars

\* Every caller of Shutdown returns, and so does every caller of Run once
\* its context is cancelled, even when handlers never end.
CallersReturn ==
    \A p \in Callers :
        (pc[p] # "init" /\ (cancelled \/ p \in Stoppers))
            ~> (pc[p] = "returned")

=============================================================================
