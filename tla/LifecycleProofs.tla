-------------------------- MODULE LifecycleProofs --------------------------
(***************************************************************************)
(* Cleanup is complete and in order, for any number of callers of Run and  *)
(* Shutdown and any number of connections.                                 *)
(***************************************************************************)
EXTENDS Lifecycle, TLAPS

\* Where a caller holds lifecycleMu.
Locked == {"listen", "await_ready", "stop_server", "stop_cleaner",
           "close_redis", "close_postgres", "sync_logger"}

\* The cleanup that is going on, or has been done, has come past a step.
Past(L) == app.cleaned \/ \E p \in Callers : mu = p /\ pc[p] \in L

PastServer == Past({"stop_cleaner", "close_redis", "close_postgres",
                    "sync_logger"})
PastCleaner == Past({"close_redis", "close_postgres", "sync_logger"})
PastRedis == Past({"close_postgres", "sync_logger"})
PastPostgres == Past({"sync_logger"})

\* The lock is held where the code holds it.
MutexInv == \A p \in Callers : pc[p] \in Locked <=> mu = p

\* Nothing happens before the application is constructed.
BootInv ==
    boot # "ready" =>
        /\ \A p \in Callers : pc[p] = "init"
        /\ ~app.runStarted /\ ~app.closed /\ ~app.cleaned
        /\ ~app.serverStarted
        /\ cleaner = "off" /\ server = "off"

\* What initializeApp holds before each of its steps.
OwnedInv ==
    /\ boot \in {"hasher", "postgres", "redis", "assets", "runtime"} =>
         resource["logger"] = "open"
    /\ boot \in {"redis", "assets", "runtime"} => resource["postgres"] = "open"
    /\ boot \in {"assets", "runtime"} => resource["redis"] = "open"
    /\ boot = "logger" => resource["logger"] = "absent"
    /\ boot \in {"logger", "hasher", "postgres"} =>
         resource["postgres"] = "absent"
    /\ boot \in {"logger", "hasher", "postgres", "redis"} =>
         resource["redis"] = "absent"
    /\ boot = "failed" => \A r \in Resources : resource[r] # "open"

\* A constructed application owns its resources until cleanup closes them.
ResourceInv ==
    boot = "ready" =>
        /\ resource["redis"] = IF PastRedis THEN "closed" ELSE "open"
        /\ resource["postgres"] = IF PastPostgres THEN "closed" ELSE "open"
        /\ resource["logger"] = IF app.cleaned THEN "closed" ELSE "open"

\* How the flags relate to the positions of the callers.
FlagsInv ==
    /\ \A p \in Callers : pc[p] = "returned" => app.cleaned
    /\ app.cleaned => app.closed /\ mu = None
    /\ \A p \in Callers : pc[p] \in {"listen", "await_ready"} =>
         ~app.closed /\ app.runStarted /\ ~app.serverStarted
    /\ \A p \in Callers :
         pc[p] \in Locked \ {"listen", "await_ready"} => app.closed
    /\ app.serverStarted => app.runStarted

\* The worker exists only while cleanup waits for it.
CleanerInv ==
    /\ cleaner = "off" <=> ~app.runStarted
    /\ PastCleaner => cleaner \in {"off", "stopped"}

\* The server is not left serving.
ServerInv ==
    /\ \A p \in Callers : pc[p] = "listen" => server = "off"
    /\ ~app.runStarted => server = "off"
    /\ \A p \in Callers : pc[p] = "await_ready" => server # "off"
    /\ app.serverStarted => server # "off"
    /\ ~app.serverStarted => server \in {"off", "serving", "failed"}
    /\ ~app.serverStarted /\ server = "serving" =>
         \E p \in Callers : pc[p] = "await_ready"
    /\ PastServer /\ app.serverStarted => server = "stopped"
    /\ \A p \in Callers : pc[p] = "stop_server" =>
         server = "draining" /\ app.serverStarted
    /\ server = "stopped" => open = {} /\ (forced \/ handling = {})

\* Readiness is only claimed for a server that has not begun to drain.
AcceptInv == accepting => server \in {"serving", "failed"}

LifecycleInv ==
    /\ TypeOK /\ MutexInv /\ BootInv /\ OwnedInv /\ ResourceInv
    /\ FlagsInv /\ CleanerInv /\ ServerInv /\ AcceptInv

\* The initial state.
LEMMA LifecycleInit == Init => LifecycleInv
<1> SUFFICES ASSUME Init PROVE LifecycleInv
  OBVIOUS
<1>1. TypeOK
  BY DEF Init, TypeOK, BootSteps, Resources, PCs, ProbeStates
<1>2. MutexInv
  BY LifecycleAssumption DEF Init, MutexInv, Locked, Callers
<1>3. BootInv /\ FlagsInv
  BY DEF Init, BootInv, FlagsInv, Locked
<1>4. OwnedInv /\ ResourceInv
  BY DEF Init, OwnedInv, ResourceInv, Resources
<1>5. ~PastServer /\ ~PastCleaner
  BY DEF Init, PastServer, PastCleaner, Past
<1>6. CleanerInv /\ ServerInv /\ AcceptInv
  BY <1>5 DEF Init, CleanerInv, ServerInv, AcceptInv
<1> QED
  BY <1>1, <1>2, <1>3, <1>4, <1>6 DEF LifecycleInv

\* Construction.
LEMMA BootKeepsInv ==
    ASSUME LifecycleInv, BootStep \/ BootFails \/ BootCancelled
    PROVE  LifecycleInv'
<1> USE DEF Past, PastServer, PastCleaner, PastRedis, PastPostgres
<1>1. UNCHANGED <<pc, mu, app, cancelled, cleaner, server, forced, open,
                  handling, accepting, probe>>
  BY DEF BootStep, BootFails, BootCancelled
<1>2. boot \in BootSteps
  BY DEF BootStep, BootFails, BootCancelled
<1>3. TypeOK'
  BY <1>1, <1>2 DEF LifecycleInv, TypeOK, BootStep, BootFails, BootCancelled,
     BootSteps, Resources, AfterBootStep, Opened, Acquired, Closed
<1>4. OwnedInv'
  <2> USE DEF LifecycleInv, TypeOK, OwnedInv, BootSteps, Resources
  <2>1. CASE BootStep
    BY <2>1 DEF BootStep, AfterBootStep, Opened, Acquired
  <2>2. CASE BootFails
    BY <2>2 DEF BootFails, Closed, RollbackFailure
  <2>3. CASE BootCancelled
    BY <2>3 DEF BootCancelled, Opened, Acquired, Closed, RollbackCancelled
  <2> QED
    BY <2>1, <2>2, <2>3
<1>5. ResourceInv'
  BY <1>1, <1>2, LifecycleAssumption
     DEF LifecycleInv, TypeOK, OwnedInv, ResourceInv, BootInv, MutexInv,
     BootStep, BootFails, BootCancelled, BootSteps, Resources,
     AfterBootStep, Opened, Acquired, Closed
<1>6. MutexInv' /\ BootInv' /\ FlagsInv' /\ CleanerInv' /\ ServerInv'
      /\ AcceptInv'
  BY <1>1, <1>2 DEF LifecycleInv, MutexInv, BootInv, FlagsInv, CleanerInv,
     ServerInv, AcceptInv, BootSteps
<1> QED
  BY <1>3, <1>4, <1>5, <1>6 DEF LifecycleInv

\* A caller's step never meets an application under construction.
LEMMA CallersRunReady ==
    ASSUME LifecycleInv, NEW p \in Callers, CallerStep(p)
    PROVE  boot = "ready" /\ boot' = boot
  BY DEF LifecycleInv, BootInv, CallerStep, Call, Start, Listen, ListenFails,
     Ready, StoppedBeforeReady, RunWoken, BeginShutdown, StopServer,
     CloseServer, StopCleaner, CloseRedis, ClosePostgres, SyncLogger

\* Run up to the moment it serves, and its waking.
LEMMA RunKeepsInv ==
    ASSUME LifecycleInv, NEW p \in Callers, boot = "ready",
           \/ Call(p) \/ Start(p) \/ Listen(p) \/ ListenFails(p) \/ Ready(p)
           \/ StoppedBeforeReady(p) \/ RunWoken(p)
    PROVE  LifecycleInv'
<1> USE LifecycleAssumption
    DEF LifecycleInv, TypeOK, MutexInv, BootInv, OwnedInv, ResourceInv,
        FlagsInv, CleanerInv, ServerInv, AcceptInv, PCs, Locked, PastRedis,
        PastPostgres, PastServer, PastCleaner, Past, Goto, Unlock, Callers
<1>1. CASE Call(p)
  BY <1>1 DEF Call
<1>2. CASE Start(p)
  <2>1. CASE MayStart
    <3>0. /\ pc[p] = "start" /\ mu = None /\ mu' = p
          /\ pc' = [pc EXCEPT ![p] = "listen"]
          /\ app' = [app EXCEPT !.runStarted = TRUE]
          /\ ~app.closed /\ ~app.runStarted
          /\ cleaner' = "waiting"
          /\ UNCHANGED <<boot, resource, cancelled, server, forced, open,
                         handling, accepting, probe>>
      BY <1>2, <2>1 DEF Start, MayStart
    <3>1. TypeOK'
      BY <3>0
    <3>2. MutexInv' /\ BootInv'
      BY <3>0
    <3>3. OwnedInv' /\ ResourceInv'
      BY <3>0
    <3>4. FlagsInv' /\ CleanerInv'
      BY <3>0
    <3>5. ServerInv' /\ AcceptInv'
      BY <3>0
    <3> QED
      BY <3>1, <3>2, <3>3, <3>4, <3>5
  <2>2. CASE ~MayStart
    BY <1>2, <2>2 DEF Start
  <2> QED
    BY <2>1, <2>2
<1>3. CASE Listen(p)
  BY <1>3 DEF Listen
<1>4. CASE ListenFails(p)
  BY <1>4 DEF ListenFails
<1>5. CASE Ready(p)
  <2>1. TypeOK' /\ MutexInv' /\ BootInv'
    BY <1>5 DEF Ready
  <2>2. OwnedInv' /\ ResourceInv'
    BY <1>5 DEF Ready
  <2>3. FlagsInv' /\ CleanerInv'
    BY <1>5 DEF Ready
  <2>4. ServerInv' /\ AcceptInv'
    BY <1>5 DEF Ready
  <2> QED
    BY <2>1, <2>2, <2>3, <2>4
<1>6. CASE StoppedBeforeReady(p)
  BY <1>6 DEF StoppedBeforeReady
<1>7. CASE RunWoken(p)
  BY <1>7 DEF RunWoken
<1> QED
  BY <1>1, <1>2, <1>3, <1>4, <1>5, <1>6, <1>7

\* The cleanup, step by step.
LEMMA ShutdownKeepsInv ==
    ASSUME LifecycleInv, NEW p \in Callers, boot = "ready",
           \/ BeginShutdown(p) \/ StopServer(p) \/ CloseServer(p)
           \/ StopCleaner(p) \/ CloseRedis(p) \/ ClosePostgres(p)
           \/ SyncLogger(p)
    PROVE  LifecycleInv'
<1> USE LifecycleAssumption
    DEF LifecycleInv, TypeOK, MutexInv, BootInv, OwnedInv, ResourceInv,
        FlagsInv, CleanerInv, ServerInv, AcceptInv, PCs, Locked, PastRedis,
        PastPostgres, PastServer, PastCleaner, Past, Goto, Unlock, Callers,
        Closed, Resources
<1>1. CASE BeginShutdown(p)
  <2>1. CASE app.cleaned
    <3>0. /\ pc[p] = "shutdown" /\ mu = None
          /\ pc' = [pc EXCEPT ![p] = "returned"]
          /\ app' = [app EXCEPT !.closed = TRUE]
          /\ UNCHANGED <<boot, resource, cancelled, cleaner, forced, open,
                         handling, mu, server, accepting, probe>>
      BY <1>1, <2>1 DEF BeginShutdown
    <3>1. TypeOK'
      BY <2>1, <3>0
    <3>2. MutexInv' /\ BootInv'
      BY <2>1, <3>0
    <3>3. OwnedInv' /\ ResourceInv'
      BY <2>1, <3>0
    <3>4. FlagsInv' /\ CleanerInv'
      BY <2>1, <3>0
    <3>5. ServerInv' /\ AcceptInv'
      BY <2>1, <3>0
    <3> QED
      BY <3>1, <3>2, <3>3, <3>4, <3>5
  <2>2. CASE ~app.cleaned
    <3>0. /\ pc[p] = "shutdown" /\ mu = None /\ mu' = p
          /\ pc' = [pc EXCEPT ![p] = IF app.serverStarted
                                     THEN "stop_server" ELSE "stop_cleaner"]
          /\ app' = [app EXCEPT !.closed = TRUE, !.workersCancelled = TRUE]
          /\ server' = IF app.serverStarted THEN "draining" ELSE server
          /\ accepting' = IF app.serverStarted THEN FALSE ELSE accepting
          /\ UNCHANGED <<boot, resource, cancelled, cleaner, forced, open,
                         handling, probe>>
      BY <1>1, <2>2 DEF BeginShutdown, ShutdownServer
    <3>1. TypeOK'
      BY <2>2, <3>0
    <3>2. MutexInv' /\ BootInv'
      BY <2>2, <3>0
    <3>3. OwnedInv' /\ ResourceInv'
      BY <2>2, <3>0
    <3>4. FlagsInv' /\ CleanerInv'
      BY <2>2, <3>0
    <3>5. ServerInv' /\ AcceptInv'
      BY <2>2, <3>0
    <3> QED
      BY <3>1, <3>2, <3>3, <3>4, <3>5
  <2> QED
    BY <1>1, <2>1, <2>2
<1>2. CASE StopServer(p)
  BY <1>2 DEF StopServer, Drained
<1>3. CASE CloseServer(p)
  BY <1>3 DEF CloseServer
<1>4. CASE StopCleaner(p)
  BY <1>4 DEF StopCleaner, CleanerGone
<1>5. CASE CloseRedis(p)
  BY <1>5 DEF CloseRedis
<1>6. CASE ClosePostgres(p)
  BY <1>6 DEF ClosePostgres
<1>7. CASE SyncLogger(p)
  BY <1>7 DEF SyncLogger
<1> QED
  BY <1>1, <1>2, <1>3, <1>4, <1>5, <1>6, <1>7

\* What runs beside the callers: it leaves their positions and flags alone.
LEMMA OthersKeepInv ==
    ASSUME LifecycleInv,
           \/ CancelContext \/ ServeFails \/ ServeExits
           \/ \E c \in Conns : \/ Accept(c) \/ HandlerStart(c) \/ HandlerEnd(c)
                               \/ ProbeBegins(c) \/ Ping(c)
           \/ CleanerTick \/ CleanerDone \/ CleanerStops
           \/ UNCHANGED vars
    PROVE  LifecycleInv'
<1> USE DEF LifecycleInv, TypeOK, MutexInv, BootInv, OwnedInv, ResourceInv,
        FlagsInv, CleanerInv, ServerInv, AcceptInv, PastRedis,
        PastPostgres, PastServer, PastCleaner, Past
<1>1. CASE CancelContext \/ ServeFails
  <2>1. TypeOK' /\ MutexInv' /\ BootInv'
    BY <1>1 DEF CancelContext, ServeFails
  <2>2. OwnedInv' /\ ResourceInv'
    BY <1>1 DEF CancelContext, ServeFails
  <2>3. FlagsInv' /\ CleanerInv'
    BY <1>1 DEF CancelContext, ServeFails
  <2>4. ServerInv' /\ AcceptInv'
    BY <1>1 DEF CancelContext, ServeFails
  <2> QED
    BY <2>1, <2>2, <2>3, <2>4
<1>2. ASSUME NEW c \in Conns, Accept(c) PROVE LifecycleInv'
  BY <1>2 DEF Accept
<1>3. ASSUME NEW c \in Conns, HandlerStart(c) PROVE LifecycleInv'
  BY <1>3 DEF HandlerStart
<1>4. ASSUME NEW c \in Conns, HandlerEnd(c) PROVE LifecycleInv'
  <2>1. UNCHANGED <<boot, resource, pc, mu, app, cancelled, cleaner, server,
                    forced, open, accepting>>
    BY <1>4 DEF HandlerEnd
  <2>2. probe' \in [Conns -> ProbeStates] /\ handling' \subseteq handling
    BY <1>4 DEF HandlerEnd, ProbeStates
  <2> QED
    BY <2>1, <2>2
<1>5. CASE CleanerTick \/ CleanerDone \/ CleanerStops
  BY <1>5 DEF CleanerTick, CleanerDone, CleanerStops
<1>6. CASE UNCHANGED vars
  BY <1>6 DEF vars
<1>7. CASE ServeExits
  <2>1. UNCHANGED <<boot, resource, pc, mu, app, cancelled, cleaner, server,
                    forced, open, handling, probe>>
    BY <1>7 DEF ServeExits
  <2>2. accepting' = FALSE
    BY <1>7 DEF ServeExits
  <2>3. TypeOK' /\ AcceptInv'
    BY <2>1, <2>2
  <2> QED
    BY <2>1, <2>3
<1>8. ASSUME NEW c \in Conns, ProbeBegins(c) \/ Ping(c) PROVE LifecycleInv'
  <2>1. UNCHANGED <<boot, resource, pc, mu, app, cancelled, cleaner, server,
                    forced, open, handling, accepting>>
    BY <1>8 DEF ProbeBegins, Ping
  <2>2. probe' \in [Conns -> ProbeStates]
    BY <1>8 DEF ProbeBegins, Ping, AfterPing, ProbeStates
  <2> QED
    BY <2>1, <2>2
<1> QED
  BY <1>1, <1>2, <1>3, <1>4, <1>5, <1>6, <1>7, <1>8

\* The invariant holds throughout.
LEMMA LifecycleInvariant == Spec => []LifecycleInv
<1>1. LifecycleInv /\ [Next]_vars => LifecycleInv'
  <2> SUFFICES ASSUME LifecycleInv, [Next]_vars PROVE LifecycleInv'
    OBVIOUS
  <2>1. ASSUME NEW p \in Callers, CallerStep(p) PROVE LifecycleInv'
    BY <2>1, CallersRunReady, RunKeepsInv, ShutdownKeepsInv DEF CallerStep
  <2> QED
    BY <2>1, BootKeepsInv, OthersKeepInv DEF Next
<1> QED
  BY <1>1, LifecycleInit, PTL DEF Spec

\* Whoever returns from Run or Shutdown leaves nothing open, no worker and no
\* serving listener, for any number of callers and connections.
THEOREM CompleteCleanupHolds == Spec => []CompleteCleanup
<1>1. LifecycleInv => CompleteCleanup
  BY DEF LifecycleInv, CompleteCleanup, FlagsInv, ResourceInv, BootInv,
     CleanerInv, ServerInv, MutexInv, Locked, PastRedis, PastPostgres,
     PastServer, PastCleaner, Past, Resources, Callers
<1> QED
  BY <1>1, LifecycleInvariant, PTL

\* The cleaner never uses a closed repository or logger.
THEOREM CleanerNeverUsesClosedHolds == Spec => []CleanerNeverUsesClosed
<1>1. LifecycleInv => CleanerNeverUsesClosed
  BY DEF LifecycleInv, TypeOK, CleanerNeverUsesClosed, ResourceInv, BootInv,
     CleanerInv, PastRedis, PastCleaner, Past
<1> QED
  BY <1>1, LifecycleInvariant, PTL

\* No handler of a server that was started is left running over closed
\* stores unless the deadline forced the server closed.
THEOREM DrainedBeforeCloseHolds == Spec => []DrainedBeforeClose
<1>1. LifecycleInv => DrainedBeforeClose
  BY DEF LifecycleInv, DrainedBeforeClose, ResourceInv, BootInv, ServerInv,
     PastRedis, PastPostgres, PastServer, Past
<1> QED
  BY <1>1, LifecycleInvariant, PTL

\* A failed construction leaves nothing open and a constructed application
\* owns all of its resources until it is shut down.
THEOREM BootLeaksNothingHolds == Spec => []BootLeaksNothing
<1>1. LifecycleInv => BootLeaksNothing
  BY DEF LifecycleInv, BootLeaksNothing, OwnedInv, ResourceInv, FlagsInv,
     MutexInv, Locked, Resources, PastRedis, PastPostgres, Past
<1> QED
  BY <1>1, LifecycleInvariant, PTL

\* Once Shutdown has been entered neither worker nor server is started, for
\* any number of callers.
THEOREM NothingStartsAfterClosedHolds == Spec => NothingStartsAfterClosed
<1>1. LifecycleInv /\ [Next]_vars =>
        [app.closed => /\ cleaner = "off" => cleaner' = "off"
                       /\ server = "off" => server' = "off"]_vars
  <2> SUFFICES ASSUME LifecycleInv, Next, app.closed
               PROVE  /\ cleaner = "off" => cleaner' = "off"
                      /\ server = "off" => server' = "off"
    OBVIOUS
  <2>1. ASSUME NEW p \in Callers, Start(p) \/ Listen(p)
        PROVE  cleaner' = cleaner /\ server' = server
    BY <2>1 DEF LifecycleInv, FlagsInv, Start, MayStart, Listen
  <2>2. ASSUME NEW p \in Callers, StopServer(p) \/ CloseServer(p)
        PROVE  cleaner' = cleaner /\ server # "off"
    BY <2>2 DEF LifecycleInv, ServerInv, StopServer, CloseServer
  <2>3. ASSUME NEW p \in Callers, BeginShutdown(p)
        PROVE  cleaner' = cleaner /\ (server = "off" => server' = "off")
    BY <2>3 DEF LifecycleInv, ServerInv, FlagsInv, BeginShutdown,
       ShutdownServer
  <2>4. ASSUME NEW p \in Callers,
               \/ Call(p) \/ ListenFails(p) \/ Ready(p)
               \/ StoppedBeforeReady(p) \/ RunWoken(p) \/ StopCleaner(p)
               \/ CloseRedis(p) \/ ClosePostgres(p) \/ SyncLogger(p)
        PROVE  cleaner' = cleaner /\ server' = server
    BY <2>4 DEF Call, ListenFails, Ready, StoppedBeforeReady, RunWoken,
       StopCleaner, CloseRedis, ClosePostgres, SyncLogger
  <2>5. CASE BootStep \/ BootFails \/ BootCancelled
    BY <2>5 DEF BootStep, BootFails, BootCancelled
  <2>6. CASE \/ CancelContext \/ ServeFails \/ ServeExits
             \/ CleanerTick \/ CleanerDone \/ CleanerStops
    BY <2>6 DEF CancelContext, ServeFails, ServeExits, CleanerTick,
       CleanerDone, CleanerStops
  <2>7. CASE \E c \in Conns : \/ Accept(c) \/ HandlerStart(c)
                             \/ HandlerEnd(c) \/ ProbeBegins(c) \/ Ping(c)
    BY <2>7 DEF Accept, HandlerStart, HandlerEnd, ProbeBegins, Ping
  <2> QED
    BY <2>1, <2>2, <2>3, <2>4, <2>5, <2>6, <2>7 DEF Next, CallerStep
<1> QED
  BY <1>1, LifecycleInvariant, PTL DEF Spec, NothingStartsAfterClosed

\* What one step may do to the probe of one connection.
TrueProbe(c) ==
    /\ probe[c] = "none" /\ probe'[c] = "postgres" =>
          server \in {"serving", "failed"}
    /\ probe[c] # "ready" /\ probe'[c] = "ready" =>
          resource["postgres"] = "open" /\ resource["redis"] = "open"

\* Redis is opened after PostgreSQL and closed before it.
LEMMA RedisWithinPostgres ==
    ASSUME LifecycleInv, resource["redis"] = "open"
    PROVE  resource["postgres"] = "open"
<1>1. CASE boot = "ready"
  BY <1>1 DEF LifecycleInv, ResourceInv, PastRedis, PastPostgres, Past
<1>2. CASE boot # "ready"
  BY <1>2 DEF LifecycleInv, TypeOK, OwnedInv, BootSteps, Resources
<1> QED
  BY <1>1, <1>2

\* A 200 of GET /ready is never given by a probe that began on a draining
\* server, and both stores were open at its last ping, for any number of
\* callers and connections and with forced shutdowns (readiness,
\* CheckReadiness, cleanup).
THEOREM ReadinessIsTrueHolds == Spec => ReadinessIsTrue
<1>1. LifecycleInv /\ [Next]_vars => [\A c \in Conns : TrueProbe(c)]_vars
  <2> SUFFICES ASSUME LifecycleInv, Next, NEW c \in Conns
               PROVE  TrueProbe(c)
    OBVIOUS
  <2>0. probe \in [Conns -> ProbeStates]
    BY DEF LifecycleInv, TypeOK
  <2>1. ASSUME NEW d \in Conns, ProbeBegins(d) PROVE TrueProbe(c)
    BY <2>0, <2>1 DEF ProbeBegins, TrueProbe, LifecycleInv, AcceptInv
  <2>2. ASSUME NEW d \in Conns, Ping(d) PROVE TrueProbe(c)
    <3>1. CASE c = d
      BY <2>0, <2>2, <3>1, RedisWithinPostgres DEF Ping, AfterPing, TrueProbe
    <3>2. CASE c # d
      BY <2>0, <2>2, <3>2 DEF Ping, TrueProbe
    <3> QED
      BY <3>1, <3>2
  <2>3. ASSUME NEW d \in Conns, HandlerEnd(d) PROVE TrueProbe(c)
    BY <2>0, <2>3 DEF HandlerEnd, TrueProbe
  <2>4. ASSUME probe' = probe PROVE TrueProbe(c)
    BY <2>4 DEF TrueProbe
  <2> QED
    BY <2>1, <2>2, <2>3, <2>4
       DEF Next, CallerStep, BootStep, BootFails, BootCancelled, Call, Start,
           Listen, ListenFails, Ready, StoppedBeforeReady, RunWoken,
           BeginShutdown, StopServer, CloseServer, StopCleaner, CloseRedis,
           ClosePostgres, SyncLogger, CancelContext, ServeFails, ServeExits,
           Accept, HandlerStart, CleanerTick, CleanerDone, CleanerStops
<1> QED
  BY <1>1, LifecycleInvariant, PTL DEF Spec, ReadinessIsTrue, TrueProbe

----------------------------------------------------------------------------
(***************************************************************************)
(* Why callers return.  Fairness, which the run assumes, says that steps   *)
(* are taken; that there are finitely many of them and that no wait is     *)
(* circular is safety, and proved here for any number of callers.          *)
(***************************************************************************)

\* How many steps a call of Run or Shutdown is away from its return, at most.
StepsLeft(l) ==
    CASE l = "init"           -> 11
      [] l = "start"          -> 10
      [] l = "listen"         -> 9
      [] l = "await_ready"    -> 8
      [] l = "serving"        -> 7
      [] l = "shutdown"       -> 6
      [] l = "stop_server"    -> 5
      [] l = "stop_cleaner"   -> 4
      [] l = "close_redis"    -> 3
      [] l = "close_postgres" -> 2
      [] l = "sync_logger"    -> 1
      [] l = "returned"       -> 0

\* A step of the caller brings it nearer to its return, any other step
\* leaves it where it is.
ComesNearer(p) ==
    pc'[p] = pc[p] \/ StepsLeft(pc'[p]) < StepsLeft(pc[p])

\* A caller's own step.
LEMMA OwnStepNearer ==
    ASSUME LifecycleInv, NEW p \in Callers, CallerStep(p)
    PROVE  StepsLeft(pc'[p]) < StepsLeft(pc[p])
<1>1. ASSUME NEW l, Goto(p, l) PROVE pc'[p] = l
  BY <1>1 DEF Goto, LifecycleInv, TypeOK
<1>2. CASE Call(p) \/ Start(p)
  BY <1>1, <1>2 DEF Call, Start, StepsLeft
<1>3. CASE Listen(p) \/ ListenFails(p)
  BY <1>1, <1>3 DEF Listen, ListenFails, StepsLeft
<1>4. CASE Ready(p) \/ StoppedBeforeReady(p) \/ RunWoken(p)
  BY <1>1, <1>4 DEF Ready, StoppedBeforeReady, RunWoken, StepsLeft
<1>5. CASE BeginShutdown(p)
  BY <1>1, <1>5 DEF BeginShutdown, StepsLeft
<1>6. CASE StopServer(p) \/ CloseServer(p) \/ StopCleaner(p)
  BY <1>1, <1>6 DEF StopServer, CloseServer, StopCleaner, StepsLeft
<1>7. CASE CloseRedis(p) \/ ClosePostgres(p) \/ SyncLogger(p)
  BY <1>1, <1>7 DEF CloseRedis, ClosePostgres, SyncLogger, StepsLeft
<1> QED
  BY <1>2, <1>3, <1>4, <1>5, <1>6, <1>7 DEF CallerStep

\* A caller moves itself only.
LEMMA CallerMovesItself ==
    ASSUME LifecycleInv, NEW p \in Callers, NEW q \in Callers, p # q,
           CallerStep(q)
    PROVE  pc'[p] = pc[p]
<1>1. ASSUME NEW l, Goto(q, l) PROVE pc'[p] = pc[p]
  BY <1>1 DEF Goto, LifecycleInv, TypeOK
<1> QED
  BY <1>1
     DEF CallerStep, Call, Start, Listen, ListenFails, Ready,
         StoppedBeforeReady, RunWoken, BeginShutdown, StopServer, CloseServer,
         StopCleaner, CloseRedis, ClosePostgres, SyncLogger

\* Nothing beside the callers moves them.
LEMMA OthersMoveNobody ==
    ASSUME Next, ~\E q \in Callers : CallerStep(q)
    PROVE  pc' = pc
  BY DEF Next, BootStep, BootFails, BootCancelled, CancelContext, ServeFails,
     ServeExits, Accept, HandlerStart, HandlerEnd, ProbeBegins, Ping,
     CleanerTick, CleanerDone, CleanerStops

\* Run and Shutdown have no loop: a call is over after at most eleven steps
\* of its own, whatever other callers, handlers, the cleaner and the server
\* do (lifecycle.go).  What CallersReturn adds is that the steps are taken.
THEOREM CallsAreShort == Spec => [][\A p \in Callers : ComesNearer(p)]_vars
<1>1. LifecycleInv /\ [Next]_vars => \A p \in Callers : ComesNearer(p)
  <2> SUFFICES ASSUME LifecycleInv, [Next]_vars, NEW p \in Callers
               PROVE  ComesNearer(p)
    OBVIOUS
  <2>1. CASE CallerStep(p)
    BY <2>1, OwnStepNearer DEF ComesNearer
  <2>2. CASE \E q \in Callers : q # p /\ CallerStep(q)
    BY <2>2, CallerMovesItself DEF ComesNearer
  <2>3. CASE Next /\ ~\E q \in Callers : CallerStep(q)
    BY <2>3, OthersMoveNobody DEF ComesNearer
  <2>4. CASE UNCHANGED vars
    BY <2>4 DEF vars, ComesNearer
  <2> QED
    BY <2>1, <2>2, <2>3, <2>4
<1> QED
  BY <1>1, LifecycleInvariant, PTL DEF Spec

\* The cleanup cancels the workers before it waits for anything.
CleanupCancels ==
    \A p \in Callers : pc[p] \in {"stop_server", "stop_cleaner"} =>
        app.workersCancelled

LEMMA CleanupCancelsInvariant == Spec => []CleanupCancels
<1>1. Init => CleanupCancels
  BY DEF Init, CleanupCancels
<1>2. LifecycleInv /\ CleanupCancels /\ [Next]_vars => CleanupCancels'
  <2> SUFFICES ASSUME LifecycleInv, CleanupCancels, [Next]_vars
               PROVE  CleanupCancels'
    OBVIOUS
  <2>1. ASSUME NEW q \in Callers, CallerStep(q)
        PROVE  /\ app.workersCancelled => app'.workersCancelled
               /\ pc'[q] \in {"stop_server", "stop_cleaner"} =>
                    app'.workersCancelled
    <3>1. ASSUME NEW l, Goto(q, l) PROVE pc'[q] = l
      BY <3>1 DEF Goto, LifecycleInv, TypeOK
    <3>2. CASE BeginShutdown(q)
      BY <3>1, <3>2 DEF BeginShutdown, LifecycleInv, TypeOK
    <3>3. CASE Start(q) \/ Ready(q) \/ SyncLogger(q)
      BY <3>1, <3>3 DEF Start, Ready, SyncLogger, LifecycleInv, TypeOK
    <3>4. CASE StopServer(q) \/ CloseServer(q)
      BY <3>4 DEF StopServer, CloseServer, CleanupCancels
    <3>5. CASE \/ Call(q) \/ Listen(q) \/ ListenFails(q)
               \/ StoppedBeforeReady(q) \/ RunWoken(q) \/ StopCleaner(q)
               \/ CloseRedis(q) \/ ClosePostgres(q)
      BY <3>1, <3>5 DEF Call, Listen, ListenFails, StoppedBeforeReady,
         RunWoken, StopCleaner, CloseRedis, ClosePostgres
    <3> QED
      BY <2>1, <3>2, <3>3, <3>4, <3>5 DEF CallerStep
  <2>2. CASE \E q \in Callers : CallerStep(q)
    BY <2>1, <2>2, CallerMovesItself DEF CleanupCancels
  <2>3. CASE Next /\ ~\E q \in Callers : CallerStep(q)
    <3>1. app' = app
      BY <2>3 DEF Next, BootStep, BootFails, BootCancelled, CancelContext,
         ServeFails, ServeExits, Accept, HandlerStart, HandlerEnd,
         ProbeBegins, Ping, CleanerTick, CleanerDone, CleanerStops
    <3> QED
      BY <2>3, <3>1, OthersMoveNobody DEF CleanupCancels
  <2>4. CASE UNCHANGED vars
    BY <2>4 DEF vars, CleanupCancels
  <2> QED
    BY <2>2, <2>3, <2>4
<1> QED
  BY <1>1, <1>2, LifecycleInvariant, PTL DEF Spec

\* Every wait is for somebody who does not wait in turn: a caller that waits
\* for lifecycleMu waits for another one that is past asking for it; one that
\* waits for the cleaner waits for a worker that was told to stop; one that
\* is about to unlock holds the lock.
WaitsEnd ==
    \A p \in Callers :
        /\ pc[p] \in {"start", "shutdown"} /\ mu # None =>
              mu \in Callers \ {p} /\ pc[mu] \in Locked
        /\ pc[p] = "stop_cleaner" /\ ~CleanerGone =>
              cleaner \in {"waiting", "cleaning"} /\ app.workersCancelled
        /\ pc[p] \in {"listen", "await_ready", "sync_logger"} => mu = p

\* Run, Shutdown and the cleaner never wait for each other in a circle, for
\* any number of callers: nobody asks for lifecycleMu while holding it, and
\* SessionCleaner.Shutdown is called only when the worker was cancelled.
THEOREM NoCircularWait == Spec => []WaitsEnd
<1>1. LifecycleInv /\ CleanupCancels => WaitsEnd
  BY DEF LifecycleInv, TypeOK, MutexInv, CleanerInv, Locked, WaitsEnd,
     CleanupCancels, CleanerGone
<1> QED
  BY <1>1, LifecycleInvariant, CleanupCancelsInvariant, PTL

=============================================================================
