----------------------------- MODULE ServerProcess -----------------------------
(***************************************************************************)
(* The life of one server process: app.New and the bootstrap connect and    *)
(* construct, run serves, and on a signal (or when the listener or the       *)
(* worker fails) run stops the HTTP server, the worker and the reader of     *)
(* the event channel, and App.Close releases the clients. The event streams  *)
(* of EventStream run in it: they are the requests that an HTTP shutdown     *)
(* waits for, and the Manager is the reader that must be gone before Redis   *)
(* is closed.                                                               *)
(***************************************************************************)
EXTENDS EventStream, ServerConfig

CONSTANT Environments   \* the environments a process may be started with

VARIABLES
    phase,      \* where main is
    cfg,        \* what its start still needs of the configuration
    open,       \* the clients that are connected
    expired     \* the shutdown timeout has passed

processVars == <<phase, cfg, open, expired>>
vars == <<streamVars, processVars>>

NoConfig == [fabric |-> FALSE, bootstrap |-> FALSE]

Starting == {"config", "database", "redis", "storage", "certificate", "fabric",
             "bootstrap"}
Stopping == {"http", "worker", "waiting", "closing", "close redis", "close database"}

ProcessInit == phase = "config" /\ cfg = NoConfig /\ open = {} /\ expired = FALSE

(***************************************************************************)
(* app.New: one dependency after the other, and back to nothing on failure *)
(***************************************************************************)
LoadConfig ==
    /\ phase = "config"
    /\ \E env \in Environments :
         IF Loads(env)
           THEN /\ cfg' = [fabric |-> Load(env).fabric, bootstrap |-> Load(env).bootstrap]
                /\ phase' = "database"
           ELSE cfg' = NoConfig /\ phase' = "failed"
    /\ UNCHANGED <<open, expired, streamVars>>

\* New of database, cache and storage: connect and ping within the deadline,
\* or close what the branch for this error closes.
Connect(here, client, closes, next) ==
    /\ phase = here
    /\ \/ open' = open \cup client /\ phase' = next
       \/ open' = open \ closes /\ phase' = "failed"
    /\ UNCHANGED <<cfg, expired, streamVars>>

ConnectDatabase == Connect("database", {"database"}, {}, "redis")
ConnectRedis == Connect("redis", {"redis"}, {"database"}, "storage")
\* Mutant: the branch closes the pool only.
ConnectStorageLeaking == Connect("storage", {}, {"database"}, "certificate")
\* MinIO's client holds no connection; its bucket is made if it is missing.
ConnectStorage == Connect("storage", {}, {"database", "redis"}, "certificate")
\* NewCertificateService fails on a malformed key; jobs.NewClient cannot fail.
BuildServices == Connect("certificate", {"jobs"}, {"database", "redis"}, "fabric")

\* Hyperledger Fabric, when it is configured; its failure is not ignored.
ConnectFabric ==
    IF cfg.fabric
      THEN Connect("fabric", {"fabric"}, {"database", "redis", "jobs"}, "bootstrap")
      ELSE /\ phase = "fabric" /\ phase' = "bootstrap"
           /\ UNCHANGED <<cfg, open, expired, streamVars>>

\* EnsureBootstrapAdmin can fail only when it is configured; then Close.
Bootstrap ==
    /\ phase = "bootstrap"
    /\ cfg' = NoConfig
    /\ \/ phase' = "serving" /\ UNCHANGED open
       \/ cfg.bootstrap /\ phase' = "failed"
          /\ open' = open \ {"fabric", "jobs", "redis", "database"}
    /\ UNCHANGED <<expired, streamVars>>

Start == \/ LoadConfig \/ ConnectDatabase \/ ConnectRedis \/ ConnectStorage
         \/ BuildServices \/ ConnectFabric \/ Bootstrap

(***************************************************************************)
(* run                                                                     *)
(***************************************************************************)
\* The goroutine of Manager.Start has subscribed.
ReaderStarts ==
    /\ phase \in {"serving", "http", "worker"} /\ manager = "off"
    /\ manager' = "reading"
    /\ UNCHANGED <<row, reached, worker, failing, notices, lost, wire, fan, missed, connVars,
                   processVars>>

\* A signal, a listener that fails, a worker that fails.
StopRequested ==
    /\ phase = "serving"
    /\ phase' = "http"
    /\ UNCHANGED <<cfg, open, expired, streamVars>>

\* context.WithTimeout(ShutdownTimeout), shared by the two steps that wait for it.
ShutdownTimeout ==
    /\ phase \in {"http", "waiting"} /\ ~expired
    /\ expired' = TRUE
    /\ UNCHANGED <<phase, cfg, open, streamVars>>

\* server.Shutdown takes no new connection and waits for the requests that
\* are being served, the streams among them, until the timeout.
HTTPShutdown ==
    /\ phase = "http"
    /\ Held = {} \/ expired
    /\ phase' = "worker"
    /\ UNCHANGED <<cfg, open, expired, streamVars>>

\* worker.Shutdown waits for the running task, and for no longer than asynq
\* allows: the task of a worker that is not idle is then left where it is.
\* sseCancel follows at once.
WorkerShutdown ==
    /\ phase = "worker"
    /\ phase' = "waiting"
    /\ worker' = IF worker = "idle" THEN "idle" ELSE "dead"
    /\ UNCHANGED <<row, reached, failing, notices, lost, wire, manager, fan, missed,
                   connVars, cfg, open, expired>>

\* Start sees its context cancelled, once a dispatch under way is over.
ReaderStops ==
    /\ phase \in Stopping \ {"http", "worker"}
    /\ manager # "done" /\ fan.to = {}
    /\ manager' = "done" /\ wire' = << >>
    /\ UNCHANGED <<row, reached, worker, failing, notices, lost, fan, missed, connVars,
                   processVars>>

\* Mutant: nobody waits for the reader.
AwaitNobody ==
    /\ phase = "waiting"
    /\ phase' = "closing"
    /\ UNCHANGED <<cfg, open, expired, streamVars>>

\* select on SSEManager.Done() and the shutdown context.
AwaitReader ==
    /\ phase = "waiting"
    /\ manager = "done" \/ expired
    /\ phase' = "closing"
    /\ UNCHANGED <<cfg, open, expired, streamVars>>

\* App.Close, in its order: Fabric and the job client, Redis, the pool.
CloseClients(here, clients, next) ==
    /\ phase = here
    /\ open' = open \ clients
    /\ phase' = next
    /\ UNCHANGED <<cfg, expired, streamVars>>

Close == \/ CloseClients("closing", {"fabric", "jobs"}, "close redis")
         \/ CloseClients("close redis", {"redis"}, "close database")
         \/ CloseClients("close database", {"database"}, "exited")

Stop == \/ HTTPShutdown \/ WorkerShutdown \/ AwaitReader \/ Close

(***************************************************************************)
(* The process                                                             *)
(***************************************************************************)
Alive == phase \in {"serving"} \cup Stopping

\* The worker runs from the start of run to its shutdown.
WorkerStep == phase \in {"serving", "http", "worker"} /\ Publishers /\ UNCHANGED processVars

\* A new connection is accepted while the server listens.
Accept(c) ==
    /\ phase = "serving"
    /\ EventsRegister(c) \/ ListenerEvents(c)
    /\ UNCHANGED processVars

\* Another request reads the verification.
LookupStep == Alive /\ ReconcileStale /\ UNCHANGED processVars

\* A handler that is running goes on until the process exits.
HandlerStep(c) ==
    /\ Alive
    /\ Handle(c)
    /\ UNCHANGED processVars

HandlerEnds(c) ==
    /\ Alive
    /\ StreamEnds(c) \/ EventsRefused(c)
    /\ UNCHANGED processVars

ManagerStep ==
    /\ Alive
    /\ ManagerReceive \/ \E c \in Conns : Dispatch(c)
    /\ UNCHANGED processVars

Finished == phase \in {"exited", "failed"} /\ UNCHANGED vars

Init == StreamInit /\ ProcessInit

Next ==
    \/ Start \/ ReaderStarts
    \/ StopRequested \/ ShutdownTimeout \/ Stop \/ ReaderStops
    \/ WorkerStep \/ LookupStep \/ ManagerStep
    \/ \E c \in Conns : Accept(c) \/ HandlerStep(c) \/ HandlerEnds(c)
    \/ Finished

(***************************************************************************)
(* Fairness: the goroutines of the worker that has not died, of the Manager  *)
(* and of the handlers run. Clients need not leave, and nothing else need    *)
(* ever happen: no timer is needed for what is claimed.                     *)
(***************************************************************************)
WorkerRuns == WorkerCommit \/ WorkerPublish

Fairness ==
    /\ WF_vars(ReaderStarts)
    /\ WF_vars(phase \in {"serving", "http", "worker"} /\ WorkerRuns /\ UNCHANGED processVars)
    /\ WF_vars(ManagerStep)
    /\ \A c \in Watchers : WF_vars(HandlerStep(c))

Spec == Init /\ [][Next]_vars /\ Fairness

(***************************************************************************)
(* Properties                                                              *)
(***************************************************************************)
TypeOK ==
    /\ StreamTypeOK
    /\ phase \in Starting \cup Stopping \cup {"serving", "exited", "failed"}
    /\ open \subseteq {"database", "redis", "jobs", "fabric"}
    /\ expired \in BOOLEAN

\* The terminal event is still on its way to connection c.
Coming(c) ==
    \/ worker = "publish"
    \/ \E i \in DOMAIN wire : isTerminal(wire[i])
    \/ isTerminal(fan.event) /\ c \in fan.to
    \/ \E i \in DOMAIN chan[c] : isTerminal(chan[c][i])

\* Connection c was told, or will be told, that the verification is over; or
\* Redis, its own full buffer or the end of the process kept it from c.
Delivered(c) ==
    initial[c] = Last \/ Coming(c) \/ lost \/ c \in missed \/ manager = "done"

\* handlers/audit/events.go registers before it reads: what the worker commits
\* at the end of a verification is in the snapshot that a stream was given, or
\* still comes to it as an event, also when a reader has failed the row before.
CompletionNotMissed ==
    \A c \in Watchers :
        reached = Last /\ pc[c] \in {"read", "open"} /\ worker # "dead" => Delivered(c)

\* The same of a verification that fails for good, as the comment there has it:
\* "never both missed".
NeverBothMissed ==
    \A c \in Watchers :
        /\ pc[c] \in {"read", "open"}
        /\ (reached = Last /\ worker # "dead") \/ failing = "committed"
        => Delivered(c)

\* That every stream hears of a row that is settled, whoever settled it. The
\* code does not keep this: reconcileStale publishes nothing, so that a stream
\* that was open before learns of it from a slow worker's last event or never.
SettlementReachesAll ==
    \A c \in Watchers :
        row = Last /\ pc[c] \in {"read", "open"} /\ worker # "dead" => Delivered(c)

\* Every registration is given back, whichever way the handler returns, and
\* the Manager's count of a user's streams is the number he has open.
SlotsReturned ==
    /\ subs = Held
    /\ \A u \in Users : perUser[u] = Cardinality({c \in Held : UserOf[c] = u})

\* Behind the snapshot, which may be ahead of the buffer, a client sees the
\* verification advance, and nothing after a terminal event.
SeenInOrder ==
    \A c \in Watchers :
        /\ \A i, j \in 2 .. Len(seen[c]) : i < j => seen[c][i] < seen[c][j]
        /\ \A i \in 1 .. Len(seen[c]) : seen[c][i] = Last => i = Len(seen[c]) /\ pc[c] = "ended"

\* cmd/server/main.go waits for the reader of Redis before it closes Redis:
\* only the shutdown timeout can make it close the client under the reader.
ReaderStopsFirst ==
    manager = "reading" => "redis" \in open \/ expired

\* "The application must never start in a partially initialized state": a
\* start that fails, like a stop, leaves no client open.
NothingLeftOpen == phase \in {"failed", "exited"} => open = {}

\* A reader failed the row before a worker had begun the verification.
NeverBegun == worker = "idle" /\ reached = 0

\* Who watches a verification that runs to its end is told so and let go,
\* unless he left, the event was lost or the process is being stopped.
WatcherIsTold ==
    \A c \in Watchers :
        pc[c] = "open" ~> \/ pc[c] = "ended" \/ lost \/ c \in missed
                          \/ worker = "dead" \/ NeverBegun
                          \/ phase \in Stopping \cup {"exited"}
================================================================================
