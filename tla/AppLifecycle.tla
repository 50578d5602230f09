---------------------------- MODULE AppLifecycle ----------------------------
(***************************************************************************)
(* A process of the service from start to end, again and again: the        *)
(* migrations of internal/app/migrate.go, then app.Run, which connects,    *)
(* starts four servers and the outbox worker, waits for a signal or for    *)
(* the error of a server, and shuts everything down in turn.               *)
(*                                                                         *)
(* A server is here the goroutine its errgroup runs; what the RPC servers  *)
(* do inside is in RpcServer and NatsRpc, and what the worker does with    *)
(* table and publisher is in Outbox.  fiber, grpc-go, pgxpool, migrate and *)
(* the Go runtime are external.  When a process dies its memory is gone;   *)
(* only the database stays.                                                *)
(***************************************************************************)
EXTENDS Integers, FiniteSets

CONSTANTS
    Requests,   \* HTTP requests, each holding a connection of the pool
    Calls,      \* gRPC calls, such as a reflection stream
    Attempts,   \* most connection attempts of migrate.go and of postgres.New
    Configs     \* the configurations the service is deployed with

\* HTTP_USE_PREFORK_MODE: fiber runs one more process for each CPU, and each
\* runs main from the start, on the same gRPC port.
Config == [migrate : BOOLEAN, outbox : BOOLEAN, mode : {"single", "master", "child"}]

ASSUME AttemptsAssumption == Attempts \in Nat \ {0}
ASSUME ConfigsAssumption == Configs \subseteq Config
ASSUME ClientsAssumption == Requests \cap Calls = {}

VARIABLES
    config,     \* the environment variables Run depends on
    schema,     \* the database: schema_migrations
    pc,         \* where the main goroutine is
    left,       \* connection attempts left in the loop it is in
    conn,       \* pool, publisher and the connections of the RPC servers
    task,       \* the goroutines of the servers and of the outbox worker
    stopped,    \* those that were told to stop
    clients     \* requests and calls under way

vars == <<config, schema, pc, left, conn, task, stopped, clients>>

Servers == {"http", "grpc", "rmq", "nats"}
Tasks == Servers \cup {"worker"}
Conns == {"pool", "publisher", "rmq", "nats"}

\* "failed" is a server that ended with an error in its notify channel.
TaskStates == {"none", "starting", "serving", "busy", "failed", "ended"}

Gone(t) == task[t] \in {"failed", "ended"}
Alive == pc \notin {"dead", "returned"}

-----------------------------------------------------------------------------
(* Steps *)

Goto(place) == pc' = place

NoMemory ==
    /\ conn' = [c \in Conns |-> "none"]
    /\ task' = [t \in Tasks |-> "none"]
    /\ stopped' = {} /\ clients' = {}

\* os.Exit, a panic or a signal: nothing deferred matters any more.
Die == Goto("dead") /\ left' = 0 /\ NoMemory

\* A task takes a step of its own; a step that fails puts the error in notify.
Becomes(t, state) ==
    /\ Alive
    /\ task' = [task EXCEPT ![t] = state]
    /\ UNCHANGED <<config, schema, pc, left, stopped, clients>>

-----------------------------------------------------------------------------
(* migrate.go: init *)

MigrateDisabled ==
    /\ pc = "migrate" /\ ~config.migrate
    /\ Goto("postgres") /\ left' = Attempts
    /\ UNCHANGED <<config, schema, conn, task, stopped, clients>>

MigrateConnects ==
    /\ pc = "migrate" /\ config.migrate /\ left > 0
    /\ Goto("up")
    /\ UNCHANGED <<config, schema, left, conn, task, stopped, clients>>

MigrateAttemptFails ==
    /\ pc = "migrate" /\ config.migrate /\ left > 1
    /\ left' = left - 1
    /\ UNCHANGED <<config, schema, pc, conn, task, stopped, clients>>

\* The last attempt fails; or there is none (MIGRATION_RETRY_ATTEMPTS is 0)
\* and m.Up panics on a nil m.  A start without PG_URL ends here as well.
MigrateGivesUp ==
    /\ pc = "migrate" /\ config.migrate /\ left <= 1
    /\ Die
    /\ UNCHANGED <<config, schema>>

\* A faulty variant: the error of m.Up is only logged.
UpFailsLogged ==
    /\ pc = "up"
    /\ schema' \in {schema, "dirty"}
    /\ Goto("postgres") /\ left' = Attempts
    /\ UNCHANGED <<config, conn, task, stopped, clients>>

\* Up refuses a dirty schema, or fails and may leave one.
UpFails ==
    /\ pc = "up"
    /\ schema' \in {schema, "dirty"}
    /\ Die
    /\ UNCHANGED config

\* ErrNoChange counts as success.
UpSucceeds ==
    /\ pc = "up" /\ schema # "dirty"
    /\ schema' = "migrated"
    /\ Goto("postgres") /\ left' = Attempts
    /\ UNCHANGED <<config, conn, task, stopped, clients>>

-----------------------------------------------------------------------------
(* app.Run: constructors *)

Open(c, here, next) ==
    /\ pc = here
    /\ conn' = [conn EXCEPT ![c] = "open"]
    /\ Goto(next) /\ left' = 0
    /\ UNCHANGED <<config, schema, task, stopped, clients>>

PoolAttemptFails ==
    /\ pc = "postgres" /\ left > 1
    /\ left' = left - 1
    /\ UNCHANGED <<config, schema, pc, conn, task, stopped, clients>>

\* l.Fatal: a constructor failed; postgres.New after its last attempt, or
\* before the first on a bad URL, as main does on a bad configuration.
ConstructorFails ==
    /\ \/ pc \in {"publisher", "rmq", "nats"}
       \/ pc = "postgres" /\ left \in {1, Attempts}
    /\ Die
    /\ UNCHANGED <<config, schema>>

\* Start of the four servers and of the worker: each starts a goroutine.
StartAll ==
    /\ pc = "start"
    /\ task' = [t \in Tasks |-> IF t \in Servers THEN "starting"
                               ELSE IF config.outbox THEN "serving" ELSE "none"]
    /\ Goto("wait")
    /\ UNCHANGED <<config, schema, left, conn, stopped, clients>>

StartUp ==
    \/ MigrateDisabled \/ MigrateConnects \/ MigrateAttemptFails \/ MigrateGivesUp
    \/ UpFails \/ UpSucceeds
    \/ PoolAttemptFails \/ ConstructorFails
    \/ Open("pool", "postgres", IF config.outbox THEN "publisher" ELSE "rmq")
    \/ Open("publisher", "publisher", "rmq")
    \/ Open("rmq", "rmq", "nats")
    \/ Open("nats", "nats", "start")
    \/ StartAll

-----------------------------------------------------------------------------
(* The goroutines of the servers *)

\* Listen or subscribe has worked.  A child finds the gRPC port in use, and
\* Serve refuses to serve after GracefulStop.
Serve(s) ==
    /\ task[s] = "starting"
    /\ s = "grpc" => config.mode # "child" /\ s \notin stopped
    /\ Becomes(s, "serving") /\ UNCHANGED conn

\* Listen, Serve or subscribe fails.  The RabbitMQ server has its deliveries
\* from New.
ServeFails(s) ==
    /\ task[s] = "starting" /\ s # "rmq"
    /\ Becomes(s, "failed") /\ UNCHANGED conn

\* An error while serving: accept fails, or RabbitMQ cannot be redialled,
\* which may leave a nil Connection.  The NATS goroutine looks at stop only.
Break(s) ==
    /\ task[s] = "serving" /\ s # "nats"
    /\ Becomes(s, "failed")
    /\ conn' \in {conn} \cup IF s = "rmq" THEN {[conn EXCEPT !["rmq"] = "nil"]} ELSE {}

\* A child of the master exited with status 0: fiber's Listen returns no
\* error, and Start reports none.
ChildEnds ==
    /\ task["http"] = "serving" /\ config.mode = "master"
    /\ Becomes("http", "ended") /\ UNCHANGED conn

\* Told to stop, a server returns without an error, and so does the worker
\* when its select sees the closed channel.
ObserveStop(t) ==
    /\ task[t] = "serving" /\ t \in stopped
    /\ Becomes(t, "ended") /\ UNCHANGED conn

\* The worker polls.
Tick == /\ task["worker"] = "serving"
        /\ Becomes("worker", "busy") /\ UNCHANGED conn

Polled == /\ task["worker"] = "busy"
          /\ Becomes("worker", "serving") /\ UNCHANGED conn

\* A request takes a connection from the pool: it may have come before the
\* listener closed, and have outlived the three seconds and Listen itself.  The
\* master serves none.
HoldsRequest(x) ==
    /\ x \in Requests
    /\ task["http"] \in {"serving", "ended"} /\ config.mode # "master"
    /\ conn["pool"] = "open"

\* A new call; GracefulStop turns them away.
HoldsCall(x) == x \in Calls /\ task["grpc"] = "serving" /\ "grpc" \notin stopped

Begin(x) ==
    /\ Alive /\ (HoldsRequest(x) \/ HoldsCall(x))
    /\ clients' = clients \cup {x}
    /\ UNCHANGED <<config, schema, pc, left, conn, task, stopped>>

End(x) ==
    /\ Alive /\ x \in clients
    /\ clients' = clients \ {x}
    /\ UNCHANGED <<config, schema, pc, left, conn, task, stopped>>

-----------------------------------------------------------------------------
(* app.Run: the select and the shutdown *)

\* A second signal goes into the buffered channel and is not looked at.
Interrupt ==
    /\ pc = "wait"
    /\ Goto("stopHttp")
    /\ UNCHANGED <<config, schema, left, conn, task, stopped, clients>>

\* A faulty variant: the select has no case for the NATS server.
NotifiedButNats(s) ==
    /\ pc = "wait" /\ task[s] = "failed" /\ s # "nats"
    /\ Goto("stopHttp")
    /\ UNCHANGED <<config, schema, left, conn, task, stopped, clients>>

Notified(s) ==
    /\ pc = "wait" /\ task[s] = "failed"
    /\ Goto("stopHttp")
    /\ UNCHANGED <<config, schema, left, conn, task, stopped, clients>>

\* Closing a stop channel, or GracefulStop turning away new calls.
Tell(t, here, next) ==
    /\ pc = here
    /\ stopped' = stopped \cup {t}
    /\ Goto(next)
    /\ UNCHANGED <<config, schema, left, conn, task, clients>>

\* eg.Wait of a server, or the worker's done channel.
Await(t, here, next) ==
    /\ pc = here /\ Gone(t)
    /\ Goto(next)
    /\ UNCHANGED <<config, schema, left, conn, task, stopped, clients>>

Close(c, here, next) ==
    /\ pc = here /\ conn[c] = "open"
    /\ conn' = [conn EXCEPT ![c] = "closed"]
    /\ Goto(next)
    /\ UNCHANGED <<config, schema, left, task, stopped, clients>>

\* ShutdownWithTimeout closes the listener and gives requests under way three
\* seconds.
StopHttp == config.mode # "master" /\ Tell("http", "stopHttp", "awaitHttp")

\* It closes nothing if Listen has not opened the listener yet, and the
\* goroutine may serve all the same; nor in the master, which has none: there
\* Listen goes on until a child ends.
StopHttpInVain ==
    /\ pc = "stopHttp" /\ (task["http"] = "starting" \/ config.mode = "master")
    /\ Goto("awaitHttp")
    /\ UNCHANGED <<config, schema, left, conn, task, stopped, clients>>

\* GracefulStop has no limit.
DrainGrpc ==
    /\ pc = "drainGrpc" /\ clients \cap Calls = {}
    /\ Goto("awaitGrpc")
    /\ UNCHANGED <<config, schema, left, conn, task, stopped, clients>>

\* A faulty variant: Shutdown without eg.Wait.
AwaitGrpcNot ==
    /\ pc = "awaitGrpc"
    /\ Goto("stopRmq")
    /\ UNCHANGED <<config, schema, left, conn, task, stopped, clients>>

AwaitGrpc == Await("grpc", "awaitGrpc", "stopRmq")

\* s.conn.Connection.Close() on a nil pointer: the panic runs what is deferred,
\* first cancel, which ends the worker's context and waits for nothing.
CloseRmqPanics ==
    /\ pc = "closeRmq" /\ conn["rmq"] = "nil"
    /\ stopped' = stopped \cup {"worker"}
    /\ Goto("unwind")
    /\ UNCHANGED <<config, schema, left, conn, task, clients>>

\* A faulty variant: the stop channel is not closed.
StopWorkerSilently ==
    /\ pc = "stopWorker"
    /\ Goto("awaitWorker")
    /\ UNCHANGED <<config, schema, left, conn, task, stopped, clients>>

StopWorker == Tell("worker", "stopWorker", "awaitWorker")

\* A faulty variant: Stop does not wait for done.
AwaitWorkerNot ==
    /\ pc = "awaitWorker"
    /\ Goto("closePublisher")
    /\ UNCHANGED <<config, schema, left, conn, task, stopped, clients>>

AwaitWorker == Await("worker", "awaitWorker", "closePublisher")

\* The deferred pg.Close: the pool gives out no connection from here on, and
\* Close waits until those in use are back.
RejectPool(here, next) ==
    /\ pc = here
    /\ conn' = [conn EXCEPT !["pool"] = "closing"]
    /\ Goto(next)
    /\ UNCHANGED <<config, schema, left, task, stopped, clients>>

ClosePool == RejectPool("closePool", "drainPool")

DrainPool ==
    /\ pc = "drainPool" /\ clients \cap Requests = {}
    /\ conn' = [conn EXCEPT !["pool"] = "closed"]
    /\ Goto("returned")
    /\ UNCHANGED <<config, schema, left, task, stopped, clients>>

\* The same on the way of the panic, while the worker may still be running.
UnwindPool == RejectPool("unwind", "unwindDrain")

UnwindEnds ==
    /\ pc = "unwindDrain" /\ clients \cap Requests = {}
    /\ Die
    /\ UNCHANGED <<config, schema>>

ShutDown ==
    \/ StopHttp \/ StopHttpInVain \/ Await("http", "awaitHttp", "stopGrpc")
    \/ Tell("grpc", "stopGrpc", "drainGrpc") \/ DrainGrpc \/ AwaitGrpc
    \/ Tell("rmq", "stopRmq", "awaitRmq") \/ Await("rmq", "awaitRmq", "closeRmq")
    \/ Close("rmq", "closeRmq", "stopNats") \/ CloseRmqPanics
    \/ Tell("nats", "stopNats", "awaitNats") \/ Await("nats", "awaitNats", "closeNats")
    \/ Close("nats", "closeNats", IF config.outbox THEN "stopWorker" ELSE "closePool")
    \/ StopWorker \/ AwaitWorker \/ Close("publisher", "closePublisher", "closePool")
    \/ ClosePool \/ DrainPool \/ UnwindPool \/ UnwindEnds

-----------------------------------------------------------------------------
(* The deployment *)

\* Killed, or a signal before signal.Notify; a migration may be cut short.
Kill ==
    /\ Alive
    /\ schema' \in {schema} \cup IF pc = "up" THEN {"dirty"} ELSE {}
    /\ Die
    /\ UNCHANGED config

Restart ==
    /\ ~Alive
    /\ Goto("migrate") /\ left' \in 0..Attempts
    /\ NoMemory
    /\ UNCHANGED <<config, schema>>

Init ==
    /\ config \in Configs
    /\ schema \in {"old", "migrated"}
    /\ pc = "migrate" /\ left \in 0..Attempts
    /\ conn = [c \in Conns |-> "none"]
    /\ task = [t \in Tasks |-> "none"]
    /\ stopped = {} /\ clients = {}

\* The steps of the main goroutine, but for a signal's.
Main == StartUp \/ ShutDown \/ \E s \in Servers : Notified(s)

\* What the goroutine of a server does in any case.
Proceed(s) == Serve(s) \/ ServeFails(s) \/ ObserveStop(s)

Next ==
    \/ Main
    \/ Interrupt
    \/ \E s \in Servers : Proceed(s) \/ Break(s)
    \/ ChildEnds
    \/ Tick \/ Polled \/ ObserveStop("worker")
    \/ \E x \in Requests \cup Calls : Begin(x) \/ End(x)
    \/ Kill \/ Restart

Spec == Init /\ [][Next]_vars

(***************************************************************************)
(* Fairness.  Goroutines that can run do; dials and polls come to an end;  *)
(* requests end, for dbHealth has a timeout; select does not pass over a   *)
(* closed stop channel for ever.  Nothing is assumed of gRPC calls: a      *)
(* client may leave a stream open as long as it likes.                     *)
(***************************************************************************)
Fairness ==
    /\ WF_vars(Main)
    /\ \A s \in Servers : WF_vars(Proceed(s))
    /\ \A r \in Requests : WF_vars(End(r))
    /\ WF_vars(Polled) /\ SF_vars(ObserveStop("worker"))

FairSpec == Spec /\ Fairness

-----------------------------------------------------------------------------
(* Properties *)

StartPlaces == {"migrate", "up", "postgres", "publisher", "rmq", "nats", "start"}

ShutdownPlaces ==
    {"stopHttp", "awaitHttp", "stopGrpc", "drainGrpc", "awaitGrpc", "stopRmq", "awaitRmq",
     "closeRmq", "stopNats", "awaitNats", "closeNats", "stopWorker", "awaitWorker",
     "closePublisher", "closePool", "drainPool", "unwind", "unwindDrain"}

\* The variables keep their types.
TypeOK ==
    /\ config \in Config
    /\ schema \in {"old", "dirty", "migrated"}
    /\ pc \in StartPlaces \cup {"wait"} \cup ShutdownPlaces \cup {"returned", "dead"}
    /\ left \in 0..Attempts
    /\ conn \in [Conns -> {"none", "open", "nil", "closing", "closed"}]
    /\ task \in [Tasks -> TaskStates]
    /\ stopped \in SUBSET Tasks
    /\ clients \in SUBSET (Requests \cup Calls)

Runs(t) == task[t] \in {"serving", "busy"}

(***************************************************************************)
(* The order of Run (app.go:36, 48-63, 121-150): what still runs finds     *)
(* open what it needs, whatever it was doing when it was told to stop.     *)
(* The worker can publish and mark what it has published, the HTTP server  *)
(* still has its pool, and no RPC server is closed under its goroutine.    *)
(* Only where Shutdown of the RabbitMQ server panics (app.go:131) does the *)
(* worker, told to stop but not waited for (app.go:97), outlive its pool:  *)
(* it may publish an event there and no longer be able to mark it.         *)
(***************************************************************************)
UsersBeforeResources ==
    /\ Runs("worker") => /\ conn["publisher"] = "open"
                         /\ conn["pool"] = "open" \/ pc = "unwindDrain"
    /\ Runs("http") => conn["pool"] = "open"
    /\ Runs("rmq") => conn["rmq"] = "open"
    /\ Runs("nats") => conn["nats"] = "open"

(***************************************************************************)
(* docs/ARCHITECTURE.md:261-267, "All servers implement proper lifecycle   *)
(* management": if Run returns, every goroutine it started has ended and   *)
(* every connection is closed, whichever server failed or was still        *)
(* starting when the shutdown began (app.go:121-150).                      *)
(***************************************************************************)
NothingLeftRunning ==
    pc = "returned" =>
        /\ \A t \in Tasks : Gone(t) \/ (t = "worker" /\ task[t] = "none")
        /\ \A c \in Conns : conn[c] = "closed" \/ (c = "publisher" /\ conn[c] = "none")
        /\ clients = {}

(***************************************************************************)
(* With migrations enabled nothing is served on a schema that is not       *)
(* migrated (migrate.go:58-63): a migration that fails, or was cut short   *)
(* in an earlier start and left dirty, ends every later start too.         *)
(***************************************************************************)
ServesMigrated ==
    config.migrate /\ (\E t \in Tasks : task[t] # "none") => schema = "migrated"

(***************************************************************************)
(* A server that ends, before or after it came to serve, ends the process: *)
(* Run notices its error wherever the other servers are (app.go:107-118),  *)
(* except for an HTTP server in prefork mode whose Listen returned no      *)
(* error (httpserver/server.go:77).  In a prefork child that server is the *)
(* gRPC one, which finds the master's port in use.                         *)
(***************************************************************************)
DeathNoticed ==
    \A s \in Servers :
        pc = "wait" /\ Gone(s) /\ (s = "http" => config.mode # "master") ~> pc # "wait"

(***************************************************************************)
(* Nothing but the select keeps Run waiting: the start comes to a decision *)
(* (migrate.go:43-52, postgres.go:57-68), and a shutdown ends the process  *)
(* (app.go:121-150), but for three waits without a limit: GracefulStop     *)
(* while a client keeps a call open (grpcserver/server.go:90), and eg.Wait *)
(* of the HTTP server (httpserver/server.go:101-109), for a listener       *)
(* opened after ShutdownWithTimeout and, in a prefork master, for as long  *)
(* as no child ends.                                                       *)
(***************************************************************************)
OnlyTheSelectWaits ==
    pc \in StartPlaces \cup ShutdownPlaces ~>
        \/ pc = "wait" \/ ~Alive
        \/ [](pc = "drainGrpc" /\ clients \cap Calls # {})
        \/ [](pc = "awaitHttp" /\ ~Gone("http") /\ "http" \notin stopped)

-----------------------------------------------------------------------------
(* The inductive invariant *)

\* Places of Run after a step of the shutdown, in the order of the steps.
AfterClosePublisher == {"closePool", "drainPool", "returned"}
AfterAwaitWorker == {"closePublisher"} \cup AfterClosePublisher
AfterCloseNats == {"stopWorker", "awaitWorker"} \cup AfterAwaitWorker
AfterAwaitNats == {"closeNats"} \cup AfterCloseNats
AfterCloseRmq == {"stopNats", "awaitNats"} \cup AfterAwaitNats
AfterAwaitRmq == {"closeRmq", "unwind", "unwindDrain"} \cup AfterCloseRmq
AfterAwaitGrpc == {"stopRmq", "awaitRmq"} \cup AfterAwaitRmq
AfterDrain == {"awaitGrpc"} \cup AfterAwaitGrpc
AfterTellGrpc == {"drainGrpc"} \cup AfterDrain
AfterAwaitHttp == {"stopGrpc"} \cup AfterTellGrpc
AfterStart == {"wait", "stopHttp", "awaitHttp"} \cup AfterAwaitHttp

\* Before StartAll, and in a dead process, nothing runs.
QuietInv == pc \notin AfterStart => clients = {} /\ \A t \in Tasks : task[t] = "none"

\* Past the migration of this start (migrate.go:58-63) the schema is migrated.
SchemaInv == config.migrate /\ pc \notin {"migrate", "up", "dead"} => schema = "migrated"

\* What is open where, and that publisher and worker come together.
OpenInv ==
    /\ pc \in {"publisher", "rmq", "nats", "start"} \cup AfterStart
       /\ pc \notin {"drainPool", "unwindDrain", "returned"} =>
          conn["pool"] = "open"
    /\ config.outbox /\ pc \in {"rmq", "nats", "start"} \cup AfterStart
       /\ pc \notin AfterClosePublisher =>
          conn["publisher"] = "open"
    /\ pc \in {"nats", "start"} \cup AfterStart /\ pc \notin AfterCloseRmq
       /\ task["rmq"] # "failed" =>
          conn["rmq"] = "open"
    /\ pc \in {"start"} \cup AfterStart /\ pc \notin AfterCloseNats =>
          conn["nats"] = "open"
    /\ pc = "publisher" => config.outbox
    /\ ~config.outbox => conn["publisher"] = "none" /\ task["worker"] = "none"

\* What each step of the shutdown leaves behind.
ShutInv ==
    /\ pc \in AfterAwaitHttp => Gone("http")
    /\ pc \in AfterTellGrpc => "grpc" \in stopped
    /\ pc \in AfterDrain => clients \cap Calls = {}
    /\ pc \in AfterAwaitGrpc => Gone("grpc")
    /\ pc \in AfterAwaitRmq => Gone("rmq")
    /\ pc \in AfterCloseRmq => conn["rmq"] = "closed"
    /\ pc \in AfterAwaitNats => Gone("nats")
    /\ pc \in AfterCloseNats => conn["nats"] = "closed"
    /\ pc \in AfterAwaitWorker => Gone("worker") \/ task["worker"] = "none"
    /\ pc \in AfterClosePublisher => conn["publisher"] \in {"closed", "none"}
    /\ pc = "returned" => conn["pool"] = "closed" /\ clients \cap Requests = {}

\* The invariant the steps of Run keep (app.go:36-150).
IInv == TypeOK /\ QuietInv /\ SchemaInv /\ OpenInv /\ ShutInv
=============================================================================
