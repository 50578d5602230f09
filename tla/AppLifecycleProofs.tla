------------------------ MODULE AppLifecycleProofs ------------------------
(***************************************************************************)
(* Proofs about AppLifecycle, for every set of requests and of calls,      *)
(* every number of connection attempts and every set of configurations,    *)
(* prefork mode included.                                                  *)
(***************************************************************************)
EXTENDS AppLifecycle, TLAPS

\* The places of Run and the parts of the invariant that speak of them.
USE DEF AfterClosePublisher, AfterAwaitWorker, AfterCloseNats, AfterAwaitNats,
        AfterCloseRmq, AfterAwaitRmq, AfterAwaitGrpc, AfterDrain, AfterTellGrpc,
        AfterAwaitHttp, AfterStart, StartPlaces, ShutdownPlaces, Servers, Tasks, Conns,
        TaskStates, Gone, Alive, Goto

-----------------------------------------------------------------------------
(* Steps by their shape *)

\* A process that dies leaves nothing but the schema (main.go, app.go:32).
LEMMA DieStep ==
    ASSUME IInv, Die, config' = config, schema' \in {"old", "dirty", "migrated"}
    PROVE  IInv'
  <1>1. TypeOK'
    BY AttemptsAssumption DEF IInv, TypeOK, Die, NoMemory
  <1>2. QuietInv' /\ SchemaInv'
    BY DEF QuietInv, SchemaInv, Die, NoMemory
  <1>3. OpenInv' /\ ShutInv'
    BY DEF OpenInv, ShutInv, Die, NoMemory
  <1> QED
    BY <1>1, <1>2, <1>3 DEF IInv

\* A goroutine that runs takes a step; a broken RabbitMQ connection is the
\* only one a goroutine changes (server.go of rmq_rpc).
LEMMA TaskStep ==
    ASSUME IInv, NEW t \in Tasks, task[t] # "none", ~Gone(t),
           NEW state \in TaskStates \ {"none"}, Becomes(t, state),
           \/ conn' = conn
           \/ t = "rmq" /\ state = "failed" /\ conn' = [conn EXCEPT !["rmq"] = "nil"]
    PROVE  IInv'
  <1>1. TypeOK'
    BY DEF IInv, TypeOK, Becomes
  <1>2. pc \in AfterStart
    BY DEF IInv, QuietInv
  <1>3. task' = [task EXCEPT ![t] = state] /\ task \in [Tasks -> TaskStates]
    BY DEF IInv, TypeOK, Becomes
  <1>4. QuietInv' /\ SchemaInv'
    BY <1>2 DEF IInv, QuietInv, SchemaInv, Becomes
  <1>5. conn'["pool"] = conn["pool"] /\ conn'["publisher"] = conn["publisher"]
        /\ conn'["nats"] = conn["nats"] /\ (t # "rmq" => conn'["rmq"] = conn["rmq"])
    BY DEF IInv, TypeOK
  <1>6. task'["rmq"] # "failed" => conn'["rmq"] = conn["rmq"] /\ task["rmq"] # "failed"
    BY <1>3, <1>5
  <1>7. OpenInv'
    BY <1>3, <1>5, <1>6 DEF IInv, OpenInv, Becomes
  <1>8. ShutInv'
    BY <1>3, <1>5 DEF IInv, ShutInv, Becomes
  <1> QED
    BY <1>1, <1>4, <1>7, <1>8 DEF IInv

-----------------------------------------------------------------------------
(* The steps of the main goroutine *)

\* Migrations, constructors and starts (migrate.go:23-72, app.go:32-101).
LEMMA StartUpStep ==
    ASSUME IInv, StartUp
    PROVE  IInv'
  <1>1. CASE MigrateDisabled
    <2>1. TypeOK'
      BY <1>1, AttemptsAssumption DEF IInv, TypeOK, MigrateDisabled
    <2>2. QuietInv' /\ SchemaInv'
      BY <1>1 DEF IInv, QuietInv, SchemaInv, MigrateDisabled
    <2>3. OpenInv' /\ ShutInv'
      BY <1>1 DEF IInv, OpenInv, ShutInv, MigrateDisabled
    <2> QED
      BY <2>1, <2>2, <2>3 DEF IInv
  <1>2. CASE MigrateConnects
    <2>1. TypeOK'
      BY <1>2 DEF IInv, TypeOK, MigrateConnects
    <2>2. QuietInv' /\ SchemaInv'
      BY <1>2 DEF IInv, QuietInv, SchemaInv, MigrateConnects
    <2>3. OpenInv' /\ ShutInv'
      BY <1>2 DEF IInv, OpenInv, ShutInv, MigrateConnects
    <2> QED
      BY <2>1, <2>2, <2>3 DEF IInv
  <1>3. CASE MigrateAttemptFails
    <2>1. TypeOK'
      BY <1>3, AttemptsAssumption DEF IInv, TypeOK, MigrateAttemptFails
    <2>2. QuietInv' /\ SchemaInv'
      BY <1>3 DEF IInv, QuietInv, SchemaInv, MigrateAttemptFails
    <2>3. OpenInv' /\ ShutInv'
      BY <1>3 DEF IInv, OpenInv, ShutInv, MigrateAttemptFails
    <2> QED
      BY <2>1, <2>2, <2>3 DEF IInv
  <1>4. CASE MigrateGivesUp
    BY <1>4, DieStep DEF IInv, TypeOK, MigrateGivesUp
  <1>5. CASE UpFails
    BY <1>5, DieStep DEF IInv, TypeOK, UpFails
  <1>6. CASE UpSucceeds
    <2>1. TypeOK'
      BY <1>6, AttemptsAssumption DEF IInv, TypeOK, UpSucceeds
    <2>2. QuietInv' /\ SchemaInv'
      BY <1>6 DEF IInv, QuietInv, SchemaInv, UpSucceeds
    <2>3. OpenInv' /\ ShutInv'
      BY <1>6 DEF IInv, OpenInv, ShutInv, UpSucceeds
    <2> QED
      BY <2>1, <2>2, <2>3 DEF IInv
  <1>7. CASE PoolAttemptFails
    <2>1. TypeOK'
      BY <1>7, AttemptsAssumption DEF IInv, TypeOK, PoolAttemptFails
    <2>2. QuietInv' /\ SchemaInv'
      BY <1>7 DEF IInv, QuietInv, SchemaInv, PoolAttemptFails
    <2>3. OpenInv' /\ ShutInv'
      BY <1>7 DEF IInv, OpenInv, ShutInv, PoolAttemptFails
    <2> QED
      BY <2>1, <2>2, <2>3 DEF IInv
  <1>8. CASE ConstructorFails
    BY <1>8, DieStep DEF IInv, TypeOK, ConstructorFails
  <1>9. CASE Open("pool", "postgres", IF config.outbox THEN "publisher" ELSE "rmq")
    <2>1. TypeOK'
      BY <1>9, AttemptsAssumption DEF IInv, TypeOK, Open
    <2>2. QuietInv' /\ SchemaInv'
      BY <1>9 DEF IInv, QuietInv, SchemaInv, Open
    <2>3. OpenInv' /\ ShutInv'
      BY <1>9 DEF IInv, TypeOK, OpenInv, ShutInv, Open
    <2> QED
      BY <2>1, <2>2, <2>3 DEF IInv
  <1>10. CASE Open("publisher", "publisher", "rmq")
    <2>1. TypeOK'
      BY <1>10, AttemptsAssumption DEF IInv, TypeOK, Open
    <2>2. QuietInv' /\ SchemaInv'
      BY <1>10 DEF IInv, QuietInv, SchemaInv, Open
    <2>3. OpenInv' /\ ShutInv'
      BY <1>10 DEF IInv, TypeOK, OpenInv, ShutInv, Open
    <2> QED
      BY <2>1, <2>2, <2>3 DEF IInv
  <1>11. CASE Open("rmq", "rmq", "nats")
    <2>1. TypeOK'
      BY <1>11, AttemptsAssumption DEF IInv, TypeOK, Open
    <2>2. QuietInv' /\ SchemaInv'
      BY <1>11 DEF IInv, QuietInv, SchemaInv, Open
    <2>3. OpenInv' /\ ShutInv'
      BY <1>11 DEF IInv, TypeOK, OpenInv, ShutInv, Open
    <2> QED
      BY <2>1, <2>2, <2>3 DEF IInv
  <1>12. CASE Open("nats", "nats", "start")
    <2>1. TypeOK'
      BY <1>12, AttemptsAssumption DEF IInv, TypeOK, Open
    <2>2. QuietInv' /\ SchemaInv'
      BY <1>12 DEF IInv, QuietInv, SchemaInv, Open
    <2>3. OpenInv' /\ ShutInv'
      BY <1>12 DEF IInv, TypeOK, OpenInv, ShutInv, Open
    <2> QED
      BY <2>1, <2>2, <2>3 DEF IInv
  <1>13. CASE StartAll
    <2>1. TypeOK'
      BY <1>13 DEF IInv, TypeOK, StartAll
    <2>2. QuietInv' /\ SchemaInv'
      BY <1>13 DEF IInv, QuietInv, SchemaInv, StartAll
    <2>3. OpenInv' /\ ShutInv'
      BY <1>13 DEF IInv, QuietInv, OpenInv, ShutInv, StartAll
    <2> QED
      BY <2>1, <2>2, <2>3 DEF IInv
  <1> QED
    BY <1>1, <1>2, <1>3, <1>4, <1>5, <1>6, <1>7, <1>8, <1>9, <1>10, <1>11, <1>12, <1>13
       DEF StartUp

\* The shutdown of Run, step by step (app.go:120-151).
LEMMA ShutDownStep ==
    ASSUME IInv, ShutDown
    PROVE  IInv'
  <1>1. CASE StopHttpInVain
    <2>1. TypeOK'
      BY <1>1 DEF IInv, TypeOK, StopHttpInVain
    <2>2. QuietInv' /\ SchemaInv'
      BY <1>1 DEF IInv, QuietInv, SchemaInv, StopHttpInVain
    <2>3. OpenInv' /\ ShutInv'
      BY <1>1 DEF IInv, OpenInv, ShutInv, StopHttpInVain
    <2> QED
      BY <2>1, <2>2, <2>3 DEF IInv
  <1>2. CASE StopHttp
    <2>1. TypeOK'
      BY <1>2 DEF IInv, TypeOK, StopHttp, Tell
    <2>2. QuietInv' /\ SchemaInv'
      BY <1>2 DEF IInv, QuietInv, SchemaInv, StopHttp, Tell
    <2>3. OpenInv' /\ ShutInv'
      BY <1>2 DEF IInv, OpenInv, ShutInv, StopHttp, Tell
    <2> QED
      BY <2>1, <2>2, <2>3 DEF IInv
  <1>3. CASE Await("http", "awaitHttp", "stopGrpc")
    <2>1. TypeOK'
      BY <1>3 DEF IInv, TypeOK, Await
    <2>2. QuietInv' /\ SchemaInv'
      BY <1>3 DEF IInv, QuietInv, SchemaInv, Await
    <2>3. OpenInv' /\ ShutInv'
      BY <1>3 DEF IInv, OpenInv, ShutInv, Await
    <2> QED
      BY <2>1, <2>2, <2>3 DEF IInv
  <1>4. CASE Tell("grpc", "stopGrpc", "drainGrpc")
    <2>1. TypeOK'
      BY <1>4 DEF IInv, TypeOK, Tell
    <2>2. QuietInv' /\ SchemaInv'
      BY <1>4 DEF IInv, QuietInv, SchemaInv, Tell
    <2>3. OpenInv' /\ ShutInv'
      BY <1>4 DEF IInv, OpenInv, ShutInv, Tell
    <2> QED
      BY <2>1, <2>2, <2>3 DEF IInv
  <1>5. CASE DrainGrpc
    <2>1. TypeOK'
      BY <1>5 DEF IInv, TypeOK, DrainGrpc
    <2>2. QuietInv' /\ SchemaInv'
      BY <1>5 DEF IInv, QuietInv, SchemaInv, DrainGrpc
    <2>3. OpenInv' /\ ShutInv'
      BY <1>5 DEF IInv, OpenInv, ShutInv, DrainGrpc
    <2> QED
      BY <2>1, <2>2, <2>3 DEF IInv
  <1>6. CASE AwaitGrpc
    <2>1. TypeOK'
      BY <1>6 DEF IInv, TypeOK, AwaitGrpc, Await
    <2>2. QuietInv' /\ SchemaInv'
      BY <1>6 DEF IInv, QuietInv, SchemaInv, AwaitGrpc, Await
    <2>3. OpenInv' /\ ShutInv'
      BY <1>6 DEF IInv, OpenInv, ShutInv, AwaitGrpc, Await
    <2> QED
      BY <2>1, <2>2, <2>3 DEF IInv
  <1>7. CASE Tell("rmq", "stopRmq", "awaitRmq")
    <2>1. TypeOK'
      BY <1>7 DEF IInv, TypeOK, Tell
    <2>2. QuietInv' /\ SchemaInv'
      BY <1>7 DEF IInv, QuietInv, SchemaInv, Tell
    <2>3. OpenInv' /\ ShutInv'
      BY <1>7 DEF IInv, OpenInv, ShutInv, Tell
    <2> QED
      BY <2>1, <2>2, <2>3 DEF IInv
  <1>8. CASE Await("rmq", "awaitRmq", "closeRmq")
    <2>1. TypeOK'
      BY <1>8 DEF IInv, TypeOK, Await
    <2>2. QuietInv' /\ SchemaInv'
      BY <1>8 DEF IInv, QuietInv, SchemaInv, Await
    <2>3. OpenInv' /\ ShutInv'
      BY <1>8 DEF IInv, OpenInv, ShutInv, Await
    <2> QED
      BY <2>1, <2>2, <2>3 DEF IInv
  <1>9. CASE Close("rmq", "closeRmq", "stopNats")
    <2>1. TypeOK'
      BY <1>9 DEF IInv, TypeOK, Close
    <2>2. QuietInv' /\ SchemaInv'
      BY <1>9 DEF IInv, QuietInv, SchemaInv, Close
    <2>3. OpenInv' /\ ShutInv'
      BY <1>9 DEF IInv, TypeOK, OpenInv, ShutInv, Close
    <2> QED
      BY <2>1, <2>2, <2>3 DEF IInv
  <1>10. CASE CloseRmqPanics
    <2>1. TypeOK'
      BY <1>10 DEF IInv, TypeOK, CloseRmqPanics
    <2>2. QuietInv' /\ SchemaInv'
      BY <1>10 DEF IInv, QuietInv, SchemaInv, CloseRmqPanics
    <2>3. OpenInv' /\ ShutInv'
      BY <1>10 DEF IInv, OpenInv, ShutInv, CloseRmqPanics
    <2> QED
      BY <2>1, <2>2, <2>3 DEF IInv
  <1>11. CASE Tell("nats", "stopNats", "awaitNats")
    <2>1. TypeOK'
      BY <1>11 DEF IInv, TypeOK, Tell
    <2>2. QuietInv' /\ SchemaInv'
      BY <1>11 DEF IInv, QuietInv, SchemaInv, Tell
    <2>3. OpenInv' /\ ShutInv'
      BY <1>11 DEF IInv, OpenInv, ShutInv, Tell
    <2> QED
      BY <2>1, <2>2, <2>3 DEF IInv
  <1>12. CASE Await("nats", "awaitNats", "closeNats")
    <2>1. TypeOK'
      BY <1>12 DEF IInv, TypeOK, Await
    <2>2. QuietInv' /\ SchemaInv'
      BY <1>12 DEF IInv, QuietInv, SchemaInv, Await
    <2>3. OpenInv' /\ ShutInv'
      BY <1>12 DEF IInv, OpenInv, ShutInv, Await
    <2> QED
      BY <2>1, <2>2, <2>3 DEF IInv
  <1>13. CASE Close("nats", "closeNats", IF config.outbox THEN "stopWorker" ELSE "closePool")
    <2>1. TypeOK'
      BY <1>13 DEF IInv, TypeOK, Close
    <2>2. QuietInv' /\ SchemaInv'
      BY <1>13 DEF IInv, QuietInv, SchemaInv, Close
    <2>3. OpenInv' /\ ShutInv'
      BY <1>13 DEF IInv, TypeOK, OpenInv, ShutInv, Close
    <2> QED
      BY <2>1, <2>2, <2>3 DEF IInv
  <1>14. CASE StopWorker
    <2>1. TypeOK'
      BY <1>14 DEF IInv, TypeOK, StopWorker, Tell
    <2>2. QuietInv' /\ SchemaInv'
      BY <1>14 DEF IInv, QuietInv, SchemaInv, StopWorker, Tell
    <2>3. OpenInv' /\ ShutInv'
      BY <1>14 DEF IInv, OpenInv, ShutInv, StopWorker, Tell
    <2> QED
      BY <2>1, <2>2, <2>3 DEF IInv
  <1>15. CASE AwaitWorker
    <2>1. TypeOK'
      BY <1>15 DEF IInv, TypeOK, AwaitWorker, Await
    <2>2. QuietInv' /\ SchemaInv'
      BY <1>15 DEF IInv, QuietInv, SchemaInv, AwaitWorker, Await
    <2>3. OpenInv' /\ ShutInv'
      BY <1>15 DEF IInv, OpenInv, ShutInv, AwaitWorker, Await
    <2> QED
      BY <2>1, <2>2, <2>3 DEF IInv
  <1>16. CASE Close("publisher", "closePublisher", "closePool")
    <2>1. TypeOK'
      BY <1>16 DEF IInv, TypeOK, Close
    <2>2. QuietInv' /\ SchemaInv'
      BY <1>16 DEF IInv, QuietInv, SchemaInv, Close
    <2>3. OpenInv' /\ ShutInv'
      BY <1>16 DEF IInv, TypeOK, OpenInv, ShutInv, Close
    <2> QED
      BY <2>1, <2>2, <2>3 DEF IInv
  <1>17. CASE ClosePool
    <2>1. TypeOK'
      BY <1>17 DEF IInv, TypeOK, ClosePool, RejectPool
    <2>2. QuietInv' /\ SchemaInv'
      BY <1>17 DEF IInv, QuietInv, SchemaInv, ClosePool, RejectPool
    <2>3. OpenInv' /\ ShutInv'
      BY <1>17 DEF IInv, TypeOK, OpenInv, ShutInv, ClosePool, RejectPool
    <2> QED
      BY <2>1, <2>2, <2>3 DEF IInv
  <1>18. CASE DrainPool
    <2>1. TypeOK'
      BY <1>18 DEF IInv, TypeOK, DrainPool
    <2>2. QuietInv' /\ SchemaInv'
      BY <1>18 DEF IInv, QuietInv, SchemaInv, DrainPool
    <2>3. OpenInv' /\ ShutInv'
      BY <1>18 DEF IInv, TypeOK, OpenInv, ShutInv, DrainPool
    <2> QED
      BY <2>1, <2>2, <2>3 DEF IInv
  <1>19. CASE UnwindPool
    <2>1. TypeOK'
      BY <1>19 DEF IInv, TypeOK, UnwindPool, RejectPool
    <2>2. QuietInv' /\ SchemaInv'
      BY <1>19 DEF IInv, QuietInv, SchemaInv, UnwindPool, RejectPool
    <2>3. OpenInv' /\ ShutInv'
      BY <1>19 DEF IInv, TypeOK, OpenInv, ShutInv, UnwindPool, RejectPool
    <2> QED
      BY <2>1, <2>2, <2>3 DEF IInv
  <1>20. CASE UnwindEnds
    BY <1>20, DieStep DEF IInv, TypeOK, UnwindEnds
  <1> QED
    BY <1>1, <1>2, <1>3, <1>4, <1>5, <1>6, <1>7, <1>8, <1>9, <1>10, <1>11, <1>12, <1>13,
       <1>14, <1>15, <1>16, <1>17, <1>18, <1>19, <1>20
       DEF ShutDown

-----------------------------------------------------------------------------
(* Servers, worker, clients and deployment *)

\* A step of a server goroutine (server.go of each server).
LEMMA ServerStep ==
    ASSUME IInv, NEW s \in Servers, Proceed(s) \/ Break(s)
    PROVE  IInv'
  <1>1. CASE Serve(s)
    BY <1>1, TaskStep DEF IInv, Serve
  <1>2. CASE ServeFails(s)
    BY <1>2, TaskStep DEF IInv, ServeFails
  <1>3. CASE ObserveStop(s)
    BY <1>3, TaskStep DEF IInv, ObserveStop
  <1>4. CASE Break(s)
    BY <1>4, TaskStep DEF IInv, Break
  <1> QED
    BY <1>1, <1>2, <1>3, <1>4 DEF Proceed

\* The HTTP master, the worker and the end of the wait (app.go:104-118).
LEMMA OtherStep ==
    ASSUME IInv, ChildEnds \/ Tick \/ Polled \/ ObserveStop("worker")
           \/ Interrupt \/ \E s \in Servers : Notified(s)
    PROVE  IInv'
  <1>1. CASE ChildEnds
    BY <1>1, TaskStep DEF IInv, ChildEnds
  <1>2. CASE Tick
    BY <1>2, TaskStep DEF IInv, Tick
  <1>3. CASE Polled
    BY <1>3, TaskStep DEF IInv, Polled
  <1>4. CASE ObserveStop("worker")
    BY <1>4, TaskStep DEF IInv, ObserveStop
  <1>5. CASE Interrupt
    <2>1. TypeOK'
      BY <1>5 DEF IInv, TypeOK, Interrupt
    <2>2. QuietInv' /\ SchemaInv'
      BY <1>5 DEF IInv, QuietInv, SchemaInv, Interrupt
    <2>3. OpenInv' /\ ShutInv'
      BY <1>5 DEF IInv, OpenInv, ShutInv, Interrupt
    <2> QED
      BY <2>1, <2>2, <2>3 DEF IInv
  <1>6. CASE \E s \in Servers : Notified(s)
    <2>1. TypeOK'
      BY <1>6 DEF IInv, TypeOK, Notified
    <2>2. QuietInv' /\ SchemaInv'
      BY <1>6 DEF IInv, QuietInv, SchemaInv, Notified
    <2>3. OpenInv' /\ ShutInv'
      BY <1>6 DEF IInv, OpenInv, ShutInv, Notified
    <2> QED
      BY <2>1, <2>2, <2>3 DEF IInv
  <1> QED
    BY <1>1, <1>2, <1>3, <1>4, <1>5, <1>6

\* A request or a call begins only while its server takes new ones.
LEMMA ClientStep ==
    ASSUME IInv, NEW x \in Requests \cup Calls, Begin(x) \/ End(x)
    PROVE  IInv'
  <1>1. CASE Begin(x)
    <2>1. TypeOK'
      BY <1>1 DEF IInv, TypeOK, Begin
    <2>2. QuietInv' /\ SchemaInv'
      BY <1>1 DEF IInv, QuietInv, SchemaInv, Begin, HoldsRequest, HoldsCall
    <2>3. OpenInv' /\ ShutInv'
      BY <1>1, ClientsAssumption DEF IInv, OpenInv, ShutInv, Begin, HoldsRequest, HoldsCall
    <2> QED
      BY <2>1, <2>2, <2>3 DEF IInv
  <1>2. CASE End(x)
    <2>1. TypeOK'
      BY <1>2 DEF IInv, TypeOK, End
    <2>2. QuietInv' /\ SchemaInv'
      BY <1>2 DEF IInv, QuietInv, SchemaInv, End
    <2>3. OpenInv' /\ ShutInv'
      BY <1>2 DEF IInv, OpenInv, ShutInv, End
    <2> QED
      BY <2>1, <2>2, <2>3 DEF IInv
  <1> QED
    BY <1>1, <1>2

\* The process is killed, or started anew.
LEMMA DeploymentStep ==
    ASSUME IInv, Kill \/ Restart
    PROVE  IInv'
  <1>1. CASE Kill
    BY <1>1, DieStep DEF IInv, TypeOK, Kill
  <1>2. CASE Restart
    <2>1. TypeOK'
      BY <1>2 DEF IInv, TypeOK, Restart, NoMemory
    <2>2. QuietInv' /\ SchemaInv'
      BY <1>2 DEF IInv, QuietInv, SchemaInv, Restart, NoMemory
    <2>3. OpenInv' /\ ShutInv'
      BY <1>2 DEF IInv, OpenInv, ShutInv, Restart, NoMemory
    <2> QED
      BY <2>1, <2>2, <2>3 DEF IInv
  <1> QED
    BY <1>1, <1>2

-----------------------------------------------------------------------------
(* The theorems *)

\* At every moment the place of Run tells what is open, what still runs and
\* whether the schema is migrated (app.go:32-151, migrate.go:23-72).
THEOREM Inductive == Spec => []IInv
  <1>1. Init => IInv
    BY ConfigsAssumption DEF Init, IInv, TypeOK, QuietInv, SchemaInv, OpenInv, ShutInv
  <1>2. IInv /\ [Next]_vars => IInv'
    <2> SUFFICES ASSUME IInv, [Next]_vars PROVE IInv'
      OBVIOUS
    <2>1. CASE Main
      BY <2>1, StartUpStep, ShutDownStep, OtherStep DEF Main
    <2>2. CASE \E s \in Servers : Proceed(s) \/ Break(s)
      BY <2>2, ServerStep
    <2>3. CASE Interrupt \/ ChildEnds \/ Tick \/ Polled \/ ObserveStop("worker")
      BY <2>3, OtherStep
    <2>4. CASE \E x \in Requests \cup Calls : Begin(x) \/ End(x)
      BY <2>4, ClientStep
    <2>5. CASE Kill \/ Restart
      BY <2>5, DeploymentStep
    <2>6. CASE UNCHANGED vars
      BY <2>6 DEF vars, IInv, TypeOK, QuietInv, SchemaInv, OpenInv, ShutInv
    <2> QED
      BY <2>1, <2>2, <2>3, <2>4, <2>5, <2>6 DEF Next
  <1> QED
    BY <1>1, <1>2, PTL DEF Spec

\* What runs has open what it needs: the worker its publisher and, but where
\* Shutdown panics, its pool, each server its own (app.go:32-36, 47-63, 120-151).
THEOREM WorkerHasResources == Spec => []UsersBeforeResources
  <1>1. IInv => UsersBeforeResources
    BY DEF IInv, QuietInv, OpenInv, ShutInv, UsersBeforeResources, Runs
  <1> QED
    BY <1>1, Inductive, PTL

\* When Run returns, every goroutine has ended and every connection is
\* closed (app.go:120-151).
THEOREM ReturnIsClean == Spec => []NothingLeftRunning
  <1>1. IInv => NothingLeftRunning
    <2> SUFFICES ASSUME IInv, pc = "returned" PROVE NothingLeftRunning
      BY DEF NothingLeftRunning
    <2>1. \A t \in Tasks : Gone(t) \/ (t = "worker" /\ task[t] = "none")
      BY DEF IInv, ShutInv
    <2>2. \A c \in Conns : conn[c] = "closed" \/ (c = "publisher" /\ conn[c] = "none")
      BY DEF IInv, ShutInv
    <2>3. clients = {}
      BY DEF IInv, TypeOK, ShutInv
    <2> QED
      BY <2>1, <2>2, <2>3 DEF NothingLeftRunning
  <1> QED
    BY <1>1, Inductive, PTL

\* With migrations enabled nothing is served on another schema
\* (migrate.go:58-63).
THEOREM MigratedFirst == Spec => []ServesMigrated
  <1>1. IInv => ServesMigrated
    BY DEF IInv, QuietInv, SchemaInv, ServesMigrated
  <1> QED
    BY <1>1, Inductive, PTL
=============================================================================
