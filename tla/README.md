# A verification of thiam-api

This directory holds TLA+ models of the concurrent and failure-prone parts of
thiam-api (Go), the TLC configurations that check them on small instances, and
TLAPS proofs of the most important results for every value of the constants.
Paths below are relative to `src/`.

## 1. Inventory of the system

| Component | State | Operations | Modelled in |
|---|---|---|---|
| Transactional outbox (`pkg/eventbus/worker.go`, `rabbitmq.go`, `internal/repo/persistent/outbox_postgres.go`) | table `outbox_events`, each worker's slice, stop channel, AMQP connection | Store, FetchUnpublished, Publish, MarkPublished, MarkFailed, Start, Stop, Close | `Outbox`, `EventHandoff` |
| Event subscriber (`pkg/eventbus/rabbitmq_subscriber.go`) and notification worker (`internal/usecase/notification/worker.go`) | durable queue, delivery channel, events channel, context | Subscribe's goroutine, processEvents, handleEvent, Close | `EventConsumer` |
| RabbitMQ RPC connection and server (`pkg/rabbitmq/rmq_rpc/connection.go`, `server/server.go`) | connection, channel and delivery pointers, stop and notify channels | AttemptConnect, handleMessages, serveCall, Notify, Shutdown | `RpcServer` |
| RabbitMQ RPC client (`pkg/rabbitmq/rmq_rpc/client/client.go`) | map of pending calls, connection, stop and notify channels | RemoteCall, serveCall, reconnect, Shutdown | `RpcClient`, `RemoteCalls` |
| NATS RPC client and server (`pkg/nats/nats_rpc`) | subscription, connection, stop and notify channels | RemoteCall, Start, handleMessage, Shutdown | `NatsRpc`, `RemoteCalls` |
| Notification service (`internal/usecase/notification/service.go`, preferences, push tokens, delivery log) | four tables, configured senders | SendInApp, SendPush, SendEmail, Update, Register, Unregister, UnregisterAll | `Notification` |
| In-app notifications (`notification_postgres.go`, `inapp.go`) | table `notifications` | Store, GetByUserID, MarkAsRead, MarkAllAsRead, GetUnreadCount | `NotificationInbox` |
| Log sampler (`pkg/logger/sampler.go`) | two atomic integers | ShouldLog | `Sampler` |
| Event bus from table to handler | the exchange and its binding | routing, Subscribe | `EventPipeline`, `EventDelivery` |
| Application life cycle (`cmd/app/main.go`, `internal/app/app.go`) | which connections are open, which goroutines run | construct, start, wait, shut down | `AppLifecycle` |
| HTTP and gRPC servers (`pkg/httpserver`, `pkg/grpcserver`) | listener, notify channel, requests and calls under way | Start, Notify, Shutdown | `AppLifecycle` |
| PostgreSQL pool and migrations (`pkg/postgres`, `internal/app/migrate.go`) | attempts left, `schema_migrations` | connect, migrate, Close | `AppLifecycle` |
| Email and push providers (`pkg/notify`) | the SMTP dialogue | Send | `Notification` |
| Routes, error mapping, configuration, logger, redaction, generated code | none to speak of | pure functions and I/O | not modelled |

How they interact. `app.Run` connects the outbox publisher and starts a polling
worker, starts the RPC servers, gRPC and HTTP, waits for a signal or for the
error channel of any server, and shuts them down one after the other. Use cases
put events into `outbox_events` in the database; the worker moves them to a
RabbitMQ topic exchange; a subscriber's goroutine moves them from a durable
queue through an unbuffered Go channel to the notification worker. The RPC
clients and servers talk through a fanout exchange or a NATS subject. The
notification service reads preferences and tokens, calls a provider and writes
the delivery log, all in separate statements without a transaction.

What is hard in it: several processes poll one table without row locks (the
replicas, and in prefork mode every child); publishing and marking are not
atomic; connections are redialled in place while others use them; acks follow
the hand-over but not the handling, and are on their way in any number; replies race timeouts; shutdown meets
goroutines in every place; the sampler's two atomic variables are not updated
together; decisions use preferences and tokens read earlier; a shutdown
may begin while servers still start or after several of them failed, and may panic half-way; events go through
three hands, each with its own way to lose or repeat them. `PROJECT.json` lists
these hazards with the lines where they bite.

What makes each part correct: the outbox hands every event over at least once,
with bounded repetitions and retries, and stops when told to; the consumer
loses nothing outside its handler and keeps the order; an RPC server
acknowledges only what it has answered, answers once, and never leaves a lost
connection unreported; an RPC client gets only answers to its own call, always
returns, and leaks nothing; the notification service honours opt-outs, sends to
the user's own tokens only, and keeps an honest log; paging shows all that was
there; the sampler bounds what passes; the event bus loses an event for known
causes only and repeats it a bounded number of times; the process serves only on a migrated
schema, notices a server's death, and closes everything after its users are gone.

## 2. Modules

A module's header comment says what it leaves out. Each operation of the code is an
action with the name of the function or of the branch it stands for; program
counters (`pc`, `at`, `gor`, `sub`, ...) say where a goroutine is between two
steps others can see: a statement on the database, an operation on a channel, a
connection or an atomic variable. Variables marked *history* exist for
the properties and are read by no action.

- **EventBus** declares the events that Outbox and EventConsumer share.
- **EventHandoff** is what the outbox promises: sets of accepted, handed,
  settled and abandoned events; only a handed event is settled, only an
  unsettled one is abandoned, and an abandoned one is never settled.
- **Outbox** is the table, the workers and their publishers. `batch[w]` is the
  rest of the slice, with the retry count each row had when it was read.
  `wire[w]` holds, in order, what Publish wrote to the connection and the broker does
  not have yet: the channel is not in confirm mode. A crash empties slice and wire; a
  dropped connection fails every later Publish of the process, because the
  publisher never dials again.
- **EventConsumer** has one step for the send on the unbuffered channel and the
  receive that takes it. Ack writes a frame to a socket: `acks` holds the deliveries whose
  acks the broker has not read (`AckArrives`), any number of them, for no prefetch limit is set.
  A lost connection puts back, in front of the queue, all the broker has read no ack for, what was
  handled meanwhile included; Close does not, for its own frame follows the acks.
  `Copies` says how often an event may reach the queue.
- **EventDelivery** is what the event bus promises from end to end: events are
  accepted, delivered once or more, or lost before they were delivered, and what is
  lost never turns up again.
- **EventPipeline** extends Outbox and EventConsumer, whose variables and actions it uses,
  and puts the exchange between them. `Route` is Outbox's `Deliver` together with
  EventConsumer's `Publish` if the queue is bound; the queue is bound by the first
  `Subscribe`, at any time. `CopiesSuffice` says that the bound `Copies`, which
  EventConsumer needs where it stands alone, allows for everything the outbox may publish.
- **AppLifecycle** is one process, started again and again. `pc` is the place in
  migrate.go's init or in Run; `task` has the goroutines of the four servers and the
  worker (a server that `failed` has its error in the notify channel), `conn` the pool,
  the publisher and the RPC connections. In prefork mode a process is the master or a
  child; a child's gRPC port is taken by its master. Closing the pool takes two steps: from the
  first on (`closing`) it gives out no connection, with the second the last one is back. When
  Shutdown of the RabbitMQ server panics, the deferred calls of Run are steps of their own,
  during which the worker may go on. When the process dies all this is gone and only
  `schema` stays.
- **RequestService** is what the RabbitMQ RPC server promises about a request: it is owed an
  answer until it is answered or lost, once and for good, and settled with the broker only
  when it was answered.
- **RpcServer** includes the goroutine of `app.Run`. The fields of `Connection` are
  overwritten by failed attempts too (`FailedFields`), and Shutdown uses what the
  last one left. The broker may close the channel alone (`CloseChannel`). A connection that is still open
  when its pointer is overwritten stays open (`leaked`), possibly with a queue in which requests
  wait for nobody; they count as lost.
- **RpcClient** has any number of RemoteCalls and server processes. A nil channel
  or a second close of `done` ends the process (`panic`). With `Attempts` 0 it starts with nil
  pointers, as the code does.
- **RemoteCalls** is what either RPC client promises a caller: a call returns once, with an
  error of the client or a status a server came to for this call, and nothing that comes
  later changes it.
- **NatsRpc** models what the code relies on of nats.go, which is external: one
  callback at a time for each subscription, a copy for each subscription,
  delivery at most once, the first reply wins.
- **Notification** has one step per statement and per exchange with a provider: the SMTP
  dialogue from dial to QUIT, and one request to FCM. `taken` is what a provider took the
  message for. `blind` notes that a call could not read preferences or all tokens,
  because the code goes on.
- **NotificationInbox** has a client paging by offset. `Pages` is the set of results
  ORDER BY created_at DESC LIMIT OFFSET may give; equal timestamps are in no order.
- **Sampler** has one step per atomic operation of ShouldLog and per reading of
  the clock, which is assumed not to go back.
- **MC** modules give the constants small sets; a `.cfg` file belongs to each run.
- **OutboxProofs**, **SamplerProofs**, **AppLifecycleProofs**, **RpcServerProofs**,
  **RpcClientProofs** and **NatsRpcProofs** hold the theorems about the modules they are named
  for, **NotificationProofs** those about Notification and NotificationInbox, and
  **EventPipelineProofs** those about EventConsumer and EventPipeline.

Operators introduced by "A faulty variant" are plausible mistakes in the definition
below them, such as a lost guard, an off-by-one, a swapped status or a missing buffer. No
specification uses them. Put in the place of the definition, each makes TLC
find a violation of one property: every property checked here can fail.

The type invariant is the first part of the inductive invariant of its module, which stands
at the module's end, after what it serves to prove: `TypeOK` and `IInv`, except where another
module extends this one and the names must differ: `CTypeOK` and `CInv` in EventConsumer,
`PTypeOK` and `PInv` in EventPipeline, `InboxTypeOK` and `InboxInv` in NotificationInbox, and
likewise `CSpec`, `PSpec` and `InboxSpec`.

## 3. Runs

| Run | Instance | Shows |
|---|---|---|
| Outbox | 2 workers, 2 events, slice of 2, 2 retries, 2 disruptions | `RetryBound`: the limit is tested on the count read and incremented in the row, so workers overshoot it, by less than one failure each. `DuplicatesBounded`: an event is published at most once per worker plus once per disruption. `RefinesHandoff`: at-least-once hand-off. `StopTerminates`, `EventuallySettled` |
| Outbox_starvation | 1 worker, slice of 1, 1 retry | violation, see section 6 |
| RpcServer | 2 requests, 1 of them with a handler, 2 attempts, 2 lost connections or channels | `RefinesRequestService`: each request is answered or lost, once, and what is acknowledged was answered; and under fairness `ShutdownReturns` and `LossHandled` |
| RpcServer_panic | the same | violation, see section 6 |
| RpcClient | 2 calls, 1 server, 2 attempts, 1 lost connection | `RefinesRemoteCalls`: a call returns once, with an error or what a server answered to it. `NoPendingLeak`; `PanicsHaveCauses`: a nil pointer is met only until an attempt to reconnect succeeds (or if none was configured), and with one server no reply closes `done` twice. `CallsReturn`; `ShutdownCompletes`: Shutdown returns, except while the goroutine is stuck in the send on notify |
| EventConsumer | 2 events, each published twice, 2 losses | `NothingLostOutsideHandler`; `RepeatsNeedRestarts`: a copy is handled at most once in each life of the process, but in each. `KeepsOrder`, `HandledUnlessDisturbed`; `CancelEndsBoth`: cancelling ends both goroutines, except for a subscriber left in its send |
| Sampler | 3 goroutines, rate 1, interval 1, 5 calls, 5 ticks | `LongRunRate`: over any time what passes keeps to the rate. `AllowedBounded`, `WindowBurst`: for the windows begun, and within one |
| NatsRpc | 2 calls, 1 of them registered, 2 servers | `RefinesRemoteCalls`: the same promise over NATS. `ShutdownEndsQuiet` |
| Notification | 1 call of any kind, 2 users, 1 device, 2 tokens, 2 recipients of an email, 3 changes | `OptOutHonoured`, `TokensWereLive`, `DropsAreExcused`, `AuditAgrees`; `MailReachesAll`: an email reaches all or none, and all if nil was returned |
| NotificationInbox | 3 notifications, 3 timestamps, 2 users, pages of 1 | `PagingMissesNothing`, `UnreadAreNew` |
| EventPipeline | 1 publishing process, 2 events, slice of 2, 1 retry, 1 disruption, 1 loss | `LossHasCause`: where an event may be lost, and nowhere else. `RepeatsMultiply`: how often a handler is given it. `RefinesDelivery`: the composition implements EventDelivery. `EventuallyHandled` |
| AppLifecycle | 1 request, 1 gRPC call, 2 attempts, 3 configurations | `UsersBeforeResources`, `NothingLeftRunning`, `ServesMigrated`, `DeathNoticed`, `OnlyTheSelectWaits` |

Bounds. They bound what the environment may do (losses, crashes, changes,
ticks), never what the code does, except `MaxCalls` of Sampler. Why they are enough:

- *Outbox*: two workers give every race on a row, two events give the order and
  the place in a slice, two disruptions a failure during the recovery from
  another; the limit of 2 is overshot. The safety results are proved for all values.
- *RpcServer*: two attempts give a failed one followed by each outcome, and an open connection
  overwritten; two losses a loss after a reconnect.
- *RpcClient*: two calls suffice for mistaken identity; one loss leads to the
  reconnecting and the given-up state, which are all there are. The second close of `done`
  takes two servers, with which the instance is too large; one call and two servers were
  checked on the way to the proof, which holds for any number; so was a client told to make no
  attempt.
- *EventConsumer*: four deliveries put one in the handler, one held, one behind them and one
  whose ack is on its way; two copies of an event with both acks on their way come back with one
  restart. With two losses the second hits what the first put back.
- *Sampler*: three goroutines give a late zeroing that hits a window begun by
  another while a third counts; proved for any number.
- *NatsRpc*: two servers give two answers to a call and two calls a busy callback.
- *Notification*: calls share only the tables, which the changes already alter at
  every point, so one call meets every order; two users and two tokens on one
  device let a token change hands; two recipients give one refused after one accepted.
- *NotificationInbox*: pages of one row make every arrival fall between pages.
- *EventPipeline*: one process with two events gives a frame behind another and a
  slice half done; one failure on each side gives every pair of them. What several
  workers do to each other is in Outbox, and what two losses do to each other in
  EventConsumer.
- *AppLifecycle*: requests and calls only keep a resource in use, for which one is
  enough; two attempts give one that is followed by each outcome; restarts are unbounded. The
  three configurations are a single process with migrations and outbox, a prefork master
  without either, and a prefork child with an outbox.

Deadlock is checked in Outbox and AppLifecycle, where a dead process can be started
again, and in NotificationInbox, where marking always can go on. It is off where the modelled
system may stop: after a shutdown or a panic, when the bounds are used up, or
when all events are handled.

Fairness. Goroutines that can run do run; timers fire; the ticker ticks; Go's
select chooses at random, so a channel that stays ready is not passed over for
ever, which is strong fairness of `ObserveStop` and `Reconnect`; handlers return,
which is what their contexts are for; in Outbox the deployment starts a process
that ended. No fairness is assumed of clients, losses, successful reconnects,
provider calls, cancellation, or the network outside the connection the broker
pushes on (`Push` in EventConsumer) and the frames on an open connection (`Deliver` in
Outbox). EventPipeline takes over the fairness of its two parts, and assumes nothing of
`Subscribe`. In AppLifecycle the main goroutine and the servers' goroutines go on, HTTP requests
end (`dbHealth` has a timeout), and gRPC calls need not. `EventuallySettled` is stated for a slice
that covers the table; Outbox_starvation shows why.

## 4. Proofs

`OutboxProofs` holds, for any finite set of workers and any events, slice size,
retry limit and number of disruptions:

- `Inductive`: `Spec => []IInv`, with `IInv == TypeOK /\ BatchInv /\ RetryInv /\
  CopiesInv /\ HandedInv`. The bounds are not inductive as they stand. For
  `RetryBound`, a worker whose slice holds an event with a count below the limit
  may add one more failure: `RetryInv` reserves one for each such worker
  (`Holders`), and as the count of a slice may only be too low (`BatchInv`), a row
  at the limit gains no new holder. For `DuplicatesBounded`, `CopiesInv` counts the workers
  between Publish and MarkPublished (`Marking`) and those still to come
  (`Waiting`); a worker that leaves without marking costs a disruption.
- `TypeCorrect`, `RetryBounded`, `DuplicatesAreBounded`: the named invariants.
- `Refinement`: `Spec => RefinesHandoff`, by a step simulation that uses `HandedInv`
  (published events were handed over) and `BatchInv` (what is abandoned stays
  so, for no slice can come to hold an older count).

`SamplerProofs` holds, for any finite set of goroutines, any rate and any interval:

- `Inductive`, with `IInv == TypeOK /\ SwapInv /\ BudgetInv /\ BurstInv /\ PaceInv`. Between a
  CompareAndSwap and its Store of zero the old counter is still in use;
  `BudgetInv` and `BurstInv` let each goroutine in between (`Zeroing`) reserve one
  rate, over the run and within a window. `PaceInv`: each window moves `lastReset` on by more than
  an interval, to a time that has been, so there are no more windows than intervals.
- `TypeCorrect`, `AllowedIsBounded`, `BurstIsBounded`; `RateIsKept` follows from `BudgetInv` and
  `PaceInv` together, although two windows may begin at one moment.

`AppLifecycleProofs` holds, for any requests, calls, attempts and any set of
configurations:

- `Inductive`: the place of Run (`pc`) tells what is open, what still runs and whether the
  schema is migrated. The sets `AfterCloseNats`, `AfterAwaitHttp` and so on order the places;
  `ShutInv` says for each step of the shutdown what it leaves behind for good, and
  `OpenInv` what stays open until then. Without `QuietInv`, a process that died and is
  started again could inherit a goroutine. The pool is no longer open where `Close` waits, also on
  the way of a panic, and there `UsersBeforeResources` claims nothing of it.
- `WorkerHasResources`, `ReturnIsClean`, `MigratedFirst` follow from single conjuncts.

`EventPipelineProofs` holds first, about EventConsumer, for any events and any bounds on
copies and losses:

- `ConsumerInductive`. The two counting properties are not inductive, for they leave out what
  is under way: `LossInv` adds the copies that acks will take off the broker (`Settling`: those
  whose acks it has not read, and the one about to be acknowledged). `RepeatInv` bounds, on an open
  connection, what has been handled together with what the broker still has, but for those acks;
  on a closed one, where nothing new comes, what has been handled and the copy left in the
  subscriber's send (`BeingSent`). A restart adds the copies at the broker, which by `OrderInv` are
  at most those published, once more.
- `EveryEndHasACause`: the safety side of `CancelEndsBoth` and `HandledUnlessDisturbed`. Until
  somebody cancels, the consumer ends only with its connection, and no goroutine is left in its send.
- `NothingIsLost`, `RepeatsAreBounded` and `OrderIsKept`. How often an event occurs in a
  sequence is counted by positions; `TimesTail` maps those of a tail to those of the whole.

Then, about EventPipeline, for any finite sets of events and workers and any number of failures:

- `PartsKept`: `PSpec => Spec /\ CSpec`. A step of the whole is a step of each part or leaves
  it alone, so every safety theorem about Outbox or EventConsumer holds of the whole.
- `PipelineInductive`, with `PInv == PTypeOK /\ IInv /\ CInv /\ CountedInv /\ TraceInv /\
  SourceInv /\ HeldInv`. The invariants of the parts say nothing of what is between them.
  `CountedInv`: the copies published to the queue and those on the connections (`OnWires`,
  counted by place) are no more than Publish made. `TraceInv`: what was handed over is on a
  connection, has reached the queue, or is in one of the histories of losses. `SourceInv`: only
  rows of the table are under way. `HeldInv`: what the subscriber is about to send is still
  unacknowledged at the broker, so that no hand-over revives an event that is gone.
- `LossesHaveCauses`: an event that is `Gone` was handed over (`HandedInv`), so by `TraceInv`
  it was lost on the way or reached the queue; there, by `LossInv`, only a handler that was cut
  off can have used it up.
- `RepeatsDoMultiply`: `RepeatsNeedRestarts`, `CountedInv` and `DuplicatesBounded` in a row.
- `CopiesNeverBind`: the exchange can always route the next frame, so that the composition is
  not kept from a step of the code by EventConsumer's bound.
- `DeliveryRefinement`: `PSpec => RefinesDelivery`. The main lemmas are `BringingShrinks` (no
  poll and no move along a slice brings a published event back), `FramesFromBringing` (a frame
  is written only from such a slice) and `GoneStays`.

`RpcServerProofs` holds, for any requests, attempts and losses:

- `Inductive` and `EachAnsweredOnce`. `PlaceInv` says that a request is in one place only;
  `AckInv` is why an ack implies an answer: if the channel is open at the Ack, it was open when
  the reply was published, for only `connect` opens one and the goroutine does not reconnect
  in between.
- `Refinement`: `Spec => RefinesRequestService`. The requests owed an answer (`Open`) are those
  in the queue and the one being served, so `Receive` is a stutter, a reply on a closed channel
  and a lost connection both lose requests, and an ack that fails changes nothing.
- The safety side of `LossHandled`, `ShutdownReturns` and the violated `ExitsCleanly`, from
  `LifeInv`: `EndsAreKnown` (the goroutine does not end unless Run asked for it or can read
  why), `NothingIsHeld` (after Shutdown the server's queue is gone, no request is in service, its
  connection is closed, and if another was left open, a redial overwrote it after a failed attempt
  or a closed channel: `WasteInv`) and
  `PanicHasCause` (the nil pointer comes from a reconnect that was given up, or from a server
  told to make no attempt).

`RpcClientProofs` holds, for any calls, servers, attempts and losses:

- `Inductive`, `OutcomesAreAnswers`, `NoPendingCallLeaks` and `Refinement`: `Spec =>
  RefinesRemoteCalls`. `AnswerInv` follows an answer from the server through the queue and the
  `pendingCall` to the caller; `OnceInv` says that a call under way has no result yet.
- `EveryPanicHasACause`. `NilInv` says where a nil pointer can still be. `CopyInv` says that a
  server has one copy of a request and answers it once, and that a call that is done has used
  up an answer; the one that closes `done` again is therefore another server's.

`NatsRpcProofs` holds, for any calls, servers and handlers, `Inductive`, `OutcomesAreAnswers`
and `Refinement`, along the same way: `StatusInv` for the callback, `RepliesInv` for the
inboxes. With the two refinements the clients may be exchanged as far as a caller can see.

`NotificationProofs` holds, for any calls, users, devices, tokens, addresses and number of
changes, `Inductive`, `OptOutsAreHonoured`, `TokensAreLive`, `EveryDropHasAnExcuse`,
`LogAgrees` and `MailIsAllOrNothing`. `PlaceInv` ties a call's place to its channel;
`WitnessInv` says that the histories (`optedOut`, `live`, `silenced`) keep up with the tables
while a call runs, so that what a statement reads is something a history knows of;
`MailInv` says how far the dialogue has come at each place.

It also holds, about NotificationInbox, for any users, notifications, timestamps and page size:

- `InboxInductive` and `PagingShowsAll`. A page is cut from a list in the order of
  `created_at`, into which new rows may be stored at the front and between pages. `InboxInv`
  says that a row of the list as it was at the start which no page has shown yet has at least
  as many rows before it as the client's offset; rows that come in only move it back, so the
  next page starts no later than there. No sequence is needed: the place of a row is the
  number of rows that are newer.
- `UnreadCameLater`.

The assumptions are the named ASSUMEs of the modules, which TLC
evaluates on every run. The invariants were checked with TLC before they were proved.

Every safety property of the runs is proved. Only model-checked: liveness, which is out
of the prover's reach (`StopTerminates`, `EventuallySettled`, `ShutdownReturns`, `LossHandled`,
`CallsReturn`, `ShutdownCompletes`, `HandledUnlessDisturbed`, `CancelEndsBoth`,
`ShutdownEndsQuiet`, `EventuallyHandled`, `DeathNoticed`, `OnlyTheSelectWaits`).

## 5. Not modelled

Payloads, JSON, routing keys, SQL text and logging, on which no property
depends. Quiet hours and the SMS flag, which are stored and read by no code. What FCM
answers for each token, which Send drops. A negative slice size, on which FetchUnpublished
panics (`outbox_postgres.go:73`). Rows of the delivery log beyond one per call and status, for a call writes
one at most. A clock that goes back. The state of the NATS connection in AppLifecycle: no
code reacts to it. A process that dies between a provider's answer and the delivery log. HTTP routing and error
mapping, configuration, redaction: stateless. The authentication tables, which no Go
code uses yet. A rolled-back use-case transaction is a Store that does not happen.

## 6. Where code and documents disagree

Shown by runs that expect a violation:

1. *Outbox_starvation*: FetchUnpublished returns rows that have used up their
   retries, oldest first; once a slice's worth of them exists, later events are
   never tried.
2. *RpcServer_panic*: after a redial that Dial refused, `Connection.Connection` is
   nil and Shutdown calls Close on it.

Seen while modelling, allowed for by the properties and without a run of their own:

- `published_at` is set when the frames were handed to the connection; if it then breaks, the
  broker never gets them (`rabbitmq.go:65`). An event that reaches the exchange before a
  queue is bound is dropped there (`rabbitmq.go:63`). `docs/EVENT_DRIVEN.md:50` speaks of
  guaranteed delivery; `LossHasCause` is what is kept.
- After a failed reconnect the RPC client's goroutine blocks on the unbuffered notify
  channel, and Shutdown waits for it for ever (`client.go:195`); `ShutdownCompletes` excuses it.
- A consumer cancelled at the wrong moment leaves the subscriber's goroutine in its send
  (`rabbitmq_subscriber.go:110`); `CancelEndsBoth` excuses it.
- `docs/ARCHITECTURE.md:261` says all servers implement proper lifecycle management. A call
  that a client keeps open holds up the whole shutdown (`grpcserver/server.go:90`), and so do
  an HTTP listener opened after ShutdownWithTimeout (`httpserver/server.go:101`) and, in a prefork
  master, a Listen that returns only when a child ends (`httpserver/server.go:109`);
  `OnlyTheSelectWaits` excuses these three. A child whose gRPC listener failed may stay in the second
  of them and go on serving.
- When Shutdown of the RabbitMQ server panics, the deferred `cancel` (`app.go:97`) and `pg.Close`
  (`app.go:36`) run while the worker still does: it may publish an event and find the pool closed
  when it marks it. `UsersBeforeResources` excuses the pool there.
- A redial overwrites `Connection` without closing it (`connection.go:59`). After an attempt that
  failed after its Dial, or a channel closed alone, an open connection is forgotten until the process
  ends, perhaps with an exclusive queue that takes requests; Shutdown does not close it.
- In prefork mode every child finds the gRPC port in use and leaves with status 0; fiber's
  Listen then returns nil in the master, which reports nothing and stays without an HTTP
  server (`httpserver/server.go:77`). `DeathNoticed` covers the children and
  excuses the master.
- With no migration attempt configured Up is called on nil and panics (`migrate.go:58`).
- An error of QUIT turns a mail the server has taken into a failed one (`smtp.go:151`).
- With two server processes on the fanout exchange both answer a call, and if
  the second reply comes while the call is registered the client closes `done`
  twice and panics (`client.go:242`); `README.md:266` speaks of one queue.
- A subscriber that loses its connection ends without a word, and so does the worker
  (`rabbitmq_subscriber.go:106`), although the comment at line 116 counts on redelivery.
- "allows up to rate log entries per interval" (`sampler.go:18`): a goroutine may begin a window
  with a time it read long ago, and the next may follow at the same moment. `WindowBurst` is what the
  code keeps in a window, and `LongRunRate` in the long run.
- "Consumers must handle duplicate events" (`docs/EVENT_DRIVEN.md:306`): how many is said nowhere. All the
  events whose acks were on their way come back with one crash, so the repetitions of the two sides
  multiply (`RepeatsMultiply`).
- Once subscribed, the NATS server waits for its stop channel only: when nats.go has given up
  reconnecting nobody is told (`nats_rpc/server/server.go:97`).
- The SMTP timeout and the caller's context cover the dial only; a server that falls silent
  later holds SendEmail for ever (`smtp.go:91`).
- When another user signs in on a device, the first user's row keeps the token
  (`push_token_postgres.go:37`): both users' messages go there. Nothing says that a token has one owner.
- The NATS server's Shutdown does not wait for the request in its callback
  (`server.go:117`; `docs/ARCHITECTURE.md:265` says it does).
- GetByUserID in the push token and notification repositories does not ask
  `rows.Err`, so a result cut short passes for a full one.

## 7. Plan

Done: Outbox, RpcServer, RpcClient, EventConsumer, Sampler, NatsRpc, Notification with its
providers, NotificationInbox, AppLifecycle and EventPipeline, with the abstract specifications
EventHandoff, EventDelivery, RemoteCalls and RequestService; all safety properties of the runs
proved.

Left, in this order:

1. The safety side of the other liveness properties: where in Outbox a worker may be when Stop
   waits for it, and in AppLifecycle that what Run waits for is in one of the excused places.
2. RpcClient and RpcServer on one exchange: what a caller sees of a server that reconnects.
3. Quiet hours and the handlers of the notification worker, once code has them.
