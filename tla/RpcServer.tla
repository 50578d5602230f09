----------------------------- MODULE RpcServer ------------------------------
(***************************************************************************)
(* The RabbitMQ RPC server (pkg/rabbitmq/rmq_rpc/server/server.go) with    *)
(* its connection (connection.go) and the main goroutine of app.Run that   *)
(* starts it, waits for a signal or for Notify, and shuts it down.         *)
(*                                                                         *)
(* The queue of the server is exclusive: it lives and dies with the AMQP   *)
(* connection, and requests published while no queue is bound are lost.    *)
(***************************************************************************)
EXTENDS Naturals, FiniteSets

CONSTANTS
    Requests,     \* calls that clients may publish, one message each
    Registered,   \* requests whose Type is a key of the router
    NoRequest,    \* no call is being served
    Attempts,     \* Connection.Attempts
    MaxDrops      \* bound on the number of lost connections and channels

ASSUME RequestsAssumption == IsFiniteSet(Requests) /\ NoRequest \notin Requests
ASSUME RegisteredAssumption == Registered \subseteq Requests
ASSUME AttemptsAssumption == Attempts \in Nat
ASSUME MaxDropsAssumption == MaxDrops \in Nat

VARIABLES
    run,          \* the main goroutine, app.Run
    gor,          \* the goroutine of handleMessages
    stop,         \* the stop channel is closed
    notify,       \* an error is buffered in the notify channel
    left,         \* attempts left in AttemptConnect
    attemptErr,   \* the last attempt failed
    connection,   \* the pointer Connection.Connection and what it points to
    channel,      \* likewise Connection.Channel
    delivery,     \* the Go channel Connection.Delivery
    wasted,       \* history: a connection was left open without a consumer
    leaked,       \* history: the pointer to an open connection was overwritten
    queue,        \* requests waiting in the server's queue
    current,      \* the request in serveCall
    arrived,      \* requests clients have published
    replies,      \* history: replies the broker took, <<request, status>>
    acked,        \* requests acknowledged to the broker
    drops         \* number of lost connections and channels

conn == <<left, attemptErr, connection, channel, delivery, wasted, leaked>>
calls == <<queue, current, arrived, replies, acked>>
vars == <<run, gor, stop, notify, conn, calls, drops>>

Success == "success"
ErrBadHandler == "unregistered handler"
ErrInternalServer == "internal server error"

-----------------------------------------------------------------------------
(* Connection.AttemptConnect, run by New and by reconnect *)

(***************************************************************************)
(* c.Connection is overwritten and never closed first.  A connection that  *)
(* is still open stays so until the process ends, and so may its exclusive *)
(* queue: what is published into that one nobody will receive, and it      *)
(* counts as lost here.                                                    *)
(***************************************************************************)
Overwrite == leaked' = (leaked \/ connection = "open")

AttemptOk ==
    /\ gor = "connect" /\ left > 0
    /\ Overwrite
    /\ connection' = "open" /\ channel' = "open" /\ delivery' = "open"
    /\ attemptErr' = FALSE
    /\ left' = 0
    /\ UNCHANGED <<run, gor, stop, notify, wasted, calls, drops>>

(***************************************************************************)
(* A failed attempt has already overwritten the fields it got to: Dial     *)
(* returns nil when the broker refuses the connection and a closed         *)
(* connection when the handshake fails; after Dial the new connection      *)
(* stays open, with a nil channel or with one that has no consumer; a      *)
(* Consume that fails returns a nil Delivery.                              *)
(***************************************************************************)
FailedFields ==
    {<<"nil", channel, delivery>>, <<"closed", channel, delivery>>,
     <<"open", "nil", delivery>>}
    \cup {"open"} \X {"open", "closed"} \X {delivery, "nil"}

AttemptFails ==
    /\ gor = "connect" /\ left > 0
    /\ Overwrite
    /\ \E fields \in FailedFields :
          connection' = fields[1] /\ channel' = fields[2] /\ delivery' = fields[3]
    /\ wasted' = (wasted \/ connection' = "open")
    /\ attemptErr' = TRUE
    /\ left' = left - 1
    /\ UNCHANGED <<run, gor, stop, notify, calls, drops>>

\* AttemptConnect returns; with no attempt to make it returns nil at once.
AttemptConnectOk ==
    /\ gor = "connect" /\ left = 0 /\ ~attemptErr
    /\ gor' = "select"
    /\ run' = IF run = "starting" THEN "select" ELSE run
    /\ UNCHANGED <<stop, notify, conn, calls, drops>>

\* New fails: Fatal ends the process.
StartupFails ==
    /\ gor = "connect" /\ left = 0 /\ attemptErr /\ run = "starting"
    /\ run' = "exited"
    /\ gor' = "returned"
    /\ UNCHANGED <<stop, notify, conn, calls, drops>>

\* A faulty variant: notify has no buffer, so Run must be there to receive.
ReconnectFailsUnbuffered ==
    /\ gor = "connect" /\ left = 0 /\ attemptErr /\ run = "select"
    /\ notify' = TRUE
    /\ gor' = "returned"
    /\ UNCHANGED <<run, stop, conn, calls, drops>>

\* A faulty variant: the goroutine ends without a word.
ReconnectFailsSilently ==
    /\ gor = "connect" /\ left = 0 /\ attemptErr /\ run # "starting"
    /\ gor' = "returned"
    /\ UNCHANGED <<run, stop, notify, conn, calls, drops>>

\* reconnect fails: the error goes into the buffered channel, and the
\* goroutine ends.
ReconnectFails ==
    /\ gor = "connect" /\ left = 0 /\ attemptErr /\ run # "starting"
    /\ notify' = TRUE
    /\ gor' = "returned"
    /\ UNCHANGED <<run, stop, conn, calls, drops>>

-----------------------------------------------------------------------------
(* handleMessages and serveCall *)

ObserveStop ==
    /\ gor = "select" /\ stop
    /\ gor' = "returned"
    /\ UNCHANGED <<run, stop, notify, conn, calls, drops>>

Reconnect ==
    /\ gor = "select" /\ delivery = "closed"
    /\ gor' = "connect"
    /\ left' = Attempts
    /\ attemptErr' = FALSE
    /\ UNCHANGED <<run, stop, notify, connection, channel, delivery, wasted, leaked>>
    /\ UNCHANGED <<calls, drops>>

Receive ==
    /\ gor = "select" /\ delivery = "open"
    /\ \E r \in queue : /\ current' = r
                        /\ queue' = queue \ {r}
    /\ gor' = "serve"
    /\ UNCHANGED <<run, stop, notify, conn, arrived, replies, acked, drops>>

\* What serveCall may answer; a response that does not marshal is a success.
StatusOf(r) == IF r \in Registered THEN {Success, ErrInternalServer} ELSE {ErrBadHandler}

\* A faulty variant: no return after the reply to a handler's error.
ReplyGoingOn ==
    /\ gor = "serve"
    /\ \E status \in StatusOf(current) :
          replies' = IF channel = "open"
                     THEN replies \cup {<<current, status>>}
                                  \cup ({current} \cap Registered) \X {Success}
                     ELSE replies
    /\ gor' = "ack"
    /\ UNCHANGED <<run, stop, notify, conn, queue, current, arrived, acked, drops>>

\* The handler has returned and the reply is published, or lost with the channel.
Reply ==
    /\ gor = "serve"
    /\ \E status \in StatusOf(current) :
          replies' = IF channel = "open" THEN replies \cup {<<current, status>>}
                                         ELSE replies
    /\ gor' = "ack"
    /\ UNCHANGED <<run, stop, notify, conn, queue, current, arrived, acked, drops>>

\* The deferred Ack; it fails on a closed channel.
Ack ==
    /\ gor = "ack"
    /\ acked' = IF channel = "open" THEN acked \cup {current} ELSE acked
    /\ current' = NoRequest
    /\ gor' = "select"
    /\ UNCHANGED <<run, stop, notify, conn, queue, arrived, replies, drops>>

-----------------------------------------------------------------------------
(* app.Run and Server.Shutdown *)

\* A signal, another server's failure, or the error of this server.
Shutdown ==
    /\ run = "select"
    /\ stop' = TRUE
    /\ notify' \in {notify, FALSE}
    /\ run' = "wait"
    /\ UNCHANGED <<gor, conn, calls, drops>>

\* Run receives the error of this server, so it does not miss it for ever.
NotifyReceived == notify /\ Shutdown

\* eg.Wait has returned: close the connection.
CloseConnection ==
    /\ run = "wait" /\ gor = "returned" /\ connection # "nil"
    /\ connection' = "closed"
    /\ channel' = "closed"
    /\ delivery' = IF delivery = "open" THEN "closed" ELSE delivery
    /\ queue' = {}
    /\ run' = "stopped"
    /\ UNCHANGED <<gor, stop, notify, left, attemptErr, wasted, leaked, drops>>
    /\ UNCHANGED <<current, arrived, replies, acked>>

\* Close on the nil pointer a failed Dial left behind: the process panics.
ClosePanics ==
    /\ run = "wait" /\ gor = "returned" /\ connection = "nil"
    /\ run' = "panicked"
    /\ UNCHANGED <<gor, stop, notify, conn, calls, drops>>

-----------------------------------------------------------------------------
(* The broker and the clients *)

\* Any client publishes a request into the exchange.
Arrive(r) ==
    /\ r \notin arrived
    /\ arrived' = arrived \cup {r}
    /\ queue' = IF delivery = "open" THEN queue \cup {r} ELSE queue
    /\ UNCHANGED <<run, gor, stop, notify, conn, current, replies, acked, drops>>

\* The connection breaks: channel, consumer and queue go with it.
Drop ==
    /\ delivery = "open" /\ run \in {"select", "wait"} /\ drops < MaxDrops
    /\ drops' = drops + 1
    /\ connection' = "closed"
    /\ channel' = "closed"
    /\ delivery' = "closed"
    /\ queue' = {}
    /\ UNCHANGED <<run, gor, stop, notify, left, attemptErr, wasted, leaked>>
    /\ UNCHANGED <<current, arrived, replies, acked>>

(***************************************************************************)
(* The broker closes the channel alone, as it does after a reply to an     *)
(* exchange that is not there.  The connection stays open, and so does its *)
(* exclusive queue, without a consumer.                                    *)
(***************************************************************************)
CloseChannel ==
    /\ delivery = "open" /\ run \in {"select", "wait"} /\ drops < MaxDrops
    /\ drops' = drops + 1
    /\ channel' = "closed"
    /\ delivery' = "closed"
    /\ queue' = {}
    /\ wasted' = TRUE
    /\ UNCHANGED <<run, gor, stop, notify, left, attemptErr, connection, leaked>>
    /\ UNCHANGED <<current, arrived, replies, acked>>

-----------------------------------------------------------------------------
Init ==
    /\ run = "starting" /\ gor = "connect"
    /\ stop = FALSE /\ notify = FALSE
    /\ left = Attempts /\ attemptErr = FALSE
    /\ connection = "nil" /\ channel = "nil" /\ delivery = "nil"
    /\ wasted = FALSE /\ leaked = FALSE
    /\ queue = {} /\ current = NoRequest /\ arrived = {}
    /\ replies = {} /\ acked = {}
    /\ drops = 0

AttemptConnect ==
    AttemptOk \/ AttemptFails \/ AttemptConnectOk \/ StartupFails \/ ReconnectFails

Close == CloseConnection \/ ClosePanics

Next ==
    \/ AttemptConnect
    \/ ObserveStop \/ Reconnect \/ Receive \/ Reply \/ Ack
    \/ Shutdown \/ Close
    \/ \E r \in Requests : Arrive(r)
    \/ Drop \/ CloseChannel

(***************************************************************************)
(* Fairness.  The goroutines keep running; select picks at random, so a    *)
(* closed stop or delivery channel is seen; Run takes the error out of     *)
(* notify.  Signals, requests and lost connections need not come, and an   *)
(* attempt may fail every time.                                            *)
(***************************************************************************)
Fairness ==
    /\ WF_vars(AttemptConnect)
    /\ SF_vars(ObserveStop) /\ SF_vars(Reconnect)
    /\ WF_vars(Receive) /\ WF_vars(Reply) /\ WF_vars(Ack)
    /\ WF_vars(NotifyReceived) /\ WF_vars(Close)

Spec == Init /\ [][Next]_vars

FairSpec == Spec /\ Fairness

-----------------------------------------------------------------------------
(* Properties *)

Statuses == {Success, ErrBadHandler, ErrInternalServer}

\* The variables keep their types.
TypeOK ==
    /\ run \in {"starting", "select", "wait", "stopped", "panicked", "exited"}
    /\ gor \in {"connect", "select", "serve", "ack", "returned"}
    /\ stop \in BOOLEAN /\ notify \in BOOLEAN
    /\ left \in 0..Attempts /\ attemptErr \in BOOLEAN
    /\ connection \in {"nil", "open", "closed"}
    /\ channel \in {"nil", "open", "closed"}
    /\ delivery \in {"nil", "open", "closed"}
    /\ wasted \in BOOLEAN /\ leaked \in BOOLEAN
    /\ queue \in SUBSET Requests
    /\ current \in Requests \cup {NoRequest}
    /\ arrived \in SUBSET Requests
    /\ replies \in SUBSET (Requests \X Statuses)
    /\ acked \in SUBSET Requests
    /\ drops \in 0..MaxDrops

(***************************************************************************)
(* A request is acknowledged only after its reply reached the broker       *)
(* (server.go:153-185): wherever the connection breaks between publishing  *)
(* and acknowledging, no request is consumed without an answer.  None is   *)
(* answered twice, for the exclusive queue it was in never redelivers it   *)
(* (connection.go:82-89).                                                  *)
(***************************************************************************)
AnsweredOnce ==
    /\ \A r \in acked : \E status \in Statuses : <<r, status>> \in replies
    /\ \A a, b \in replies : a[1] = b[1] => a = b

\* The requests the server still owes an answer: those waiting, and the one
\* whose handler runs.
Open == queue \cup {r \in {current} : gor = "serve"}

Service == INSTANCE RequestService
           WITH asked <- arrived, open <- Open, answers <- replies, settled <- acked

(***************************************************************************)
(* Step by step, the server does what RequestService allows                *)
(* (server.go:127-203, connection.go:74-109): a request leaves the ones    *)
(* owed once, answered or lost, and is never owed again, whatever the      *)
(* connection does between receiving it, answering it and the Ack.         *)
(***************************************************************************)
RefinesRequestService == Service!SSpec

(***************************************************************************)
(* Shutdown returns (server.go:100-125), also when it is called while the  *)
(* server is reconnecting or has given up: the buffered notify channel     *)
(* never holds the goroutine back.                                         *)
(***************************************************************************)
ShutdownReturns == stop ~> run \in {"stopped", "panicked"}

(***************************************************************************)
(* A lost connection is not left alone (server.go:127-151, README          *)
(* "Reconnect on the loss of connection"): the server is connected again,  *)
(* or it gives up and the error makes Run shut the application down.       *)
(***************************************************************************)
LossHandled == delivery = "closed" ~> delivery = "open" \/ stop

\* docs/ARCHITECTURE.md: "All servers implement proper lifecycle management
\* ... Exit cleanly": Shutdown does not panic (server.go:115).
ExitsCleanly == run # "panicked"

-----------------------------------------------------------------------------
(* The inductive invariant *)

Answered(r) == \E status \in Statuses : <<r, status>> \in replies

\* A request is in one place only, and is not answered before it is served.
PlaceInv ==
    /\ queue \subseteq arrived /\ \A r \in queue : ~Answered(r)
    /\ \A r \in Requests : Answered(r) => r \in arrived
    /\ gor \in {"serve", "ack"} => current \in arrived /\ current \notin queue
    /\ gor = "serve" => ~Answered(current)

\* The channel at the Ack is the one of the reply, for only connect opens one.
AckInv == gor = "ack" /\ channel = "open" => Answered(current)

(***************************************************************************)
(* The goroutine never ends without a word (server.go:76-89): either Run   *)
(* asked it to, or the error waits in notify for Run, or New has failed    *)
(* and the process is gone.                                                *)
(***************************************************************************)
EndIsKnown == gor = "returned" => stop \/ notify \/ run = "exited"

(***************************************************************************)
(* What Shutdown leaves (server.go:100-125): nothing waits for a consumer, *)
(* nothing is being served, and the connection is closed.  It closes only  *)
(* the one connection it knows: another may stay open, with requests in    *)
(* its queue, but only if an attempt failed after its Dial                 *)
(* (connection.go:59-116) or a channel was closed alone.                   *)
(***************************************************************************)
NothingHeld ==
    run = "stopped" => /\ queue = {} /\ current = NoRequest
                       /\ connection = "closed"
                       /\ leaked => wasted

(***************************************************************************)
(* The panic of Shutdown (server.go:115) takes a server that has given up, *)
(* or one told to make no attempt at all: the pointer is nil only after a  *)
(* Dial that failed (connection.go:74-80).                                 *)
(***************************************************************************)
PanicCause == run = "panicked" => attemptErr \/ Attempts = 0

\* What the main goroutine and the one of handleMessages know of each other.
RunInv ==
    /\ stop <=> run \in {"wait", "stopped", "panicked"}
    /\ run \in {"stopped", "panicked"} => gor = "returned"
    /\ run = "stopped" => connection = "closed" /\ delivery # "open"
    /\ current # NoRequest => gor \in {"serve", "ack"}

\* The queue lives with its consumer, which only the last attempt can open; a
\* nil connection is a failed Dial's.
LinkInv ==
    /\ delivery # "open" => queue = {}
    /\ gor = "connect" /\ left > 0 => delivery # "open"
    /\ connection = "nil" => \/ attemptErr \/ Attempts = 0
                             \/ gor = "connect" /\ left = Attempts
    /\ run = "panicked" => connection = "nil"

\* Only a connection without a consumer is overwritten.
WasteInv ==
    /\ leaked => wasted
    /\ connection = "open" /\ delivery # "open" => wasted

LifeInv == RunInv /\ LinkInv /\ WasteInv /\ EndIsKnown

IInv == TypeOK /\ PlaceInv /\ AckInv /\ AnsweredOnce /\ LifeInv
=============================================================================
