----------------------------- MODULE RpcClient ------------------------------
(***************************************************************************)
(* The RabbitMQ RPC client (pkg/rabbitmq/rmq_rpc/client/client.go): the    *)
(* callers of RemoteCall, the goroutine of handleMessages with its         *)
(* connection (connection.go), and the caller of Shutdown.                 *)
(*                                                                         *)
(* Each server process has bound an exclusive queue of its own to the      *)
(* fanout exchange and answers every request once (server.go:153-178);     *)
(* replies come back through the client's exclusive queue, which is lost   *)
(* with the connection.                                                    *)
(***************************************************************************)
EXTENDS Naturals, FiniteSets

CONSTANTS
    Calls,      \* invocations of RemoteCall, each with a correlation id
    Servers,    \* server processes on the exchange
    Attempts,   \* Connection.Attempts
    MaxDrops    \* bound on the number of lost connections

ASSUME CallsAssumption == IsFiniteSet(Calls)
ASSUME ServersAssumption == IsFiniteSet(Servers) /\ Servers # {}
ASSUME AttemptsAssumption == Attempts \in Nat
ASSUME MaxDropsAssumption == MaxDrops \in Nat

VARIABLES
    at,          \* where each RemoteCall is
    result,      \* what it returns
    registered,  \* the keys of the map calls
    done,        \* calls whose done channel is closed
    status,      \* the status stored in the pendingCall
    gor,         \* the goroutine of handleMessages
    left,        \* attempts left in AttemptConnect
    dialed,      \* the pointer Connection.Connection is not nil
    channel,     \* the pointer Connection.Channel and what it points to
    delivery,    \* the Go channel Connection.Delivery
    stop,        \* the stop channel is closed
    shutdown,    \* where the caller of Shutdown is
    panic,       \* what the process panicked of
    requests,    \* per server, the requests in its queue
    replies,     \* replies in the client's queue, <<call, status, server>>
    sent,        \* history: every reply a server has given
    drops        \* number of lost connections

caller == <<at, result>>
pending == <<registered, done, status>>
conn == <<gor, left, dialed, channel, delivery>>
world == <<requests, replies, sent, drops>>
vars == <<caller, pending, conn, stop, shutdown, panic, world>>

Statuses == {"success", "unregistered handler", "internal server error"}

\* A panicking process takes no further step.
Alive == panic = "none"

\* The error group has ended with an error: its context is done, and the
\* error has gone through notify, which is closed.
Failed == gor = "failed"

-----------------------------------------------------------------------------
(* RemoteCall *)

Go(c, place) == at' = [at EXCEPT ![c] = place]

Result(c, r) == result' = [result EXCEPT ![c] = r]

(***************************************************************************)
(* The channels both selects look at: the context, notify and stop.        *)
(* Receiving from notify releases the goroutine blocked in c.notify <- err.*)
(***************************************************************************)
Interrupted(c) ==
    \/ Failed /\ Result(c, "failed") /\ UNCHANGED gor
    \/ gor = "sending" /\ Result(c, "failed") /\ gor' = "failed"
    \/ stop /\ Result(c, "closed") /\ UNCHANGED gor

PreWaitFails(c) ==
    /\ Alive /\ at[c] = "idle"
    /\ Interrupted(c)
    /\ Go(c, "returned")
    /\ UNCHANGED <<pending, left, dialed, channel, delivery, stop, shutdown, panic, world>>

PreWaitOk(c) ==
    /\ Alive /\ at[c] = "idle"
    /\ ~Failed /\ gor # "sending" /\ ~stop
    /\ Go(c, "publish")
    /\ UNCHANGED <<result, pending, conn, stop, shutdown, panic, world>>

\* Publish reads the Channel pointer without a lock, while the goroutine may
\* be replacing it; the fanout exchange copies the request to every server.
\* An error may also be that of Marshal, whatever the channel.
Publish(c) ==
    /\ Alive /\ at[c] = "publish"
    /\ \/ /\ channel = "open"
          /\ requests' = [s \in Servers |-> requests[s] \cup {c}]
          /\ Go(c, "add")
          /\ UNCHANGED <<result, panic>>
       \/ /\ Go(c, "returned") /\ Result(c, "publish error")
          /\ UNCHANGED <<requests, panic>>
       \/ /\ channel = "nil"
          /\ panic' = "nil channel"
          /\ UNCHANGED <<caller, requests>>
    /\ UNCHANGED <<pending, conn, stop, shutdown, replies, sent, drops>>

\* Only now is the call registered: a reply that came before was dropped.
AddCall(c) ==
    /\ Alive /\ at[c] = "add"
    /\ registered' = registered \cup {c}
    /\ Go(c, "wait")
    /\ UNCHANGED <<result, done, status, conn, stop, shutdown, panic, world>>

\* A faulty variant: the pendingCall is deleted only after an answer.
WaitFailsUndeleted(c) ==
    /\ Alive /\ at[c] = "wait"
    /\ \/ Interrupted(c)
       \/ Result(c, "timeout") /\ UNCHANGED gor
    /\ Go(c, "returned")
    /\ UNCHANGED <<pending, left, dialed, channel, delivery, stop, shutdown, panic, world>>

\* A faulty variant: no timer.
WaitFailsUntimed(c) ==
    /\ Alive /\ at[c] = "wait"
    /\ Interrupted(c)
    /\ Go(c, "delete")
    /\ UNCHANGED <<pending, left, dialed, channel, delivery, stop, shutdown, panic, world>>

\* remoteCallWait: any ready case, and the timer may fire at any time.
WaitFails(c) ==
    /\ Alive /\ at[c] = "wait"
    /\ \/ Interrupted(c)
       \/ Result(c, "timeout") /\ UNCHANGED gor
    /\ Go(c, "delete")
    /\ UNCHANGED <<pending, left, dialed, channel, delivery, stop, shutdown, panic, world>>

\* A faulty variant: the status is not looked at.
WaitOkUnchecked(c) ==
    /\ Alive /\ at[c] = "wait"
    /\ c \in done
    /\ Result(c, "success")
    /\ Go(c, "delete")
    /\ UNCHANGED <<pending, conn, stop, shutdown, panic, world>>

\* A body that does not unmarshal is an error in spite of the status.
WaitOk(c) ==
    /\ Alive /\ at[c] = "wait"
    /\ c \in done
    /\ \/ Result(c, status[c])
       \/ status[c] = "success" /\ Result(c, "unmarshal error")
    /\ Go(c, "delete")
    /\ UNCHANGED <<pending, conn, stop, shutdown, panic, world>>

\* The deferred deleteCall.
DeleteCall(c) ==
    /\ Alive /\ at[c] = "delete"
    /\ registered' = registered \ {c}
    /\ Go(c, "returned")
    /\ UNCHANGED <<result, done, status, conn, stop, shutdown, panic, world>>

-----------------------------------------------------------------------------
(* handleMessages *)

ObserveStop ==
    /\ Alive /\ gor = "select" /\ stop
    /\ gor' = "returned"
    /\ UNCHANGED <<caller, pending, left, dialed, channel, delivery, stop, shutdown, panic, world>>

\* serveCall: the reply of a call that is not registered is dropped; closing
\* the done channel a second time panics.
ServeCall ==
    /\ Alive /\ gor = "select" /\ delivery = "open"
    /\ \E reply \in replies :
          LET c == reply[1] IN
          /\ replies' = replies \ {reply}
          /\ \/ /\ c \notin registered
                /\ UNCHANGED <<done, status, panic>>
             \/ /\ c \in registered
                /\ status' = [status EXCEPT ![c] = reply[2]]
                /\ done' = done \cup {c}
                /\ panic' = IF c \in done THEN "close of closed channel" ELSE panic
    /\ UNCHANGED <<caller, registered, conn, stop, shutdown, requests, sent, drops>>

StartReconnect ==
    /\ Alive /\ gor = "select" /\ delivery = "closed"
    /\ gor' = "connect"
    /\ left' = Attempts
    /\ UNCHANGED <<caller, pending, dialed, channel, delivery, stop, shutdown, panic, world>>

\* A faulty variant: the error of Connection.Channel is not looked at.
AttemptOkUnchecked ==
    /\ Alive /\ gor = "connect"
    /\ dialed' = TRUE /\ channel' \in {"open", "nil"} /\ delivery' = "open"
    /\ gor' = "select"
    /\ left' = 0
    /\ UNCHANGED <<caller, pending, stop, shutdown, panic, world>>

AttemptOk ==
    /\ Alive /\ gor = "connect"
    /\ dialed' = TRUE /\ channel' = "open" /\ delivery' = "open"
    /\ gor' = "select"
    /\ left' = 0
    /\ UNCHANGED <<caller, pending, stop, shutdown, panic, world>>

\* A faulty variant: the attempts are not counted.
AttemptFailsForEver ==
    /\ Alive /\ gor = "connect"
    /\ \/ dialed' = FALSE /\ UNCHANGED channel
       \/ dialed' = TRUE /\ channel' \in {channel, "nil", "open", "closed"}
    /\ UNCHANGED <<caller, pending, gor, left, delivery, stop, shutdown, panic, world>>

\* Dial returns nil, or connect fails once it has a connection; after the
\* last attempt start sends the error into the unbuffered notify channel.
AttemptFails ==
    /\ Alive /\ gor = "connect"
    /\ \/ dialed' = FALSE /\ UNCHANGED channel
       \/ dialed' = TRUE /\ channel' \in {channel, "nil", "open", "closed"}
    /\ left' = left - 1
    /\ gor' = IF left = 1 THEN "sending" ELSE "connect"
    /\ UNCHANGED <<caller, pending, delivery, stop, shutdown, panic, world>>

-----------------------------------------------------------------------------
(* Shutdown *)

ShutdownCalled ==
    /\ Alive /\ shutdown = "none"
    /\ stop' = TRUE
    /\ shutdown' = "wait"
    /\ UNCHANGED <<caller, pending, conn, panic, world>>

\* eg.Wait returns once the goroutine has ended; then the connection is
\* closed, which panics if the last Dial left a nil pointer.
ShutdownReturns ==
    /\ Alive /\ shutdown = "wait" /\ gor \in {"returned", "failed"}
    /\ \/ /\ dialed
          /\ shutdown' = "returned"
          /\ channel' = "closed" /\ delivery' = "closed" /\ replies' = {}
          /\ UNCHANGED panic
       \/ /\ ~dialed
          /\ panic' = "nil connection"
          /\ UNCHANGED <<shutdown, channel, delivery, replies>>
    /\ UNCHANGED <<caller, pending, gor, left, dialed, stop, requests, sent, drops>>

-----------------------------------------------------------------------------
(* The servers and the broker *)

\* A server answers; without a bound queue of the client the reply is lost.
ServerReplies(s) ==
    /\ \E c \in requests[s], st \in Statuses :
          /\ requests' = [requests EXCEPT ![s] = @ \ {c}]
          /\ sent' = sent \cup {<<c, st, s>>}
          /\ replies' = IF delivery = "open" THEN replies \cup {<<c, st, s>>} ELSE replies
    /\ UNCHANGED <<caller, pending, conn, stop, shutdown, panic, drops>>

\* The connection breaks, or the broker closes its channel alone: then the
\* connection and the queue stay, but nothing consumes from them again.
Drop ==
    /\ Alive /\ delivery = "open" /\ drops < MaxDrops
    /\ drops' = drops + 1
    /\ channel' = "closed" /\ delivery' = "closed" /\ replies' = {}
    /\ UNCHANGED <<caller, pending, gor, left, dialed, stop, shutdown, panic, requests, sent>>

-----------------------------------------------------------------------------
\* New has connected and started the goroutine; told to make no attempt, it
\* does so with all its pointers nil.
Init ==
    /\ at = [c \in Calls |-> "idle"]
    /\ result = [c \in Calls |-> "none"]
    /\ registered = {} /\ done = {}
    /\ status = [c \in Calls |-> "none"]
    /\ gor = "select" /\ left = 0
    /\ dialed = (Attempts > 0)
    /\ channel = (IF dialed THEN "open" ELSE "nil") /\ delivery = channel
    /\ stop = FALSE /\ shutdown = "none" /\ panic = "none"
    /\ requests = [s \in Servers |-> {}]
    /\ replies = {} /\ sent = {}
    /\ drops = 0

RemoteCall(c) ==
    \/ PreWaitFails(c) \/ PreWaitOk(c) \/ Publish(c) \/ AddCall(c)
    \/ WaitFails(c) \/ WaitOk(c) \/ DeleteCall(c)

\* The steps of the RemoteCall of c once it is under way.
Proceed(c) == at[c] # "idle" /\ RemoteCall(c)

Goroutine == ObserveStop \/ ServeCall \/ StartReconnect \/ AttemptOk \/ AttemptFails

Next ==
    \/ \E c \in Calls : RemoteCall(c)
    \/ Goroutine
    \/ ShutdownCalled \/ ShutdownReturns
    \/ \E s \in Servers : ServerReplies(s)
    \/ Drop

(***************************************************************************)
(* Fairness.  Callers under way, the goroutine and the caller of Shutdown  *)
(* keep running, the timer of a call fires in the end (a disjunct of       *)
(* WaitFails), and select does not pass over a closed stop for ever.       *)
(* Nothing is assumed of the servers, the broker or new calls.             *)
(***************************************************************************)
Fairness ==
    /\ \A c \in Calls : WF_vars(Proceed(c))
    /\ WF_vars(Goroutine) /\ SF_vars(ObserveStop)
    /\ WF_vars(ShutdownReturns)

Spec == Init /\ [][Next]_vars

FairSpec == Spec /\ Fairness

-----------------------------------------------------------------------------
(* Properties *)

Errors == {"failed", "closed", "publish error", "timeout", "unmarshal error"}

Results == Statuses \cup Errors \cup {"none"}

\* The variables keep their types.
TypeOK ==
    /\ at \in [Calls -> {"idle", "publish", "add", "wait", "delete", "returned"}]
    /\ result \in [Calls -> Results]
    /\ registered \in SUBSET Calls /\ done \in SUBSET Calls
    /\ status \in [Calls -> Statuses \cup {"none"}]
    /\ gor \in {"select", "connect", "sending", "failed", "returned"}
    /\ left \in 0..Attempts /\ dialed \in BOOLEAN
    /\ channel \in {"open", "closed", "nil"} /\ delivery \in {"open", "closed", "nil"}
    /\ stop \in BOOLEAN /\ shutdown \in {"none", "wait", "returned"}
    /\ panic \in {"none", "nil channel", "nil connection", "close of closed channel"}
    /\ requests \in [Servers -> SUBSET Calls]
    /\ replies \in SUBSET (Calls \X Statuses \X Servers)
    /\ sent \in SUBSET (Calls \X Statuses \X Servers)
    /\ drops \in 0..MaxDrops

(***************************************************************************)
(* A caller is told only what a server answered to this very call          *)
(* (client.go:141-153, 232-243): late, dropped and reordered replies of    *)
(* other calls, reconnects and shutdowns never give it another outcome.    *)
(***************************************************************************)
OutcomeIsAnswer ==
    \A c \in Calls : result[c] \in Statuses => \E s \in Servers : <<c, result[c], s>> \in sent

Given == [c \in Calls |-> {st \in Statuses : \E s \in Servers : <<c, st, s>> \in sent}]
Outcomes == [c \in Calls |-> IF result[c] \in Errors THEN "error" ELSE result[c]]

Promise == INSTANCE RemoteCalls WITH given <- Given, outcome <- Outcomes

(***************************************************************************)
(* The RabbitMQ client keeps the promise of RemoteCalls, as the NATS       *)
(* client does: besides OutcomeIsAnswer, each call gets its result once,   *)
(* and no late or second reply, reconnect or shutdown changes it           *)
(* (client.go:118-189).                                                    *)
(***************************************************************************)
RefinesRemoteCalls == Promise!RSpec

(***************************************************************************)
(* The map holds no call that has returned (client.go:133-134): neither a  *)
(* timeout nor a shutdown nor a late reply leaks a pendingCall.            *)
(***************************************************************************)
NoPendingLeak ==
    \A c \in Calls : c \in registered <=> at[c] \in {"wait", "delete"}

(***************************************************************************)
(* Every RemoteCall returns (client.go:118-189) whatever happens to the    *)
(* reply, the connection or the goroutine, unless the process panics.      *)
(***************************************************************************)
CallsReturn == \A c \in Calls : at[c] # "idle" ~> at[c] = "returned" \/ ~Alive

(***************************************************************************)
(* Shutdown returns (client.go:96-115), after every retry loop and timeout *)
(* under way, but for one case: a reconnect has failed, and no RemoteCall  *)
(* comes to receive the error that the goroutine sends on the unbuffered   *)
(* notify channel (client.go:195), for eg.Wait has no limit.               *)
(***************************************************************************)
ShutdownCompletes ==
    shutdown = "wait" ~> \/ shutdown = "returned"
                         \/ ~Alive
                         \/ [](gor = "sending")

\* The connection was lost, and no attempt has succeeded since.
Away == gor \in {"connect", "sending", "failed"}

(***************************************************************************)
(* What it takes to panic: a caller meets the nil Channel (client.go:285)  *)
(* and Shutdown the nil Connection (client.go:109) only after a failed     *)
(* attempt that no successful one has followed, or where the client was    *)
(* told to make no attempt (options.go:23); done is closed twice           *)
(* (client.go:242) only if two servers have answered one call, so never    *)
(* where one server consumes from the exchange.                            *)
(***************************************************************************)
PanicsHaveCauses ==
    /\ panic = "nil channel" => Away \/ Attempts = 0
    /\ panic = "nil connection" => (Away \/ Attempts = 0) /\ shutdown = "wait"
    /\ panic = "close of closed channel" =>
          \E a, b \in sent : a[1] = b[1] /\ a[3] # b[3]

-----------------------------------------------------------------------------
(* The inductive invariant *)

\* A retry loop under way has an attempt left.
LeftInv == gor = "connect" => left > 0

\* What waits in the queue, and what a pendingCall was given, was sent for it.
AnswerInv ==
    /\ replies \subseteq sent
    /\ \A c \in done : \E s \in Servers : <<c, status[c], s>> \in sent

\* A call that is under way has no result yet.
OnceInv ==
    \A c \in Calls : at[c] \in {"idle", "publish", "add", "wait"} => result[c] = "none"

\* A failed attempt leaves nil behind, and a successful one removes it; without
\* an attempt nothing is ever dialed.
NilInv ==
    /\ channel = "nil" \/ ~dialed => Away \/ Attempts = 0
    /\ Attempts = 0 => ~dialed /\ delivery = "nil" /\ gor \in {"select", "returned"}

\* A server has one copy of a request and answers it once; of the answers to a
\* call that is done, one has left the queue.
CopyInv ==
    /\ \A s \in Servers : \A c \in requests[s] :
          /\ at[c] \notin {"idle", "publish"}
          /\ \A a \in sent : ~(a[1] = c /\ a[3] = s)
    /\ \A a \in sent : at[a[1]] \notin {"idle", "publish"}
    /\ \A a, b \in sent : a[1] = b[1] /\ a[3] = b[3] => a = b
    /\ \A c \in done : \E a \in sent : a[1] = c /\ a \notin replies

IInv == /\ TypeOK /\ LeftInv /\ AnswerInv /\ OutcomeIsAnswer /\ NoPendingLeak /\ OnceInv
        /\ NilInv /\ CopyInv /\ PanicsHaveCauses
=============================================================================
