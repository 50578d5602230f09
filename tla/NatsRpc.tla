------------------------------- MODULE NatsRpc -------------------------------
(***************************************************************************)
(* The NATS RPC pattern: pkg/nats/nats_rpc/client/client.go, any number of *)
(* pkg/nats/nats_rpc/server/server.go, and the subject between them.       *)
(*                                                                         *)
(* nats.go is external.  What the code relies on is modelled: a subscriber *)
(* runs its callback for one message at a time in a goroutine of its own;  *)
(* every subscription of the subject gets a copy (Subscribe names no queue *)
(* group); delivery is at most once; RequestMsg returns the first reply,   *)
(* or an error when there is none in time or no subscriber.                *)
(***************************************************************************)
EXTENDS Integers, Sequences, FiniteSets

CONSTANTS
    Calls,       \* calls of RemoteCall, one goroutine each
    Servers,     \* processes serving the subject
    Registered,  \* the calls whose handler name the routers know
    None         \* no call

ASSUME NoneAssumption == None \notin Calls
ASSUME RegisteredAssumption == Registered \subseteq Calls

VARIABLES
    call,      \* where each RemoteCall is, or what it returned
    replies,   \* statuses on their way to the caller
    server,    \* where each server is between Start and Shutdown
    pending,   \* messages of its subscription not yet taken
    serving,   \* the message handleMessage is running on
    status,    \* the status it is about to publish, once it is known
    answered   \* history: statuses handleMessage has come to for each call

vars == <<call, replies, server, pending, serving, status, answered>>

client == <<call, replies>>
handler == <<pending, serving, status>>

Statuses == {"success", "badHandler", "internal"}

Subscribed(s) == server[s] \in {"running", "stopping"}
Connected(s) == server[s] \notin {"closed"}

-----------------------------------------------------------------------------
(* Client *)

\* RequestMsg: copies to the subscriptions it reaches.
RemoteCall(c) ==
    /\ call[c] = "idle"
    /\ \E S \in SUBSET {s \in Servers : Subscribed(s)} :
          pending' = [s \in Servers |->
                        IF s \in S THEN Append(pending[s], c) ELSE pending[s]]
    /\ call' = [call EXCEPT ![c] =
                  IF \E s \in Servers : Subscribed(s) THEN "waiting" ELSE "error"]
    /\ UNCHANGED <<replies, server, serving, status, answered>>

\* A request that does not marshal goes nowhere.
MarshalFails(c) ==
    /\ call[c] = "idle"
    /\ call' = [call EXCEPT ![c] = "error"]
    /\ UNCHANGED <<replies, server, handler, answered>>

\* A faulty variant: a reply that comes after the timeout is still taken.
TakeReplyLate(c) ==
    /\ call[c] \in {"waiting", "timeout"}
    /\ \E r \in replies[c] : call' = [call EXCEPT ![c] = r]
    /\ UNCHANGED <<replies, server, handler, answered>>

\* The first reply; the switch on its status decides what is returned.  A
\* success whose body does not unmarshal is an error.
TakeReply(c) ==
    /\ call[c] = "waiting"
    /\ \E r \in replies[c] :
          \/ call' = [call EXCEPT ![c] = r]
          \/ r = "success" /\ call' = [call EXCEPT ![c] = "error"]
    /\ UNCHANGED <<replies, server, handler, answered>>

Timeout(c) ==
    /\ call[c] = "waiting"
    /\ call' = [call EXCEPT ![c] = "timeout"]
    /\ UNCHANGED <<replies, server, handler, answered>>

\* Client.Shutdown closes the connection under the calls that still wait.
ClientShutdown ==
    /\ call' = [c \in Calls |-> IF call[c] \in {"idle", "waiting"}
                                THEN "error" ELSE call[c]]
    /\ UNCHANGED <<replies, server, handler, answered>>

-----------------------------------------------------------------------------
(* Server.handleMessage, run by the subscription's goroutine *)

HandleMessage(s) ==
    /\ Subscribed(s)
    /\ serving[s] = None
    /\ pending[s] # <<>>
    /\ serving' = [serving EXCEPT ![s] = Head(pending[s])]
    /\ pending' = [pending EXCEPT ![s] = Tail(@)]
    /\ UNCHANGED <<client, server, status, answered>>

\* The router, the handler and json.Marshal settle the status.
StatusOf(c) == IF c \in Registered THEN {"success", "internal"} ELSE {"badHandler"}

RunHandler(s) ==
    LET c == serving[s] IN
    /\ c # None
    /\ status[s] = "none"
    /\ \E r \in StatusOf(c) :
          /\ status' = [status EXCEPT ![s] = r]
          /\ answered' = [answered EXCEPT ![c] = @ \cup {r}]
    /\ UNCHANGED <<client, server, pending, serving>>

\* A faulty variant: publish waits for a connection.
PublishReplyBlocking(s) ==
    LET c == serving[s] IN
    /\ status[s] # "none"
    /\ Connected(s)
    /\ replies' = [replies EXCEPT ![c] = @ \cup {status[s]}]
    /\ serving' = [serving EXCEPT ![s] = None]
    /\ status' = [status EXCEPT ![s] = "none"]
    /\ UNCHANGED <<call, server, pending, answered>>

\* PublishMsg; its error is only logged, and the network may lose the reply.
PublishReply(s) ==
    LET c == serving[s] IN
    /\ status[s] # "none"
    /\ \/ /\ Connected(s)
          /\ replies' = [replies EXCEPT ![c] = @ \cup {status[s]}]
       \/ UNCHANGED replies
    /\ serving' = [serving EXCEPT ![s] = None]
    /\ status' = [status EXCEPT ![s] = "none"]
    /\ UNCHANGED <<call, server, pending, answered>>

-----------------------------------------------------------------------------
(* Server.Start and Server.Shutdown *)

Subscribe(s) ==
    /\ server[s] = "new"
    /\ server' = [server EXCEPT ![s] = "running"]
    /\ UNCHANGED <<client, handler, answered>>

\* The goroutine reports the error on notify, which has room for it.
SubscribeFails(s) ==
    /\ server[s] = "new"
    /\ server' = [server EXCEPT ![s] = "failed"]
    /\ UNCHANGED <<client, handler, answered>>

\* close(stop): the goroutine returns, so eg.Wait does.
Shutdown(s) ==
    /\ server[s] \in {"running", "failed"}
    /\ server' = [server EXCEPT ![s] = IF @ = "running" THEN "stopping"
                                                        ELSE "unsubscribed"]
    /\ UNCHANGED <<client, handler, answered>>

\* Messages of the subscription that no callback has taken are dropped.
Unsubscribe(s) ==
    /\ server[s] = "stopping"
    /\ server' = [server EXCEPT ![s] = "unsubscribed"]
    /\ pending' = [pending EXCEPT ![s] = <<>>]
    /\ UNCHANGED <<client, serving, status, answered>>

CloseConnection(s) ==
    /\ server[s] = "unsubscribed"
    /\ server' = [server EXCEPT ![s] = "closed"]
    /\ UNCHANGED <<client, handler, answered>>

-----------------------------------------------------------------------------
Init ==
    /\ call = [c \in Calls |-> "idle"]
    /\ replies = [c \in Calls |-> {}]
    /\ server = [s \in Servers |-> "new"]
    /\ pending = [s \in Servers |-> <<>>]
    /\ serving = [s \in Servers |-> None]
    /\ status = [s \in Servers |-> "none"]
    /\ answered = [c \in Calls |-> {}]

Serve(s) == HandleMessage(s) \/ RunHandler(s) \/ PublishReply(s)

Next ==
    \/ \E c \in Calls : RemoteCall(c) \/ MarshalFails(c) \/ TakeReply(c) \/ Timeout(c)
    \/ ClientShutdown
    \/ \E s \in Servers :
          \/ Serve(s)
          \/ Subscribe(s)
          \/ SubscribeFails(s)
          \/ Shutdown(s)
          \/ Unsubscribe(s)
          \/ CloseConnection(s)

Spec == Init /\ [][Next]_vars

(***************************************************************************)
(* Fairness: handlers return, and a Shutdown that has begun goes on.       *)
(***************************************************************************)
FairSpec ==
    /\ Spec
    /\ \A s \in Servers : /\ WF_vars(Serve(s))
                          /\ WF_vars(Unsubscribe(s))
                          /\ WF_vars(CloseConnection(s))

-----------------------------------------------------------------------------
(* Properties *)

\* The variables keep their types.
TypeOK ==
    /\ call \in [Calls -> {"idle", "waiting", "timeout", "error"} \cup Statuses]
    /\ replies \in [Calls -> SUBSET Statuses]
    /\ server \in [Servers -> {"new", "running", "failed", "stopping",
                               "unsubscribed", "closed"}]
    /\ pending \in [Servers -> Seq(Calls)]
    /\ serving \in [Servers -> Calls \cup {None}]
    /\ status \in [Servers -> Statuses \cup {"none"}]
    /\ answered \in [Calls -> SUBSET Statuses]

(***************************************************************************)
(* RemoteCall returns success or a server's error only if some server came *)
(* to that very status for this very call, however many servers answer,    *)
(* in whatever order, before or after a shutdown (client.go:89-108,        *)
(* server.go:153-182).                                                     *)
(***************************************************************************)
OutcomeIsAnswer ==
    \A c \in Calls : call[c] \in Statuses => call[c] \in answered[c]

Outcomes == [c \in Calls |-> IF call[c] \in {"idle", "waiting"} THEN "none"
                             ELSE IF call[c] \in Statuses THEN call[c] ELSE "error"]

Promise == INSTANCE RemoteCalls WITH given <- answered, outcome <- Outcomes

(***************************************************************************)
(* The NATS client keeps the promise of RemoteCalls: besides               *)
(* OutcomeIsAnswer, a second server's reply, one that comes after the      *)
(* timeout, and a shutdown leave a call that has returned as it is         *)
(* (client.go:70-120).                                                     *)
(***************************************************************************)
RefinesRemoteCalls == Promise!RSpec

(***************************************************************************)
(* Shutdown comes to its end whatever the callback does, and the callback  *)
(* ends with it (server.go:111-140).                                       *)
(***************************************************************************)
ShutdownEndsQuiet ==
    \A s \in Servers :
        server[s] = "stopping" ~> server[s] = "closed" /\ serving[s] = None

-----------------------------------------------------------------------------
(* The inductive invariant *)

\* What is about to be published, and what is on its way, was come to for this
\* call (server.go:153-182).
StatusInv ==
    \A s \in Servers :
        status[s] # "none" => serving[s] # None /\ status[s] \in answered[serving[s]]

RepliesInv == \A c \in Calls : replies[c] \subseteq answered[c]

IInv == TypeOK /\ StatusInv /\ RepliesInv /\ OutcomeIsAnswer
=============================================================================
