--------------------------- MODULE NatsRpcProofs ---------------------------
(***************************************************************************)
(* Proofs about NatsRpc, for any calls, any number of servers and any set  *)
(* of registered handlers.                                                 *)
(***************************************************************************)
EXTENDS NatsRpc, TLAPS

\* Steps of the callers keep the invariant (client.go:68-110).
LEMMA CallerStep ==
    ASSUME IInv, NEW c \in Calls,
           RemoteCall(c) \/ MarshalFails(c) \/ TakeReply(c) \/ Timeout(c)
    PROVE  IInv'
  <1>1. CASE RemoteCall(c)
    <2>1. pending' \in [Servers -> Seq(Calls)]
      BY <1>1 DEF RemoteCall, IInv, TypeOK
    <2>2. call'[c] \in {"waiting", "error"} /\ \A d \in Calls \ {c} : call'[d] = call[d]
      BY <1>1 DEF RemoteCall, IInv, TypeOK
    <2>3. TypeOK'
      BY <1>1, <2>1 DEF RemoteCall, IInv, TypeOK
    <2>4. OutcomeIsAnswer'
      BY <1>1, <2>2 DEF RemoteCall, IInv, OutcomeIsAnswer, Statuses
    <2> QED
      BY <1>1, <2>3, <2>4 DEF RemoteCall, IInv, StatusInv, RepliesInv
  <1>2. CASE TakeReply(c)
    <2>1. PICK r \in replies[c] \cup {"error"} : call' = [call EXCEPT ![c] = r]
      BY <1>2 DEF TakeReply
    <2>2. UNCHANGED <<replies, server, handler, answered>>
      BY <1>2 DEF TakeReply
    <2>3. TypeOK'
      BY <2>1, <2>2 DEF handler, IInv, TypeOK
    <2>4. OutcomeIsAnswer'
      BY <2>1, <2>2 DEF IInv, TypeOK, RepliesInv, OutcomeIsAnswer, Statuses
    <2> QED
      BY <2>2, <2>3, <2>4 DEF handler, IInv, StatusInv, RepliesInv
  <1>3. CASE MarshalFails(c) \/ Timeout(c)
    <2>1. PICK r \in {"error", "timeout"} : call' = [call EXCEPT ![c] = r]
      BY <1>3 DEF MarshalFails, Timeout
    <2>2. UNCHANGED <<replies, server, handler, answered>>
      BY <1>3 DEF MarshalFails, Timeout
    <2>3. TypeOK'
      BY <2>1, <2>2 DEF handler, IInv, TypeOK
    <2>4. OutcomeIsAnswer'
      BY <2>1, <2>2 DEF IInv, TypeOK, OutcomeIsAnswer, Statuses
    <2> QED
      BY <2>2, <2>3, <2>4 DEF handler, IInv, StatusInv, RepliesInv
  <1> QED
    BY <1>1, <1>2, <1>3

\* The client's shutdown turns waiting calls away (client.go:61-65).
LEMMA ClientShutdownStep ==
    ASSUME IInv, ClientShutdown
    PROVE  IInv'
  BY DEF ClientShutdown, handler, IInv, TypeOK, StatusInv, RepliesInv, OutcomeIsAnswer,
         Statuses

\* handleMessage, from the message it takes to the reply (server.go:153-193).
LEMMA ServeStep ==
    ASSUME IInv, NEW s \in Servers, Serve(s)
    PROVE  IInv'
  <1>1. CASE HandleMessage(s)
    <2>1. pending[s] \in Seq(Calls) /\ pending[s] # <<>>
      BY <1>1 DEF HandleMessage, IInv, TypeOK
    <2>2. Head(pending[s]) \in Calls /\ Tail(pending[s]) \in Seq(Calls)
      BY <2>1
    <2>3. TypeOK'
      BY <1>1, <2>2 DEF HandleMessage, client, IInv, TypeOK
    <2>4. status[s] = "none"
      BY <1>1 DEF HandleMessage, IInv, StatusInv
    <2>5. StatusInv'
      BY <1>1, <2>4 DEF HandleMessage, IInv, TypeOK, StatusInv
    <2> QED
      BY <1>1, <2>3, <2>5 DEF HandleMessage, client, IInv, RepliesInv, OutcomeIsAnswer
  <1>2. CASE RunHandler(s)
    <2>1. serving[s] \in Calls
      BY <1>2 DEF RunHandler, IInv, TypeOK
    <2>2. PICK r \in StatusOf(serving[s]) :
             /\ status' = [status EXCEPT ![s] = r]
             /\ answered' = [answered EXCEPT ![serving[s]] = @ \cup {r}]
      BY <1>2 DEF RunHandler
    <2>3. r \in Statuses
      BY <2>2 DEF StatusOf, Statuses
    <2>4. UNCHANGED <<call, replies, server, pending, serving>>
      BY <1>2 DEF RunHandler, client
    <2>5. TypeOK'
      BY <2>1, <2>2, <2>3, <2>4 DEF IInv, TypeOK
    <2>6. \A d \in Calls : answered[d] \subseteq answered'[d]
      BY <2>1, <2>2 DEF IInv, TypeOK
    <2>7. r \in answered'[serving[s]]
      BY <2>1, <2>2 DEF IInv, TypeOK
    <2>8. StatusInv'
      BY <2>2, <2>4, <2>6, <2>7, <2>1, NoneAssumption DEF IInv, TypeOK, StatusInv
    <2> QED
      BY <2>4, <2>5, <2>6, <2>8 DEF IInv, RepliesInv, OutcomeIsAnswer
  <1>3. CASE PublishReply(s)
    <2>1. serving[s] \in Calls /\ status[s] \in answered[serving[s]]
      BY <1>3 DEF PublishReply, IInv, TypeOK, StatusInv
    <2>2. /\ serving' = [serving EXCEPT ![s] = None]
          /\ status' = [status EXCEPT ![s] = "none"]
          /\ UNCHANGED <<call, server, pending, answered>>
      BY <1>3 DEF PublishReply
    <2>3. \/ UNCHANGED replies
          \/ replies' = [replies EXCEPT ![serving[s]] = @ \cup {status[s]}]
      BY <1>3 DEF PublishReply
    <2>4. /\ replies' \in [Calls -> SUBSET Statuses]
          /\ \A d \in Calls : replies'[d] \subseteq answered[d]
      <3>1. CASE UNCHANGED replies
        BY <3>1 DEF IInv, TypeOK, RepliesInv
      <3>2. CASE replies' = [replies EXCEPT ![serving[s]] = @ \cup {status[s]}]
        <4>1. status[s] \in Statuses
          BY <1>3, <2>1 DEF PublishReply, IInv, TypeOK
        <4>2. \A d \in Calls : replies'[d] = IF d = serving[s] THEN replies[d] \cup {status[s]}
                                                           ELSE replies[d]
          BY <2>1, <3>2 DEF IInv, TypeOK
        <4>3. replies' \in [Calls -> SUBSET Statuses]
          BY <2>1, <3>2, <4>1 DEF IInv, TypeOK
        <4> QED
          BY <2>1, <4>2, <4>3 DEF IInv, RepliesInv
      <3> QED
        BY <2>3, <3>1, <3>2
    <2>5. TypeOK'
      BY <2>2, <2>4 DEF IInv, TypeOK
    <2>6. StatusInv'
      BY <2>2 DEF IInv, TypeOK, StatusInv
    <2> QED
      BY <2>2, <2>4, <2>5, <2>6 DEF IInv, RepliesInv, OutcomeIsAnswer
  <1> QED
    BY <1>1, <1>2, <1>3 DEF Serve

\* Start and Shutdown of a server (server.go:85-151).
LEMMA ServerStep ==
    ASSUME IInv, NEW s \in Servers,
           Subscribe(s) \/ SubscribeFails(s) \/ Shutdown(s) \/ Unsubscribe(s)
           \/ CloseConnection(s)
    PROVE  IInv'
  <1>1. TypeOK'
    <2>1. CASE Subscribe(s) \/ SubscribeFails(s)
      BY <2>1 DEF Subscribe, SubscribeFails, client, handler, IInv, TypeOK
    <2>2. CASE Shutdown(s)
      BY <2>2 DEF Shutdown, client, handler, IInv, TypeOK
    <2>3. CASE Unsubscribe(s)
      <3>1. pending' \in [Servers -> Seq(Calls)]
        BY <2>3 DEF Unsubscribe, IInv, TypeOK
      <3> QED
        BY <2>3, <3>1 DEF Unsubscribe, client, IInv, TypeOK
    <2>4. CASE CloseConnection(s)
      BY <2>4 DEF CloseConnection, client, handler, IInv, TypeOK
    <2> QED
      BY <2>1, <2>2, <2>3, <2>4
  <1>2. UNCHANGED <<call, replies, serving, status, answered>>
    BY DEF Subscribe, SubscribeFails, Shutdown, Unsubscribe, CloseConnection, client, handler
  <1> QED
    BY <1>1, <1>2 DEF IInv, StatusInv, RepliesInv, OutcomeIsAnswer

-----------------------------------------------------------------------------
(* The theorems *)

\* Every status on its way to a caller was come to for its call
\* (server.go:153-182).
THEOREM Inductive == Spec => []IInv
  <1>1. Init => IInv
    BY DEF Init, IInv, TypeOK, StatusInv, RepliesInv, OutcomeIsAnswer, Statuses
  <1>2. IInv /\ [Next]_vars => IInv'
    <2> SUFFICES ASSUME IInv, [Next]_vars PROVE IInv'
      OBVIOUS
    <2>1. CASE UNCHANGED vars
      BY <2>1 DEF vars, IInv, TypeOK, StatusInv, RepliesInv, OutcomeIsAnswer
    <2> QED
      BY <2>1, CallerStep, ClientShutdownStep, ServeStep, ServerStep DEF Next
  <1> QED
    BY <1>1, <1>2, PTL DEF Spec

\* What RemoteCall returns is what a server came to for this call, or an error
\* of the client's own (client.go:89-108).
THEOREM OutcomesAreAnswers == Spec => []OutcomeIsAnswer
  <1>1. IInv => OutcomeIsAnswer
    BY DEF IInv
  <1> QED
    BY <1>1, Inductive, PTL

-----------------------------------------------------------------------------
(* NatsRpc implements RemoteCalls *)

\* A set of calls that have not returned fails together.
LEMMA FailStep ==
    ASSUME NEW C \in SUBSET Calls, answered' = answered,
           \A c \in C : Outcomes[c] = "none" /\ Outcomes'[c] = "error",
           \A c \in Calls \ C : Outcomes'[c] = Outcomes[c]
    PROVE  Promise!RNext
  <1>1. Outcomes' = [c \in Calls |-> IF c \in C THEN "error" ELSE Outcomes[c]]
    BY DEF Outcomes
  <1>2. Promise!Fail(C)
    BY <1>1 DEF Promise!Fail
  <1> QED
    BY <1>2 DEF Promise!RNext

\* The callers' steps: each call that returns returns once (client.go:68-120).
LEMMA CallerRefines ==
    ASSUME IInv, NEW c \in Calls,
           RemoteCall(c) \/ MarshalFails(c) \/ TakeReply(c) \/ Timeout(c)
    PROVE  [Promise!RNext]_(Promise!rvars)
  <1>1. TypeOK /\ answered' = answered
    BY DEF IInv, RemoteCall, MarshalFails, TakeReply, Timeout
  <1>2. CASE RemoteCall(c) /\ call'[c] = "waiting"
    <2>1. \A d \in Calls : Outcomes'[d] = Outcomes[d]
      BY <1>1, <1>2 DEF RemoteCall, TypeOK, Outcomes
    <2>2. Outcomes' = Outcomes
      BY <2>1 DEF Outcomes
    <2> QED
      BY <1>1, <2>2 DEF Promise!rvars
  <1>3. ASSUME call[c] \in {"idle", "waiting"},
               \/ call' = [call EXCEPT ![c] = "error"]
               \/ call' = [call EXCEPT ![c] = "timeout"]
        PROVE  [Promise!RNext]_(Promise!rvars)
    <2> DEFINE C == {c}
    <2>1. /\ C \in SUBSET Calls
          /\ \A d \in C : Outcomes[d] = "none" /\ Outcomes'[d] = "error"
          /\ \A d \in Calls \ C : Outcomes'[d] = Outcomes[d]
      BY <1>1, <1>3 DEF TypeOK, Outcomes, Statuses
    <2> HIDE DEF C
    <2>2. Promise!RNext
      BY <1>1, <2>1, FailStep
    <2> QED
      BY <2>2
  <1>4. CASE TakeReply(c) /\ \E r \in replies[c] : call' = [call EXCEPT ![c] = r]
    <2>1. PICK r \in replies[c] : call' = [call EXCEPT ![c] = r]
      BY <1>4
    <2>2. r \in Statuses /\ r \in answered[c] /\ call[c] = "waiting"
      BY <1>1, <1>4, <2>1 DEF TypeOK, IInv, RepliesInv, TakeReply
    <2>3. Outcomes' = [Outcomes EXCEPT ![c] = r] /\ Outcomes[c] = "none"
      <3>1. \A d \in Calls : call'[d] = IF d = c THEN r ELSE call[d]
        BY <1>1, <2>1 DEF TypeOK
      <3> QED
        BY <2>2, <3>1 DEF Outcomes, Statuses
    <2>4. Promise!Return(c, r)
      BY <1>1, <2>2, <2>3 DEF Promise!Return
    <2> QED
      BY <2>2, <2>4 DEF Promise!RNext
  <1>5. CASE RemoteCall(c)
    <2>1. call' = [call EXCEPT ![c] = "waiting"] \/ call' = [call EXCEPT ![c] = "error"]
      BY <1>5 DEF RemoteCall
    <2>2. CASE call' = [call EXCEPT ![c] = "waiting"]
      <3>1. call'[c] = "waiting"
        BY <1>1, <2>2 DEF TypeOK
      <3> QED
        BY <1>2, <1>5, <3>1
    <2>3. CASE call' = [call EXCEPT ![c] = "error"]
      <3>1. call[c] \in {"idle", "waiting"}
        BY <1>5 DEF RemoteCall
      <3> QED
        BY <1>3, <2>3, <3>1
    <2> QED
      BY <2>1, <2>2, <2>3
  <1>6. CASE MarshalFails(c) \/ Timeout(c)
    <2>1. /\ call[c] \in {"idle", "waiting"}
          /\ \/ call' = [call EXCEPT ![c] = "error"]
             \/ call' = [call EXCEPT ![c] = "timeout"]
      BY <1>6 DEF MarshalFails, Timeout
    <2> QED
      BY <1>3, <2>1
  <1>7. CASE TakeReply(c)
    <2>1. /\ call[c] = "waiting"
          /\ \/ call' = [call EXCEPT ![c] = "error"]
             \/ \E r \in replies[c] : call' = [call EXCEPT ![c] = r]
      BY <1>7 DEF TakeReply
    <2>2. CASE call' = [call EXCEPT ![c] = "error"]
      BY <1>3, <2>1, <2>2
    <2>3. CASE \E r \in replies[c] : call' = [call EXCEPT ![c] = r]
      BY <1>4, <1>7, <2>3
    <2> QED
      BY <2>1, <2>2, <2>3
  <1> QED
    BY <1>5, <1>6, <1>7

\* A shutdown ends the calls that have not returned (client.go:61-65).
LEMMA ClientShutdownRefines ==
    ASSUME IInv, ClientShutdown
    PROVE  Promise!RNext
  <1> DEFINE C == {c \in Calls : call[c] \in {"idle", "waiting"}}
  <1>1. answered' = answered /\ C \in SUBSET Calls
    BY DEF ClientShutdown
  <1>2. /\ \A c \in C : Outcomes[c] = "none" /\ Outcomes'[c] = "error"
        /\ \A c \in Calls \ C : Outcomes'[c] = Outcomes[c]
    BY DEF ClientShutdown, Outcomes, Statuses
  <1> HIDE DEF C
  <1> QED
    BY <1>1, <1>2, FailStep

(***************************************************************************)
(* RemoteCall over NATS keeps the same promise as over RabbitMQ: it        *)
(* returns once, with an error of the client or a status a server came to  *)
(* for this call (client.go:68-120, server.go:153-182).                    *)
(***************************************************************************)
THEOREM Refinement == Spec => RefinesRemoteCalls
  <1>1. Init => Promise!RInit
    BY DEF Init, Promise!RInit, Outcomes
  <1>2. IInv /\ [Next]_vars => [Promise!RNext]_(Promise!rvars)
    <2> SUFFICES ASSUME IInv, [Next]_vars
                 PROVE  [Promise!RNext]_(Promise!rvars)
      OBVIOUS
    <2>1. ASSUME NEW s \in Servers, RunHandler(s)
          PROVE  [Promise!RNext]_(Promise!rvars)
      <3> DEFINE c == serving[s]
      <3>1. PICK r \in StatusOf(c) : answered' = [answered EXCEPT ![c] = @ \cup {r}]
        BY <2>1 DEF RunHandler
      <3>2. c \in Calls /\ r \in Statuses
        BY <2>1, <3>1 DEF RunHandler, IInv, TypeOK, StatusOf, Statuses
      <3>3. Outcomes' = Outcomes
        BY <2>1 DEF RunHandler, client, Outcomes
      <3> HIDE DEF c
      <3>4. PICK d \in Calls : d = c
        BY <3>2
      <3>5. Promise!Answer(d, r)
        BY <3>1, <3>3, <3>4 DEF Promise!Answer
      <3> QED
        BY <3>2, <3>5 DEF Promise!RNext
    <2>2. ASSUME \/ \E s \in Servers :
                       \/ HandleMessage(s) \/ PublishReply(s) \/ Subscribe(s)
                       \/ SubscribeFails(s) \/ Shutdown(s) \/ Unsubscribe(s)
                       \/ CloseConnection(s)
                 \/ UNCHANGED vars
          PROVE  [Promise!RNext]_(Promise!rvars)
      <3>1. call' = call /\ answered' = answered
        BY <2>2 DEF HandleMessage, PublishReply, Subscribe, SubscribeFails, Shutdown,
           Unsubscribe, CloseConnection, client, vars
      <3> QED
        BY <3>1 DEF Promise!rvars, Outcomes
    <2> QED
      BY <2>1, <2>2, CallerRefines, ClientShutdownRefines DEF Next, Serve
  <1> QED
    BY <1>1, <1>2, Inductive, PTL DEF Spec, RefinesRemoteCalls, Promise!RSpec
=============================================================================
