--------------------------- MODULE RpcServerProofs ---------------------------
(***************************************************************************)
(* Proofs about RpcServer, for any requests, any router, any number of     *)
(* attempts, none included, and any number of lost connections.            *)
(***************************************************************************)
EXTENDS RpcServer, TLAPS

\* AttemptConnect, at the start or after a loss (connection.go:38-112).
LEMMA ConnectStep ==
    ASSUME IInv, AttemptConnect
    PROVE  IInv'
  <1>1. TypeOK'
    <2> USE DEF AttemptConnect, AttemptOk, AttemptFails, AttemptConnectOk, StartupFails,
                ReconnectFails, Overwrite
    <2>1. left' \in 0..Attempts
      <3>1. left \in 0..Attempts
        BY DEF IInv, TypeOK
      <3>2. left' \in {left, 0} \/ (left > 0 /\ left' = left - 1)
        BY DEF conn
      <3> QED
        BY <3>1, <3>2, AttemptsAssumption
    <2>2. /\ connection' \in {"nil", "open", "closed"}
          /\ channel' \in {"nil", "open", "closed"}
          /\ delivery' \in {"nil", "open", "closed"}
      BY DEF IInv, TypeOK, FailedFields, conn
    <2>3. /\ run' \in {run, "select", "exited"} /\ gor' \in {gor, "select", "returned"}
          /\ wasted' \in BOOLEAN /\ leaked' \in BOOLEAN
          /\ notify' \in {notify, TRUE} /\ attemptErr' \in {attemptErr, TRUE, FALSE}
          /\ UNCHANGED <<stop, calls, drops>>
      BY DEF IInv, TypeOK, conn
    <2> QED
      BY <2>1, <2>2, <2>3 DEF IInv, TypeOK, calls
  <1>2. PlaceInv'
    BY DEF IInv, PlaceInv, Answered, AttemptConnect, AttemptOk, AttemptFails,
           AttemptConnectOk, StartupFails, ReconnectFails, calls
  <1>3. AckInv'
    BY DEF IInv, AckInv, AttemptConnect, AttemptOk, AttemptFails, AttemptConnectOk,
           StartupFails, ReconnectFails
  <1>4. AnsweredOnce'
    BY DEF IInv, AnsweredOnce, AttemptConnect, AttemptOk, AttemptFails, AttemptConnectOk,
           StartupFails, ReconnectFails, calls
  <1>5. LifeInv'
    <2> USE DEF IInv, LifeInv, RunInv, LinkInv, WasteInv, EndIsKnown, conn, calls
    <2>1. CASE AttemptOk
      <3>1. WasteInv'
        BY <2>1 DEF AttemptOk, Overwrite
      <3>2. RunInv' /\ LinkInv' /\ EndIsKnown'
        BY <2>1 DEF AttemptOk
      <3> QED
        BY <3>1, <3>2 DEF LifeInv
    <2>2. CASE AttemptFails
      <3>1. delivery # "open" /\ delivery' # "open"
        BY <2>2 DEF AttemptFails, FailedFields
      <3> QED
        BY <2>2, <3>1 DEF AttemptFails, Overwrite
    <2>3. CASE AttemptConnectOk
      BY <2>3 DEF AttemptConnectOk
    <2>4. CASE StartupFails
      BY <2>4 DEF StartupFails
    <2>5. CASE ReconnectFails
      BY <2>5 DEF ReconnectFails
    <2> QED
      BY <2>1, <2>2, <2>3, <2>4, <2>5 DEF AttemptConnect
  <1> QED
    BY <1>1, <1>2, <1>3, <1>4, <1>5 DEF IInv

\* The goroutine ends, or reconnects (server.go:127-151).
LEMMA SelectStep ==
    ASSUME IInv, ObserveStop \/ Reconnect
    PROVE  IInv'
  <1>1. TypeOK'
    <2>1. left' \in 0..Attempts
      BY AttemptsAssumption DEF IInv, TypeOK, ObserveStop, Reconnect, conn
    <2>2. gor' \in {"connect", "returned"} /\ attemptErr' \in BOOLEAN
      BY DEF IInv, TypeOK, ObserveStop, Reconnect, conn
    <2>3. UNCHANGED <<run, stop, notify, connection, channel, delivery, wasted, leaked, calls,
                    drops>>
      BY DEF ObserveStop, Reconnect, conn
    <2> QED
      BY <2>1, <2>2, <2>3 DEF IInv, TypeOK, calls
  <1>2. PlaceInv'
    BY DEF IInv, PlaceInv, Answered, ObserveStop, Reconnect, calls
  <1>3. AckInv'
    BY DEF IInv, AckInv, ObserveStop, Reconnect
  <1>4. AnsweredOnce'
    BY DEF IInv, AnsweredOnce, ObserveStop, Reconnect, calls
  <1>5. LifeInv'
    BY DEF IInv, TypeOK, PlaceInv, LifeInv, RunInv, LinkInv, WasteInv, EndIsKnown, ObserveStop,
           Reconnect, conn, calls
  <1> QED
    BY <1>1, <1>2, <1>3, <1>4, <1>5 DEF IInv

\* A request leaves the queue (server.go:134-144).
LEMMA ReceiveStep ==
    ASSUME IInv, Receive
    PROVE  IInv'
  <1>1. TypeOK'
    BY DEF IInv, TypeOK, Receive, conn
  <1>2. PlaceInv'
    BY DEF IInv, PlaceInv, Answered, Receive
  <1>3. AckInv'
    BY DEF IInv, AckInv, Receive
  <1>4. AnsweredOnce'
    BY DEF IInv, AnsweredOnce, Receive
  <1>5. LifeInv'
    BY DEF IInv, TypeOK, PlaceInv, LifeInv, RunInv, LinkInv, WasteInv, EndIsKnown, Receive,
           conn, calls
  <1> QED
    BY <1>1, <1>2, <1>3, <1>4, <1>5 DEF IInv

\* The reply is published, or lost with the channel (server.go:156-205).
LEMMA ReplyStep ==
    ASSUME IInv, Reply
    PROVE  IInv'
  <1>1. PICK status \in Statuses :
           replies' = IF channel = "open" THEN replies \cup {<<current, status>>} ELSE replies
    BY DEF Reply, StatusOf, Statuses
  <1>2. /\ gor = "serve" /\ gor' = "ack"
        /\ UNCHANGED <<run, stop, notify, conn, queue, current, arrived, acked, drops>>
    BY DEF Reply
  <1>3. current \in Requests /\ current \in arrived /\ current \notin queue
        /\ ~Answered(current)
    BY <1>2 DEF IInv, TypeOK, PlaceInv
  <1>4. replies \in SUBSET (Requests \X Statuses)
    BY DEF IInv, TypeOK
  <1>5. replies' \in SUBSET (Requests \X Statuses)
    BY <1>1, <1>3, <1>4
  <1>6. \A r \in Requests : Answered(r)' <=> Answered(r) \/ (r = current /\ channel = "open")
    BY <1>1, <1>3 DEF Answered
  <1>7. TypeOK'
    BY <1>2, <1>5 DEF IInv, TypeOK, conn
  <1>8. PlaceInv'
    BY <1>2, <1>3, <1>6 DEF IInv, TypeOK, PlaceInv
  <1>9. AckInv'
    BY <1>2, <1>3, <1>6 DEF AckInv, conn
  <1>10. AnsweredOnce'
    <2>1. \A r \in acked' : \E st \in Statuses : <<r, st>> \in replies'
      BY <1>1, <1>2 DEF IInv, AnsweredOnce
    <2>2. \A a \in replies : a[1] # current
      BY <1>3, <1>4 DEF Answered
    <2>3. \A a, b \in replies' : a[1] = b[1] => a = b
      BY <1>1, <2>2 DEF IInv, AnsweredOnce
    <2> QED
      BY <2>1, <2>3 DEF AnsweredOnce
  <1>11. LifeInv'
    BY DEF IInv, TypeOK, PlaceInv, LifeInv, RunInv, LinkInv, WasteInv, EndIsKnown, Reply,
           conn, calls
  <1> QED
    BY <1>7, <1>8, <1>9, <1>10, <1>11 DEF IInv

\* The deferred Ack (server.go:154).
LEMMA AckStep ==
    ASSUME IInv, Ack
    PROVE  IInv'
  <1>1. TypeOK'
    <2>1. acked' \in SUBSET Requests
      <3>1. current \in Requests
        BY DEF Ack, IInv, TypeOK, PlaceInv
      <3> QED
        BY <3>1 DEF Ack, IInv, TypeOK
    <2>2. /\ current' = NoRequest /\ gor' = "select"
          /\ UNCHANGED <<run, stop, notify, conn, queue, arrived, replies, drops>>
      BY DEF Ack
    <2> QED
      BY <2>1, <2>2 DEF IInv, TypeOK, conn
  <1>2. PlaceInv'
    BY DEF IInv, PlaceInv, Answered, Ack
  <1>3. AckInv'
    BY DEF IInv, AckInv, Ack
  <1>4. AnsweredOnce'
    BY DEF IInv, AckInv, AnsweredOnce, Answered, Ack
  <1>5. LifeInv'
    BY DEF IInv, TypeOK, PlaceInv, LifeInv, RunInv, LinkInv, WasteInv, EndIsKnown, Ack,
           conn, calls
  <1> QED
    BY <1>1, <1>2, <1>3, <1>4, <1>5 DEF IInv

\* Shutdown, and the close of the connection (server.go:100-125).
LEMMA CloseStep ==
    ASSUME IInv, Shutdown \/ Close
    PROVE  IInv'
  <1>1. TypeOK'
    BY DEF IInv, TypeOK, Shutdown, Close, CloseConnection, ClosePanics, conn, calls
  <1>2. PlaceInv'
    BY DEF IInv, PlaceInv, Answered, Shutdown, Close, CloseConnection, ClosePanics, calls
  <1>3. AckInv'
    BY DEF IInv, AckInv, Answered, Shutdown, Close, CloseConnection, ClosePanics, conn,
           calls
  <1>4. AnsweredOnce'
    BY DEF IInv, AnsweredOnce, Shutdown, Close, CloseConnection, ClosePanics, calls
  <1>5. LifeInv'
    <2> USE DEF IInv, TypeOK, PlaceInv, LifeInv, RunInv, LinkInv, WasteInv, EndIsKnown, conn,
                calls
    <2>1. CASE Shutdown
      BY <2>1 DEF Shutdown
    <2>2. CASE CloseConnection
      BY <2>2 DEF CloseConnection
    <2>3. CASE ClosePanics
      BY <2>3 DEF ClosePanics
    <2> QED
      BY <2>1, <2>2, <2>3 DEF Close
  <1> QED
    BY <1>1, <1>2, <1>3, <1>4, <1>5 DEF IInv

\* A request is published, once.
LEMMA ArriveStep ==
    ASSUME IInv, NEW r \in Requests, Arrive(r)
    PROVE  IInv'
  <1>1. TypeOK'
    BY DEF IInv, TypeOK, Arrive, conn
  <1>2. PlaceInv'
    BY DEF IInv, PlaceInv, Answered, Arrive
  <1>3. AckInv'
    BY DEF IInv, AckInv, Answered, Arrive, conn
  <1>4. AnsweredOnce'
    BY DEF IInv, AnsweredOnce, Arrive
  <1>5. LifeInv'
    BY DEF IInv, TypeOK, PlaceInv, LifeInv, RunInv, LinkInv, WasteInv, EndIsKnown, Arrive,
           conn, calls
  <1> QED
    BY <1>1, <1>2, <1>3, <1>4, <1>5 DEF IInv

\* The queue goes with the connection (connection.go:82-89), or stays without
\* a consumer.
LEMMA DropStep ==
    ASSUME IInv, Drop \/ CloseChannel
    PROVE  IInv'
  <1>1. TypeOK'
    <2>1. drops' \in 0..MaxDrops
      BY MaxDropsAssumption DEF IInv, TypeOK, Drop, CloseChannel
    <2>2. /\ connection' \in {connection, "closed"} /\ channel' = "closed"
          /\ delivery' = "closed" /\ queue' = {} /\ wasted' \in BOOLEAN
          /\ UNCHANGED <<run, gor, stop, notify, left, attemptErr, leaked, current,
                         arrived, replies, acked>>
      BY DEF IInv, TypeOK, Drop, CloseChannel
    <2> QED
      BY <2>1, <2>2 DEF IInv, TypeOK
  <1>2. PlaceInv'
    BY DEF IInv, PlaceInv, Answered, Drop, CloseChannel
  <1>3. AckInv'
    BY DEF IInv, AckInv, Drop, CloseChannel
  <1>4. AnsweredOnce'
    BY DEF IInv, AnsweredOnce, Drop, CloseChannel
  <1>5. LifeInv'
    BY DEF IInv, TypeOK, PlaceInv, LifeInv, RunInv, LinkInv, WasteInv, EndIsKnown, Drop,
           CloseChannel, conn, calls
  <1> QED
    BY <1>1, <1>2, <1>3, <1>4, <1>5 DEF IInv

-----------------------------------------------------------------------------
(* The theorems *)

\* A request is in one place, and answered at most once (server.go:127-185).
THEOREM Inductive == Spec => []IInv
  <1>1. Init => IInv
    <2> SUFFICES ASSUME Init PROVE IInv
      OBVIOUS
    <2>1. left \in 0..Attempts /\ drops \in 0..MaxDrops
      BY AttemptsAssumption, MaxDropsAssumption DEF Init
    <2>2. TypeOK
      BY <2>1 DEF Init, TypeOK
    <2>3. PlaceInv /\ AckInv /\ AnsweredOnce
      BY DEF Init, PlaceInv, AckInv, AnsweredOnce, Answered
    <2>4. LifeInv
      BY DEF Init, LifeInv, RunInv, LinkInv, WasteInv, EndIsKnown
    <2> QED
      BY <2>2, <2>3, <2>4 DEF IInv
  <1>2. IInv /\ [Next]_vars => IInv'
    <2> SUFFICES ASSUME IInv, [Next]_vars PROVE IInv'
      OBVIOUS
    <2>1. CASE Next
      BY <2>1, ConnectStep, SelectStep, ReceiveStep, ReplyStep, AckStep, CloseStep,
         ArriveStep, DropStep DEF Next
    <2>2. CASE UNCHANGED vars
      <3> USE <2>2 DEF vars, conn, calls
      <3>1. TypeOK'
        BY DEF IInv, TypeOK
      <3>2. PlaceInv'
        BY DEF IInv, PlaceInv, Answered
      <3>3. AckInv' /\ AnsweredOnce'
        BY DEF IInv, AckInv, AnsweredOnce, Answered
      <3>4. LifeInv'
        BY DEF IInv, LifeInv, RunInv, LinkInv, WasteInv, EndIsKnown
      <3> QED
        BY <3>1, <3>2, <3>3, <3>4 DEF IInv
    <2> QED
      BY <2>1, <2>2
  <1> QED
    BY <1>1, <1>2, PTL DEF Spec

\* An acknowledged request has an answer, and none has two
\* (server.go:153-185).
THEOREM EachAnsweredOnce == Spec => []AnsweredOnce
  <1>1. IInv => AnsweredOnce
    BY DEF IInv
  <1> QED
    BY <1>1, Inductive, PTL

\* The goroutine of the server never ends unnoticed (server.go:76-89).
THEOREM EndsAreKnown == Spec => []EndIsKnown
  <1>1. IInv => EndIsKnown
    BY DEF IInv, LifeInv
  <1> QED
    BY <1>1, Inductive, PTL

\* After Shutdown nothing waits for the server, and a connection it leaves open
\* is one whose making failed or whose channel was closed (server.go:100-125).
THEOREM NothingIsHeld == Spec => []NothingHeld
  <1>1. IInv => NothingHeld
    BY DEF IInv, LifeInv, RunInv, LinkInv, WasteInv, NothingHeld
  <1> QED
    BY <1>1, Inductive, PTL

\* Shutdown panics only on a server that has given up, or that was to make
\* no attempt (server.go:115).
THEOREM PanicHasCause == Spec => []PanicCause
  <1>1. IInv => PanicCause
    BY DEF IInv, LifeInv, RunInv, LinkInv, PanicCause
  <1> QED
    BY <1>1, Inductive, PTL

-----------------------------------------------------------------------------
(* The refinement *)

\* The reply answers the request being served, or is lost with the channel.
LEMMA ReplyRefines ==
    ASSUME IInv, Reply
    PROVE  Service!SNext
  <1>1. PICK status \in Statuses :
           replies' = IF channel = "open" THEN replies \cup {<<current, status>>} ELSE replies
    BY DEF Reply, StatusOf, Statuses
  <1>2. /\ gor = "serve" /\ gor' = "ack"
        /\ UNCHANGED <<queue, current, arrived, acked>>
    BY DEF Reply
  <1>3. current \in Requests /\ current \notin queue
    BY <1>2 DEF IInv, TypeOK, PlaceInv
  <1>4. current \in Open /\ Open' = Open \ {current}
    BY <1>2, <1>3 DEF Open
  <1>5. CASE channel = "open"
    <2>1. Service!Answer(current, status)
      BY <1>1, <1>2, <1>4, <1>5 DEF Service!Answer
    <2>2. PICK r \in Requests : r = current
      BY <1>3
    <2> QED
      BY <2>1, <2>2 DEF Service!SNext
  <1>6. CASE channel # "open"
    <2> DEFINE S == {current}
    <2>1. S \in SUBSET Requests /\ S \subseteq Open /\ Open' = Open \ S
      BY <1>3, <1>4
    <2> HIDE DEF S
    <2>2. Service!Lose(S)
      BY <1>1, <1>2, <1>6, <2>1 DEF Service!Lose
    <2> QED
      BY <2>1, <2>2 DEF Service!SNext
  <1> QED
    BY <1>5, <1>6

\* An Ack settles what was answered, or fails with the channel.
LEMMA AckRefines ==
    ASSUME IInv, Ack
    PROVE  [Service!SNext]_(Service!svars)
  <1>1. Open' = Open /\ UNCHANGED <<arrived, replies>>
    BY DEF Ack, Open
  <1>2. CASE channel = "open"
    <2>1. PICK status \in Statuses : <<current, status>> \in replies
      BY <1>2 DEF Ack, IInv, AckInv, Answered
    <2>2. Service!Settle(current, status)
      BY <1>1, <1>2, <2>1 DEF Ack, Service!Settle
    <2>3. PICK r \in Requests : r = current
      BY <2>1 DEF IInv, TypeOK
    <2> QED
      BY <2>2, <2>3 DEF Service!SNext
  <1>3. CASE channel # "open"
    BY <1>1, <1>3 DEF Ack, Service!svars
  <1> QED
    BY <1>2, <1>3

\* With the connection, or at the end, what waits in the queue is lost.
LEMMA LoseRefines ==
    ASSUME IInv, Drop \/ CloseChannel \/ CloseConnection
    PROVE  Service!SNext
  <1> DEFINE S == queue
  <1>1. S \in SUBSET Requests /\ S \subseteq Open
    BY DEF IInv, TypeOK, Open
  <1>2. Open' = Open \ S
    BY DEF Drop, CloseChannel, CloseConnection, Open, IInv, PlaceInv
  <1>3. UNCHANGED <<arrived, replies, acked>>
    BY DEF Drop, CloseChannel, CloseConnection
  <1> HIDE DEF S
  <1>4. Service!Lose(S)
    BY <1>1, <1>2, <1>3 DEF Service!Lose
  <1> QED
    BY <1>1, <1>4 DEF Service!SNext

\* A request is owed an answer if it finds a queue.
LEMMA ArriveRefines ==
    ASSUME IInv, NEW r \in Requests, Arrive(r)
    PROVE  Service!SNext
  <1>1. Open' \in {Open, Open \cup {r}}
    BY DEF Arrive, Open
  <1>2. Service!Ask(r)
    BY <1>1 DEF Arrive, Service!Ask
  <1> QED
    BY <1>2 DEF Service!SNext

(***************************************************************************)
(* The server implements RequestService: each request is answered once or  *)
(* lost for good, and settled only when answered (server.go:127-203).      *)
(***************************************************************************)
THEOREM Refinement == Spec => RefinesRequestService
  <1>1. Init => Service!SInit
    BY DEF Init, Service!SInit, Open
  <1>2. IInv /\ [Next]_vars => [Service!SNext]_(Service!svars)
    <2> SUFFICES ASSUME IInv, [Next]_vars
                 PROVE  [Service!SNext]_(Service!svars)
      OBVIOUS
    <2>1. CASE AttemptConnect \/ ObserveStop \/ Reconnect \/ Shutdown \/ ClosePanics
      <3>1. UNCHANGED calls /\ (gor = "serve") = (gor' = "serve")
        BY <2>1 DEF AttemptConnect, AttemptOk, AttemptFails, AttemptConnectOk, StartupFails,
           ReconnectFails, ObserveStop, Reconnect, Shutdown, ClosePanics
      <3> QED
        BY <3>1 DEF calls, Open, Service!svars
    <2>2. CASE Receive
      <3>1. PICK r \in queue : current' = r /\ queue' = queue \ {r}
        BY <2>2 DEF Receive
      <3>2. gor # "serve" /\ gor' = "serve" /\ UNCHANGED <<arrived, replies, acked>>
        BY <2>2 DEF Receive
      <3>3. Open' = Open
        BY <3>1, <3>2 DEF Open
      <3> QED
        BY <3>2, <3>3 DEF Service!svars
    <2>3. CASE UNCHANGED vars
      BY <2>3 DEF vars, calls, Open, Service!svars
    <2> QED
      BY <2>1, <2>2, <2>3, ReplyRefines, AckRefines, LoseRefines, ArriveRefines
         DEF Next, Close
  <1> QED
    BY <1>1, <1>2, Inductive, PTL DEF Spec, RefinesRequestService, Service!SSpec
=============================================================================
