--------------------------- MODULE RpcClientProofs ---------------------------
(***************************************************************************)
(* Proofs about RpcClient, for any calls and servers, any number of        *)
(* attempts to connect, none included, and any number of lost connections. *)
(***************************************************************************)
EXTENDS RpcClient, TLAPS

\* A call is turned away or goes on (client.go:158-170).
LEMMA PreWaitStep ==
    ASSUME IInv, NEW c \in Calls, PreWaitFails(c) \/ PreWaitOk(c)
    PROVE  IInv'
  <1>1. TypeOK'
    <2>1. at' \in [Calls -> {"idle", "publish", "add", "wait", "delete", "returned"}]
      BY DEF IInv, TypeOK, PreWaitFails, PreWaitOk, Go
    <2>2. result' \in [Calls -> Results]
      BY DEF IInv, TypeOK, Results, Errors, PreWaitFails, PreWaitOk, Interrupted, Result
    <2>3. panic' \in {"none", "nil channel", "nil connection", "close of closed channel"}
          /\ gor' \in {"select", "connect", "sending", "failed", "returned"}
      BY DEF IInv, TypeOK, PreWaitFails, PreWaitOk, Interrupted, conn
    <2>4. requests' \in [Servers -> SUBSET Calls]
      BY DEF IInv, TypeOK, PreWaitFails, PreWaitOk, world
    <2> QED
      BY <2>1, <2>2, <2>3, <2>4 DEF IInv, TypeOK, PreWaitFails, PreWaitOk, pending, conn,
         world
  <1>2. LeftInv'
    BY DEF IInv, LeftInv, PreWaitFails, PreWaitOk, Interrupted, conn
  <1>3. AnswerInv'
    BY DEF IInv, AnswerInv, PreWaitFails, PreWaitOk, pending, world
  <1>4. OutcomeIsAnswer'
    BY DEF IInv, TypeOK, OutcomeIsAnswer, Statuses, PreWaitFails, PreWaitOk, Interrupted,
           Result, world
  <1>5. NoPendingLeak'
    BY DEF IInv, TypeOK, NoPendingLeak, PreWaitFails, PreWaitOk, Go, pending
  <1>6. OnceInv'
    BY DEF IInv, TypeOK, OnceInv, PreWaitFails, PreWaitOk, Interrupted, Go, Result
  <1>7. NilInv'
    <2>1. gor' = gor \/ (gor = "sending" /\ gor' = "failed")
      BY DEF PreWaitFails, PreWaitOk, Interrupted, conn
    <2>2. UNCHANGED <<dialed, channel, delivery>>
      BY DEF PreWaitFails, PreWaitOk, conn
    <2> QED
      BY <2>1, <2>2 DEF IInv, NilInv, Away
  <1>8. CopyInv'
    <2>1. UNCHANGED <<requests, sent, replies, done>>
      BY DEF PreWaitFails, PreWaitOk, pending, world
    <2>2. at[c] = "idle" /\ \A d \in Calls : d # c => at'[d] = at[d]
      BY DEF IInv, TypeOK, PreWaitFails, PreWaitOk, Go
    <2>3. /\ \A s \in Servers : requests[s] \subseteq Calls
          /\ \A a \in sent : a[1] \in Calls
      BY DEF IInv, TypeOK
    <2> QED
      BY <2>1, <2>2, <2>3 DEF IInv, CopyInv
  <1>9. PanicsHaveCauses'
    BY DEF IInv, TypeOK, NilInv, PanicsHaveCauses, Away, Alive, PreWaitFails, PreWaitOk,
           Interrupted, Go, conn, world
  <1> QED
    BY <1>1, <1>2, <1>3, <1>4, <1>5, <1>6, <1>7, <1>8, <1>9 DEF IInv

\* Publish, with whatever channel there is (client.go:272-303).
LEMMA PublishStep ==
    ASSUME IInv, NEW c \in Calls, Publish(c)
    PROVE  IInv'
  <1>1. TypeOK'
    <2>1. at' \in [Calls -> {"idle", "publish", "add", "wait", "delete", "returned"}]
      BY DEF IInv, TypeOK, Publish, Go, caller
    <2>2. result' \in [Calls -> Results]
      BY DEF IInv, TypeOK, Results, Errors, Publish, Result, caller
    <2>3. panic' \in {"none", "nil channel", "nil connection", "close of closed channel"}
          /\ gor' \in {"select", "connect", "sending", "failed", "returned"}
      BY DEF IInv, TypeOK, Publish, conn
    <2>4. requests' \in [Servers -> SUBSET Calls]
      <3>1. requests \in [Servers -> SUBSET Calls]
        BY DEF IInv, TypeOK
      <3>2. requests' = requests \/ requests' = [s \in Servers |-> requests[s] \cup {c}]
        BY DEF Publish
      <3> QED
        BY <3>1, <3>2
    <2> QED
      BY <2>1, <2>2, <2>3, <2>4 DEF IInv, TypeOK, Publish, pending, conn
  <1>2. LeftInv'
    BY DEF IInv, LeftInv, Publish, conn
  <1>3. AnswerInv'
    BY DEF IInv, AnswerInv, Publish, pending
  <1>4. OutcomeIsAnswer'
    BY DEF IInv, TypeOK, OutcomeIsAnswer, Statuses, Publish, Result, caller
  <1>5. NoPendingLeak'
    BY DEF IInv, TypeOK, NoPendingLeak, Publish, Go, caller, pending
  <1>6. OnceInv'
    BY DEF IInv, TypeOK, OnceInv, Publish, Go, Result, caller
  <1>7. NilInv'
    BY DEF IInv, TypeOK, NilInv, Away, Publish, Go, conn
  <1>8. CopyInv'
    <2>1. /\ at[c] = "publish" /\ UNCHANGED <<done, sent, replies>>
          /\ at' \in {at, [at EXCEPT ![c] = "add"], [at EXCEPT ![c] = "returned"]}
          /\ \/ requests' = requests
             \/ at' = [at EXCEPT ![c] = "add"]
                /\ requests' = [s \in Servers |-> requests[s] \cup {c}]
      BY DEF Publish, Go, caller, pending
    <2>2. \A a \in sent : a[1] # c
      BY <2>1 DEF IInv, CopyInv
    <2>3. at \in [Calls -> {"idle", "publish", "add", "wait", "delete", "returned"}]
      BY DEF IInv, TypeOK
    <2>4. \A d \in Calls : at[d] \notin {"idle", "publish"} => at'[d] \notin {"idle", "publish"}
      BY <2>1, <2>3
    <2>5. \A s \in Servers : \A d \in requests'[s] :
             d \in requests[s] \/ (d = c /\ at'[c] = "add")
      <3>1. CASE requests' = requests
        BY <3>1
      <3>2. CASE /\ at' = [at EXCEPT ![c] = "add"]
                 /\ requests' = [s \in Servers |-> requests[s] \cup {c}]
        <4>1. at'[c] = "add"
          BY <2>3, <3>2
        <4> QED
          BY <3>2, <4>1
      <3> QED
        BY <2>1, <3>1, <3>2
    <2>6. \A s \in Servers : requests[s] \subseteq Calls
      BY DEF IInv, TypeOK
    <2>7. \A a \in sent : a[1] \in Calls
      BY DEF IInv, TypeOK
    <2> QED
      BY <2>1, <2>2, <2>4, <2>5, <2>6, <2>7 DEF IInv, CopyInv
  <1>9. PanicsHaveCauses'
    BY DEF IInv, TypeOK, NilInv, PanicsHaveCauses, Away, Alive, Publish, Go, conn, world
  <1> QED
    BY <1>1, <1>2, <1>3, <1>4, <1>5, <1>6, <1>7, <1>8, <1>9 DEF IInv

\* The call is registered (client.go:130-133).
LEMMA AddCallStep ==
    ASSUME IInv, NEW c \in Calls, AddCall(c)
    PROVE  IInv'
  <1>1. TypeOK'
    BY DEF IInv, TypeOK, AddCall, Go, conn, world
  <1>2. LeftInv'
    BY DEF IInv, LeftInv, AddCall, conn
  <1>3. AnswerInv'
    BY DEF IInv, AnswerInv, AddCall, world
  <1>4. OutcomeIsAnswer'
    BY DEF IInv, OutcomeIsAnswer, AddCall, world
  <1>5. NoPendingLeak'
    BY DEF IInv, TypeOK, NoPendingLeak, AddCall, Go
  <1>6. OnceInv'
    BY DEF IInv, TypeOK, OnceInv, AddCall, Go
  <1>7. NilInv'
    BY DEF IInv, TypeOK, NilInv, Away, AddCall, Go, conn
  <1>8. CopyInv'
    BY DEF IInv, TypeOK, CopyInv, AddCall, Go, caller, pending, world
  <1>9. PanicsHaveCauses'
    BY DEF IInv, TypeOK, NilInv, PanicsHaveCauses, Away, Alive, AddCall, Go, conn, world
  <1> QED
    BY <1>1, <1>2, <1>3, <1>4, <1>5, <1>6, <1>7, <1>8, <1>9 DEF IInv

\* Context, notify, stop or timer (client.go:172-189).
LEMMA WaitFailsStep ==
    ASSUME IInv, NEW c \in Calls, WaitFails(c)
    PROVE  IInv'
  <1>1. TypeOK'
    <2>1. at' \in [Calls -> {"idle", "publish", "add", "wait", "delete", "returned"}]
      BY DEF IInv, TypeOK, WaitFails, Go
    <2>2. result' \in [Calls -> Results]
      BY DEF IInv, TypeOK, Results, Errors, WaitFails, Interrupted, Result
    <2>3. panic' \in {"none", "nil channel", "nil connection", "close of closed channel"}
          /\ gor' \in {"select", "connect", "sending", "failed", "returned"}
      BY DEF IInv, TypeOK, WaitFails, Interrupted
    <2>4. requests' \in [Servers -> SUBSET Calls]
      BY DEF IInv, TypeOK, WaitFails, world
    <2> QED
      BY <2>1, <2>2, <2>3, <2>4 DEF IInv, TypeOK, WaitFails, pending, world
  <1>2. LeftInv'
    BY DEF IInv, LeftInv, WaitFails, Interrupted
  <1>3. AnswerInv'
    BY DEF IInv, AnswerInv, WaitFails, pending, world
  <1>4. OutcomeIsAnswer'
    BY DEF IInv, TypeOK, OutcomeIsAnswer, Statuses, WaitFails, Interrupted, Result, world
  <1>5. NoPendingLeak'
    BY DEF IInv, NoPendingLeak, WaitFails, Go, pending
  <1>6. OnceInv'
    BY DEF IInv, TypeOK, OnceInv, WaitFails, Interrupted, Go, Result
  <1>7. NilInv'
    BY DEF IInv, TypeOK, NilInv, Away, WaitFails, Interrupted, Go, conn
  <1>8. CopyInv'
    BY DEF IInv, TypeOK, CopyInv, WaitFails, Interrupted, Go, caller, pending, world
  <1>9. PanicsHaveCauses'
    BY DEF IInv, TypeOK, NilInv, PanicsHaveCauses, Away, Alive, WaitFails, Interrupted, Go,
           conn, world
  <1> QED
    BY <1>1, <1>2, <1>3, <1>4, <1>5, <1>6, <1>7, <1>8, <1>9 DEF IInv

\* The answer decides what is returned (client.go:141-153).
LEMMA WaitOkStep ==
    ASSUME IInv, NEW c \in Calls, WaitOk(c)
    PROVE  IInv'
  <1>1. TypeOK'
    <2>1. result' \in [Calls -> Results]
      BY DEF IInv, TypeOK, Results, Errors, WaitOk, Result
    <2>2. at' \in [Calls -> {"idle", "publish", "add", "wait", "delete", "returned"}]
      BY DEF IInv, TypeOK, WaitOk, Go
    <2> QED
      BY <2>1, <2>2 DEF IInv, TypeOK, WaitOk, pending, conn, world
  <1>2. LeftInv'
    BY DEF IInv, LeftInv, WaitOk, conn
  <1>3. AnswerInv'
    BY DEF IInv, AnswerInv, WaitOk, pending, world
  <1>4. OutcomeIsAnswer'
    <2>1. PICK r : Result(c, r) /\ r \in {status[c], "unmarshal error"}
      BY DEF WaitOk
    <2>2. \A d \in Calls : result'[d] = IF d = c THEN r ELSE result[d]
      BY <2>1 DEF IInv, TypeOK, Result
    <2>3. c \in done /\ sent' = sent
      BY DEF WaitOk, world
    <2>4. r \in Statuses => r = status[c]
      BY <2>1 DEF Statuses
    <2> QED
      BY <2>2, <2>3, <2>4 DEF IInv, AnswerInv, OutcomeIsAnswer
  <1>5. NoPendingLeak'
    <2>1. at[c] = "wait" /\ registered' = registered /\ Go(c, "delete")
      BY DEF WaitOk, pending
    <2> QED
      BY <2>1 DEF IInv, TypeOK, NoPendingLeak, Go
  <1>6. OnceInv'
    BY DEF IInv, TypeOK, OnceInv, WaitOk, Go, Result
  <1>7. NilInv'
    BY DEF IInv, TypeOK, NilInv, Away, WaitOk, Go, conn
  <1>8. CopyInv'
    BY DEF IInv, TypeOK, CopyInv, WaitOk, Go, caller, pending, world
  <1>9. PanicsHaveCauses'
    BY DEF IInv, TypeOK, NilInv, PanicsHaveCauses, Away, Alive, WaitOk, Go, conn, world
  <1> QED
    BY <1>1, <1>2, <1>3, <1>4, <1>5, <1>6, <1>7, <1>8, <1>9 DEF IInv

\* The deferred deleteCall (client.go:130-134).
LEMMA DeleteCallStep ==
    ASSUME IInv, NEW c \in Calls, DeleteCall(c)
    PROVE  IInv'
  <1>1. TypeOK'
    BY DEF IInv, TypeOK, DeleteCall, Go, conn, world
  <1>2. LeftInv'
    BY DEF IInv, LeftInv, DeleteCall, conn
  <1>3. AnswerInv'
    BY DEF IInv, AnswerInv, DeleteCall, world
  <1>4. OutcomeIsAnswer'
    BY DEF IInv, OutcomeIsAnswer, DeleteCall, world
  <1>5. NoPendingLeak'
    BY DEF IInv, TypeOK, NoPendingLeak, DeleteCall, Go
  <1>6. OnceInv'
    BY DEF IInv, TypeOK, OnceInv, DeleteCall, Go
  <1>7. NilInv'
    BY DEF IInv, TypeOK, NilInv, Away, DeleteCall, Go, conn
  <1>8. CopyInv'
    BY DEF IInv, TypeOK, CopyInv, DeleteCall, Go, caller, pending, world
  <1>9. PanicsHaveCauses'
    BY DEF IInv, TypeOK, NilInv, PanicsHaveCauses, Away, Alive, DeleteCall, Go, conn, world
  <1> QED
    BY <1>1, <1>2, <1>3, <1>4, <1>5, <1>6, <1>7, <1>8, <1>9 DEF IInv

\* A reply reaches its call, if it is registered (client.go:232-243).
LEMMA ServeCallStep ==
    ASSUME IInv, ServeCall
    PROVE  IInv'
  <1>1. TypeOK'
    BY DEF IInv, TypeOK, Statuses, ServeCall, caller, conn
  <1>2. LeftInv'
    BY DEF IInv, LeftInv, ServeCall, conn
  <1>3. AnswerInv'
    <2>1. PICK reply \in replies :
             /\ replies' = replies \ {reply}
             /\ \/ UNCHANGED <<done, status>>
                \/ /\ status' = [status EXCEPT ![reply[1]] = reply[2]]
                   /\ done' = done \cup {reply[1]}
      BY DEF ServeCall
    <2>2. UNCHANGED sent
      BY DEF ServeCall
    <2>3. PICK c \in Calls, st \in Statuses, s \in Servers : reply = <<c, st, s>>
      <3>1. reply \in Calls \X Statuses \X Servers
        BY <2>1 DEF IInv, TypeOK
      <3> QED
        BY <3>1
    <2>4. <<c, st, s>> \in sent /\ reply[1] = c /\ reply[2] = st
      BY <2>1, <2>3 DEF IInv, AnswerInv
    <2>5. CASE UNCHANGED <<done, status>>
      BY <2>1, <2>2, <2>5 DEF IInv, AnswerInv
    <2>6. CASE /\ status' = [status EXCEPT ![c] = st]
               /\ done' = done \cup {c}
      <3>1. status'[c] = st /\ \A d \in Calls \ {c} : status'[d] = status[d]
        BY <2>6 DEF IInv, TypeOK
      <3> QED
        BY <2>1, <2>2, <2>4, <2>6, <3>1 DEF IInv, AnswerInv
    <2> QED
      BY <2>1, <2>4, <2>5, <2>6
  <1>4. OutcomeIsAnswer'
    BY DEF IInv, OutcomeIsAnswer, ServeCall, caller
  <1>5. NoPendingLeak'
    BY DEF IInv, NoPendingLeak, ServeCall, caller
  <1>6. OnceInv'
    BY DEF IInv, TypeOK, OnceInv, ServeCall, caller
  <1>7. NilInv'
    BY DEF IInv, TypeOK, NilInv, Away, ServeCall, conn
  <1>8. CopyInv'
    <2>1. PICK reply \in replies :
             /\ replies' = replies \ {reply}
             /\ done' = done \/ done' = done \cup {reply[1]}
      BY DEF ServeCall
    <2>2. UNCHANGED <<at, requests, sent>>
      BY DEF ServeCall, caller
    <2>3. reply \in sent
      BY <2>1 DEF IInv, AnswerInv
    <2>4. \A d \in done' : \E a \in sent : a[1] = d /\ a \notin replies'
      BY <2>1, <2>3 DEF IInv, CopyInv
    <2> QED
      BY <2>2, <2>4 DEF IInv, CopyInv
  <1>9. PanicsHaveCauses'
    <2>1. PICK reply \in replies :
             panic' # panic => reply[1] \in done /\ panic' = "close of closed channel"
      BY DEF ServeCall
    <2>2. UNCHANGED <<gor, shutdown, sent>> /\ panic = "none"
      BY DEF ServeCall, conn, Alive
    <2>3. ASSUME panic' # panic
          PROVE  \E a, b \in sent : a[1] = b[1] /\ a[3] # b[3]
      <3>1. PICK a \in sent : a[1] = reply[1] /\ a \notin replies
        BY <2>1, <2>3 DEF IInv, CopyInv
      <3>2. reply \in sent /\ a # reply
        BY <2>1, <3>1 DEF IInv, AnswerInv
      <3> QED
        BY <3>1, <3>2 DEF IInv, CopyInv
    <2> QED
      BY <2>1, <2>2, <2>3 DEF PanicsHaveCauses, Away
  <1> QED
    BY <1>1, <1>2, <1>3, <1>4, <1>5, <1>6, <1>7, <1>8, <1>9 DEF IInv

\* The goroutine ends or reconnects (client.go:191-230).
LEMMA GoroutineStep ==
    ASSUME IInv, ObserveStop \/ StartReconnect \/ AttemptOk \/ AttemptFails
    PROVE  IInv'
  <1>1. TypeOK'
    <2>1. left' \in 0..Attempts
      <3>1. left \in 0..Attempts /\ (gor = "connect" => left > 0)
        BY DEF IInv, TypeOK, LeftInv
      <3>2. left' \in {left, Attempts, 0} \/ (gor = "connect" /\ left' = left - 1)
        BY DEF ObserveStop, StartReconnect, AttemptOk, AttemptFails
      <3> QED
        BY <3>1, <3>2, AttemptsAssumption
    <2>2. /\ gor' \in {"select", "connect", "sending", "failed", "returned"}
          /\ dialed' \in BOOLEAN /\ channel' \in {"open", "closed", "nil"}
          /\ delivery' \in {"open", "closed", "nil"}
      BY DEF IInv, TypeOK, ObserveStop, StartReconnect, AttemptOk, AttemptFails
    <2>3. UNCHANGED <<caller, pending, stop, shutdown, panic, world>>
      BY DEF ObserveStop, StartReconnect, AttemptOk, AttemptFails
    <2> QED
      BY <2>1, <2>2, <2>3 DEF IInv, TypeOK, caller, pending, world
  <1>2. LeftInv'
    <2>1. CASE AttemptFails
      <3>1. left \in 0..Attempts /\ left > 0
        BY <2>1 DEF IInv, TypeOK, LeftInv, AttemptFails
      <3>2. left' = left - 1 /\ (left # 1 <=> gor' = "connect")
        BY <2>1 DEF AttemptFails
      <3> QED
        BY <3>1, <3>2 DEF LeftInv
    <2>2. CASE ObserveStop \/ StartReconnect \/ AttemptOk
      BY <2>2, AttemptsAssumption
         DEF IInv, NilInv, LeftInv, ObserveStop, StartReconnect, AttemptOk
    <2> QED
      BY <2>1, <2>2
  <1>3. AnswerInv'
    BY DEF IInv, AnswerInv, ObserveStop, StartReconnect, AttemptOk, AttemptFails, pending,
           world
  <1>4. OutcomeIsAnswer'
    BY DEF IInv, OutcomeIsAnswer, ObserveStop, StartReconnect, AttemptOk, AttemptFails,
           caller, world
  <1>5. NoPendingLeak'
    BY DEF IInv, NoPendingLeak, ObserveStop, StartReconnect, AttemptOk, AttemptFails,
           caller, pending
  <1>6. OnceInv'
    BY DEF IInv, TypeOK, OnceInv,
           ObserveStop, StartReconnect, AttemptOk, AttemptFails, caller
  <1>7. NilInv'
    <2>1. CASE ObserveStop
      BY <2>1 DEF IInv, NilInv, Away, ObserveStop
    <2>2. CASE StartReconnect
      BY <2>2 DEF IInv, NilInv, Away, StartReconnect
    <2>3. CASE AttemptOk
      BY <2>3 DEF IInv, NilInv, Away, AttemptOk
    <2>4. CASE AttemptFails
      BY <2>4 DEF IInv, NilInv, Away, AttemptFails
    <2> QED
      BY <2>1, <2>2, <2>3, <2>4
  <1>8. CopyInv'
    <2>1. UNCHANGED <<at, requests, sent, replies, done>>
      BY DEF ObserveStop, StartReconnect, AttemptOk, AttemptFails, caller, pending, world
    <2> QED
      BY <2>1 DEF IInv, CopyInv
  <1>9. PanicsHaveCauses'
    BY DEF IInv, TypeOK, NilInv, PanicsHaveCauses, Away, Alive, ObserveStop, StartReconnect,
           AttemptOk, AttemptFails, conn, world
  <1> QED
    BY <1>1, <1>2, <1>3, <1>4, <1>5, <1>6, <1>7, <1>8, <1>9 DEF IInv

\* Shutdown closes stop, waits, and closes the connection (client.go:96-115).
LEMMA ShutdownStep ==
    ASSUME IInv, ShutdownCalled \/ ShutdownReturns
    PROVE  IInv'
  <1>1. TypeOK'
    BY DEF IInv, TypeOK, ShutdownCalled, ShutdownReturns, caller, pending, conn, world
  <1>2. LeftInv'
    BY DEF IInv, LeftInv, ShutdownCalled, ShutdownReturns, conn
  <1>3. AnswerInv'
    BY DEF IInv, AnswerInv, ShutdownCalled, ShutdownReturns, pending, world
  <1>4. OutcomeIsAnswer'
    BY DEF IInv, OutcomeIsAnswer, ShutdownCalled, ShutdownReturns, caller, world
  <1>5. NoPendingLeak'
    BY DEF IInv, NoPendingLeak, ShutdownCalled, ShutdownReturns, caller, pending
  <1>6. OnceInv'
    BY DEF IInv, TypeOK, OnceInv, ShutdownCalled, ShutdownReturns, caller
  <1>7. NilInv'
    <2>1. CASE ShutdownCalled
      BY <2>1 DEF IInv, NilInv, Away, ShutdownCalled, conn
    <2>2. CASE ShutdownReturns
      BY <2>2 DEF IInv, NilInv, Away, ShutdownReturns
    <2> QED
      BY <2>1, <2>2
  <1>8. CopyInv'
    <2>1. UNCHANGED <<at, requests, sent, done>> /\ replies' \subseteq replies
      BY DEF ShutdownCalled, ShutdownReturns, caller, pending, world
    <2> QED
      BY <2>1 DEF IInv, CopyInv
  <1>9. PanicsHaveCauses'
    BY DEF IInv, TypeOK, NilInv, PanicsHaveCauses, Away, Alive, ShutdownCalled,
           ShutdownReturns, conn, world
  <1> QED
    BY <1>1, <1>2, <1>3, <1>4, <1>5, <1>6, <1>7, <1>8, <1>9 DEF IInv

\* A server answers, for the queue or for nobody (server.go:153-178).
LEMMA ServerRepliesStep ==
    ASSUME IInv, NEW s \in Servers, ServerReplies(s)
    PROVE  IInv'
  <1>1. TypeOK'
    <2>1. PICK c \in requests[s], st \in Statuses :
             /\ requests' = [requests EXCEPT ![s] = @ \ {c}]
             /\ sent' = sent \cup {<<c, st, s>>}
             /\ replies' = IF delivery = "open" THEN replies \cup {<<c, st, s>>} ELSE replies
      BY DEF ServerReplies
    <2>2. c \in Calls
      BY <2>1 DEF IInv, TypeOK
    <2>3. <<c, st, s>> \in Calls \X Statuses \X Servers
      BY <2>2
    <2>4. /\ sent' \in SUBSET (Calls \X Statuses \X Servers)
          /\ replies' \in SUBSET (Calls \X Statuses \X Servers)
      BY <2>1, <2>3 DEF IInv, TypeOK
    <2>5. requests' \in [Servers -> SUBSET Calls]
      BY <2>1 DEF IInv, TypeOK
    <2>6. UNCHANGED <<caller, pending, conn, stop, shutdown, panic, drops>>
      BY DEF ServerReplies
    <2> QED
      BY <2>4, <2>5, <2>6 DEF IInv, TypeOK, caller, pending, conn
  <1>2. LeftInv'
    BY DEF IInv, LeftInv, ServerReplies, conn
  <1>3. AnswerInv'
    BY DEF IInv, AnswerInv, ServerReplies, pending
  <1>4. OutcomeIsAnswer'
    BY DEF IInv, OutcomeIsAnswer, ServerReplies, caller
  <1>5. NoPendingLeak'
    BY DEF IInv, NoPendingLeak, ServerReplies, caller, pending
  <1>6. OnceInv'
    BY DEF IInv, TypeOK, OnceInv, ServerReplies, caller
  <1>7. NilInv'
    BY DEF IInv, TypeOK, NilInv, Away, ServerReplies, conn
  <1>8. CopyInv'
    <2>1. PICK c \in requests[s], st \in Statuses :
             /\ requests' = [requests EXCEPT ![s] = @ \ {c}]
             /\ sent' = sent \cup {<<c, st, s>>}
             /\ replies' \subseteq replies \cup {<<c, st, s>>}
      BY DEF ServerReplies
    <2>2. UNCHANGED <<at, done>>
      BY DEF ServerReplies, caller, pending
    <2>3. at[c] \notin {"idle", "publish"} /\ \A a \in sent : ~(a[1] = c /\ a[3] = s)
      BY <2>1 DEF IInv, CopyInv
    <2>4. \A t \in Servers : \A d \in requests'[t] :
             d \in requests[t] /\ ~(d = c /\ t = s)
      BY <2>1 DEF IInv, TypeOK
    <2>5. <<c, st, s>> \notin sent
      BY <2>3
    <2>6. \A t \in Servers : \A d \in requests'[t] :
             /\ at[d] \notin {"idle", "publish"}
             /\ \A a \in sent' : ~(a[1] = d /\ a[3] = t)
      BY <2>1, <2>4 DEF IInv, CopyInv
    <2>7. \A a, b \in sent' : a[1] = b[1] /\ a[3] = b[3] => a = b
      BY <2>1, <2>3 DEF IInv, CopyInv
    <2>8. \A d \in done : \E a \in sent' : a[1] = d /\ a \notin replies'
      BY <2>1, <2>5 DEF IInv, CopyInv
    <2>9. \A a \in sent' : at[a[1]] \notin {"idle", "publish"}
      BY <2>1, <2>3 DEF IInv, CopyInv
    <2> QED
      BY <2>2, <2>6, <2>7, <2>8, <2>9 DEF CopyInv
  <1>9. PanicsHaveCauses'
    <2>1. UNCHANGED <<gor, shutdown, panic>> /\ sent \subseteq sent'
      BY DEF ServerReplies, conn
    <2> QED
      BY <2>1 DEF IInv, PanicsHaveCauses, Away
  <1> QED
    BY <1>1, <1>2, <1>3, <1>4, <1>5, <1>6, <1>7, <1>8, <1>9 DEF IInv

\* The connection takes the client's queue with it (connection.go:82-89).
LEMMA DropStep ==
    ASSUME IInv, Drop
    PROVE  IInv'
  <1>1. TypeOK'
    <2>1. drops' \in 0..MaxDrops
      <3>1. drops \in 0..MaxDrops
        BY DEF IInv, TypeOK
      <3> QED
        BY <3>1, MaxDropsAssumption DEF Drop
    <2>2. channel' = "closed" /\ delivery' = "closed" /\ replies' = {}
      BY DEF Drop
    <2>3. UNCHANGED <<caller, pending, gor, left, dialed, stop, shutdown, panic, requests, sent>>
      BY DEF Drop
    <2> QED
      BY <2>1, <2>2, <2>3 DEF IInv, TypeOK, caller, pending
  <1>2. LeftInv'
    BY DEF IInv, LeftInv, Drop
  <1>3. AnswerInv'
    BY DEF IInv, AnswerInv, Drop, pending
  <1>4. OutcomeIsAnswer'
    BY DEF IInv, OutcomeIsAnswer, Drop, caller
  <1>5. NoPendingLeak'
    BY DEF IInv, NoPendingLeak, Drop, caller, pending
  <1>6. OnceInv'
    BY DEF IInv, TypeOK, OnceInv, Drop, caller
  <1>7. NilInv'
    BY DEF IInv, TypeOK, NilInv, Away, Drop, conn
  <1>8. CopyInv'
    BY DEF IInv, TypeOK, CopyInv, Drop, caller, pending, world
  <1>9. PanicsHaveCauses'
    BY DEF IInv, TypeOK, NilInv, PanicsHaveCauses, Away, Alive, Drop, conn, world
  <1> QED
    BY <1>1, <1>2, <1>3, <1>4, <1>5, <1>6, <1>7, <1>8, <1>9 DEF IInv

-----------------------------------------------------------------------------
(* The theorems *)

\* Replies, pendingCalls and results come from what servers sent
\* (client.go:118-243).
THEOREM Inductive == Spec => []IInv
  <1>1. Init => IInv
    <2> SUFFICES ASSUME Init PROVE IInv
      OBVIOUS
    <2>1. /\ left \in 0..Attempts /\ drops \in 0..MaxDrops
          /\ dialed \in BOOLEAN /\ channel \in {"open", "nil"} /\ delivery = channel
      BY AttemptsAssumption, MaxDropsAssumption DEF Init
    <2>2. NilInv
      <3>1. dialed <=> Attempts > 0
        BY DEF Init
      <3>2. /\ channel = (IF dialed THEN "open" ELSE "nil")
            /\ delivery = channel /\ gor = "select"
        BY DEF Init
      <3>3. Attempts > 0 <=> Attempts # 0
        BY AttemptsAssumption
      <3> QED
        BY <3>1, <3>2, <3>3 DEF NilInv
    <2>3. result \in [Calls -> Results]
      BY DEF Init, Results
    <2>4. TypeOK
      BY <2>1, <2>3 DEF Init, TypeOK
    <2> QED
      BY <2>1, <2>2, <2>4
         DEF Init, IInv, LeftInv, AnswerInv, OutcomeIsAnswer, NoPendingLeak, OnceInv, CopyInv,
             PanicsHaveCauses, Statuses
  <1>2. IInv /\ [Next]_vars => IInv'
    <2> SUFFICES ASSUME IInv, [Next]_vars PROVE IInv'
      OBVIOUS
    <2>1. CASE Next
      BY <2>1, PreWaitStep, PublishStep, AddCallStep, WaitFailsStep, WaitOkStep,
         DeleteCallStep, ServeCallStep, GoroutineStep, ShutdownStep, ServerRepliesStep,
         DropStep DEF Next, RemoteCall, Goroutine
    <2>2. CASE UNCHANGED vars
      <3> USE <2>2 DEF vars, caller, pending, conn, world
      <3>1. TypeOK'
        BY DEF IInv, TypeOK
      <3>2. LeftInv' /\ AnswerInv'
        BY DEF IInv, LeftInv, AnswerInv
      <3>3. OutcomeIsAnswer' /\ NoPendingLeak' /\ OnceInv'
        BY DEF IInv, OutcomeIsAnswer, NoPendingLeak, OnceInv
      <3>4. NilInv' /\ CopyInv' /\ PanicsHaveCauses'
        BY DEF IInv, NilInv, CopyInv, PanicsHaveCauses, Away
      <3> QED
        BY <3>1, <3>2, <3>3, <3>4 DEF IInv
    <2> QED
      BY <2>1, <2>2
  <1> QED
    BY <1>1, <1>2, PTL DEF Spec

\* No caller is told what no server answered to its call (client.go:141-153,
\* 232-243).
THEOREM OutcomesAreAnswers == Spec => []OutcomeIsAnswer
  <1>1. IInv => OutcomeIsAnswer
    BY DEF IInv
  <1> QED
    BY <1>1, Inductive, PTL

\* The map holds the calls that wait and no other (client.go:130-134).
THEOREM NoPendingCallLeaks == Spec => []NoPendingLeak
  <1>1. IInv => NoPendingLeak
    BY DEF IInv
  <1> QED
    BY <1>1, Inductive, PTL

(***************************************************************************)
(* A nil pointer is met only while no attempt has succeeded since the last *)
(* loss, or where none is made at all, and done is closed twice only if    *)
(* two servers answered one call (client.go:109, 242, 285).                *)
(***************************************************************************)
THEOREM EveryPanicHasACause == Spec => []PanicsHaveCauses
  <1>1. IInv => PanicsHaveCauses
    BY DEF IInv
  <1> QED
    BY <1>1, Inductive, PTL

-----------------------------------------------------------------------------
(* RpcClient implements RemoteCalls *)

\* A call that has a result keeps it; one that gets an error fails
\* (client.go:118-189).
LEMMA CallRefines ==
    ASSUME IInv, NEW c \in Calls, RemoteCall(c)
    PROVE  [Promise!RNext]_(Promise!rvars)
  <1>1. TypeOK /\ OutcomeIsAnswer
    BY DEF IInv
  <1>2. sent' = sent
    BY DEF RemoteCall, PreWaitFails, PreWaitOk, Publish, AddCall, WaitFails, WaitOk,
           DeleteCall,
           world
  <1>3. Given' = Given
    BY <1>2 DEF Given
  <1>4. CASE result' = result
    BY <1>3, <1>4 DEF Promise!rvars, Outcomes
  <1>5. ASSUME NEW r \in Errors, Result(c, r), result[c] = "none"
        PROVE  Promise!Fail({c})
    <2>1. \A d \in Calls : result'[d] = IF d = c THEN r ELSE result[d]
      BY <1>1, <1>5 DEF TypeOK, Result
    <2>2. Outcomes' = [d \in Calls |-> IF d \in {c} THEN "error" ELSE Outcomes[d]]
      BY <2>1 DEF Outcomes
    <2>3. Outcomes[c] = "none"
      BY <1>5 DEF Outcomes, Errors
    <2> QED
      BY <1>3, <2>2, <2>3 DEF Promise!Fail
  <1>6. CASE WaitOk(c) /\ Result(c, status[c])
    <2>1. status[c] \in Statuses /\ status[c] \in Given[c]
      <3>1. PICK s \in Servers : <<c, status[c], s>> \in sent
        BY <1>6 DEF IInv, AnswerInv, WaitOk
      <3>2. status[c] \in Statuses
        BY <1>1, <3>1 DEF TypeOK
      <3> QED
        BY <3>1, <3>2 DEF Given
    <2>2. result[c] = "none" /\ \A d \in Calls : result'[d] = IF d = c THEN status[c] ELSE result[d]
      BY <1>1, <1>6 DEF IInv, OnceInv, TypeOK, WaitOk, Result
    <2>3. status[c] \notin Errors
      BY <2>1 DEF Statuses, Errors
    <2>4. Outcomes' = [Outcomes EXCEPT ![c] = status[c]] /\ Outcomes[c] = "none"
      BY <2>2, <2>3 DEF Outcomes, Errors
    <2>5. Promise!Return(c, status[c])
      BY <1>3, <2>1, <2>4 DEF Promise!Return
    <2>6. PICK st \in Statuses : st = status[c]
      BY <2>1
    <2>7. Promise!Return(c, st)
      BY <2>5, <2>6
    <2> QED
      BY <2>7 DEF Promise!RNext
  <1>7. \/ result' = result \/ (WaitOk(c) /\ Result(c, status[c]))
        \/ result[c] = "none" /\ \E r \in Errors : Result(c, r)
    <2>1. at[c] \in {"idle", "publish", "add", "wait"} => result[c] = "none"
      BY DEF IInv, OnceInv
    <2>2. CASE PreWaitFails(c) \/ Publish(c) \/ WaitFails(c)
      BY <2>1, <2>2 DEF PreWaitFails, Publish, WaitFails, Interrupted, Errors, caller
    <2>3. CASE WaitOk(c)
      BY <2>1, <2>3 DEF WaitOk, Errors
    <2>4. CASE PreWaitOk(c) \/ AddCall(c) \/ DeleteCall(c)
      BY <2>4 DEF PreWaitOk, AddCall, DeleteCall
    <2> QED
      BY <2>2, <2>3, <2>4 DEF RemoteCall
  <1>8. {c} \in SUBSET Calls
    OBVIOUS
  <1>9. CASE result[c] = "none" /\ \E r \in Errors : Result(c, r)
    <2>1. Promise!Fail({c})
      BY <1>5, <1>9
    <2> DEFINE C == {c}
    <2> HIDE DEF C
    <2>2. C \in SUBSET Calls /\ Promise!Fail(C)
      BY <1>8, <2>1 DEF C
    <2> QED
      BY <2>2 DEF Promise!RNext
  <1> QED
    BY <1>4, <1>6, <1>7, <1>9

(***************************************************************************)
(* RabbitMQ's RemoteCall returns once, with an error of the client or an   *)
(* answer of a server to this call, whatever comes late, twice or not at   *)
(* all (client.go:118-243).                                                *)
(***************************************************************************)
THEOREM Refinement == Spec => RefinesRemoteCalls
  <1>1. Init => Promise!RInit
    BY DEF Init, Promise!RInit, Given, Outcomes, Errors
  <1>2. IInv /\ [Next]_vars => [Promise!RNext]_(Promise!rvars)
    <2> SUFFICES ASSUME IInv, [Next]_vars
                 PROVE  [Promise!RNext]_(Promise!rvars)
      OBVIOUS
    <2>1. ASSUME NEW s \in Servers, ServerReplies(s)
          PROVE  [Promise!RNext]_(Promise!rvars)
      <3>1. PICK c \in requests[s], st \in Statuses : sent' = sent \cup {<<c, st, s>>}
        BY <2>1 DEF ServerReplies
      <3>2. c \in Calls
        BY <2>1, <3>1 DEF IInv, TypeOK
      <3>3. Outcomes' = Outcomes
        BY <2>1 DEF ServerReplies, caller, Outcomes
      <3>4. Given' = [Given EXCEPT ![c] = @ \cup {st}]
        <4>1. \A d \in Calls : Given'[d] = IF d = c THEN Given[d] \cup {st} ELSE Given[d]
          BY <3>1 DEF Given
        <4> QED
          BY <4>1 DEF Given
      <3>5. Promise!Answer(c, st)
        BY <3>3, <3>4 DEF Promise!Answer
      <3> QED
        BY <3>2, <3>5 DEF Promise!RNext
    <2>2. CASE Goroutine \/ ShutdownCalled \/ ShutdownReturns \/ Drop \/ UNCHANGED vars
      <3>1. result' = result /\ sent' = sent
        BY <2>2 DEF Goroutine, ObserveStop, ServeCall, StartReconnect, AttemptOk, AttemptFails,
           ShutdownCalled, ShutdownReturns, Drop, vars, caller, world
      <3> QED
        BY <3>1 DEF Promise!rvars, Given, Outcomes
    <2> QED
      BY <2>1, <2>2, CallRefines DEF Next
  <1> QED
    BY <1>1, <1>2, Inductive, PTL DEF Spec, RefinesRemoteCalls, Promise!RSpec
=============================================================================
