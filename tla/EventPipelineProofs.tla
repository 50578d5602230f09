------------------------- MODULE EventPipelineProofs -------------------------
(***************************************************************************)
(* Proofs about EventConsumer, for any events, any number of copies of     *)
(* each, and any number of lost connections and crashes; and, at the end,  *)
(* about EventPipeline, for any finite sets of events and workers and any  *)
(* number of failures on either side.                                      *)
(***************************************************************************)
EXTENDS EventPipeline, OutboxProofs, FunctionTheorems, SequenceTheorems

-----------------------------------------------------------------------------
(* How often an event is in a sequence *)

\* The positions of an event form a finite set.
LEMMA TimesType ==
    ASSUME NEW e, NEW s \in Seq(Events)
    PROVE  /\ IsFiniteSet({i \in 1..Len(s) : s[i] = e})
           /\ Times(e, s) \in Nat
  <1>1. Len(s) \in Nat
    OBVIOUS
  <1>2. IsFiniteSet(1..Len(s))
    BY <1>1, FS_Interval
  <1>3. IsFiniteSet({i \in 1..Len(s) : s[i] = e})
    BY <1>2, FS_Subset
  <1> QED
    BY <1>3, FS_CardinalityType DEF Times

\* Append adds one copy of its element.
LEMMA TimesAppend ==
    ASSUME NEW e, NEW s \in Seq(Events), NEW x \in Events
    PROVE  Times(e, Append(s, x)) = Times(e, s) + One(x = e)
  <1> DEFINE S == {i \in 1..Len(s) : s[i] = e}
             T == {i \in 1..Len(Append(s, x)) : Append(s, x)[i] = e}
             n == Len(s) + 1
  <1>1. IsFiniteSet(S) /\ Cardinality(S) \in Nat
    BY TimesType, FS_CardinalityType
  <1>2. n \notin S
    OBVIOUS
  <1>3. Len(Append(s, x)) = n /\ \A i \in 1..n : Append(s, x)[i] = IF i = n THEN x ELSE s[i]
    BY AppendProperties
  <1>4. T = IF x = e THEN S \cup {n} ELSE S
    BY <1>3
  <1>5. Cardinality(T) = Cardinality(S) + One(x = e)
    <2>1. Cardinality(S \cup {n}) = Cardinality(S) + 1
      BY <1>1, <1>2, FS_AddElement
    <2>2. CASE x = e
      BY <1>4, <2>1, <2>2 DEF One
    <2>3. CASE x # e
      <3>1. T = S /\ One(x = e) = 0
        BY <1>4, <2>3 DEF One
      <3> HIDE DEF S, T
      <3> QED
        BY <1>1, <3>1
    <2> QED
      BY <2>2, <2>3
  <1> QED
    BY <1>5 DEF Times

\* Nothing is in the empty sequence.
LEMMA TimesNone == \A e : Times(e, <<>>) = 0
  <1>1. \A e : {i \in 1..Len(<<>>) : <<>>[i] = e} = {}
    OBVIOUS
  <1> QED
    BY <1>1, FS_EmptySet DEF Times

\* The copies in two sequences add up.
LEMMA TimesConcat ==
    ASSUME NEW e, NEW s \in Seq(Events), NEW t \in Seq(Events)
    PROVE  Times(e, s \o t) = Times(e, s) + Times(e, t)
  <1> DEFINE m == Len(s)
             n == Len(t)
             S == {i \in 1..m : s[i] = e}
             T == {i \in 1..n : t[i] = e}
             V == {i \in (m + 1)..(m + n) : (s \o t)[i] = e}
             U == {i \in 1..Len(s \o t) : (s \o t)[i] = e}
             f == [i \in T |-> i + m]
  <1>1. m \in Nat /\ n \in Nat /\ Len(s \o t) = m + n
        /\ \A i \in 1..(m + n) : (s \o t)[i] = IF i <= m THEN s[i] ELSE t[i - m]
    BY ConcatProperties
  <1>2. IsFiniteSet(S) /\ IsFiniteSet(T) /\ Cardinality(S) \in Nat /\ Cardinality(T) \in Nat
    BY TimesType, FS_CardinalityType
  <1>3. \A i \in 1..n : (s \o t)[i + m] = t[i]
    <2> TAKE i \in 1..n
    <2>1. i + m \in 1..(m + n) /\ ~(i + m <= m) /\ (i + m) - m = i
      BY <1>1
    <2> QED
      BY <1>1, <2>1
  <1>4. f \in Bijection(T, V)
    <2>1. f \in [T -> V]
      BY <1>1, <1>3
    <2>2. \A i, j \in T : f[i] = f[j] => i = j
      BY <1>1
    <2>3. \A j \in V : \E i \in T : f[i] = j
      <3> TAKE j \in V
      <3>1. j - m \in 1..n /\ (j - m) + m = j
        BY <1>1
      <3>2. j - m \in T
        BY <1>3, <3>1
      <3> QED
        BY <3>1, <3>2
    <2> QED
      BY <2>1, <2>2, <2>3, Fun_IsBij
  <1>5. IsFiniteSet(V) /\ Cardinality(V) = Cardinality(T)
    BY <1>2, <1>4, FS_Bijection DEF ExistsBijection
  <1>6. U = S \cup V /\ S \cap V = {}
    <2>1. \A i \in 1..m : i \in 1..(m + n) /\ (s \o t)[i] = s[i]
      BY <1>1
    <2>2. 1..(m + n) = (1..m) \cup ((m + 1)..(m + n)) /\ (1..m) \cap ((m + 1)..(m + n)) = {}
      BY <1>1
    <2> QED
      BY <1>1, <2>1, <2>2
  <1>7. Cardinality(U) = Cardinality(S) + Cardinality(T)
    <2> HIDE DEF S, T, U, V
    <2>1. Cardinality(S \cup V) = Cardinality(S) + Cardinality(V) - Cardinality(S \cap V)
      BY <1>2, <1>5, FS_Union
    <2>2. Cardinality(S \cap V) = 0
      BY <1>6, FS_EmptySet
    <2> QED
      BY <1>2, <1>5, <1>6, <2>1, <2>2
  <1> QED
    BY <1>7 DEF Times

-----------------------------------------------------------------------------
(* Sequences *)

\* The last elements of t are s.
EndOf(s, t) == Len(s) <= Len(t) /\ s = SubSeq(t, Len(t) - Len(s) + 1, Len(t))

\* The same, element by element.
LEMMA EndOfElements ==
    ASSUME NEW s \in Seq(Events), NEW t \in Seq(Events), Len(s) <= Len(t)
    PROVE  EndOf(s, t) <=> \A i \in 1..Len(s) : s[i] = t[Len(t) - Len(s) + i]
  <1> DEFINE m == Len(t) - Len(s) + 1
             u == SubSeq(t, m, Len(t))
  <1>1. Len(s) \in Nat /\ Len(t) \in Nat /\ m \in Int /\ m >= 1
    OBVIOUS
  <1>2. \A i \in m..Len(t) : t[i] \in Events
    BY <1>1, ElementOfSeq
  <1>3. u \in Seq(Events) /\ Len(u) = Len(s) /\ \A i \in 1..Len(s) : u[i] = t[m + i - 1]
    BY <1>1, <1>2, SubSeqProperties
  <1>4. s = u <=> \A i \in 1..Len(s) : s[i] = u[i]
    BY <1>3, SeqEqual
  <1>5. \A i \in 1..Len(s) : u[i] = t[Len(t) - Len(s) + i]
    BY <1>1, <1>3
  <1> QED
    BY <1>4, <1>5 DEF EndOf

\* Both grow by the same element.
LEMMA EndOfAppend ==
    ASSUME NEW s \in Seq(Events), NEW t \in Seq(Events), NEW x \in Events, EndOf(s, t)
    PROVE  EndOf(Append(s, x), Append(t, x))
  <1>1. Len(s) \in Nat /\ Len(t) \in Nat /\ Len(s) <= Len(t)
    BY DEF EndOf
  <1>2. \A i \in 1..Len(s) : s[i] = t[Len(t) - Len(s) + i]
    BY <1>1, EndOfElements
  <1>3. /\ Append(s, x) \in Seq(Events) /\ Len(Append(s, x)) = Len(s) + 1
        /\ \A i \in 1..Len(s) + 1 : Append(s, x)[i] = IF i <= Len(s) THEN s[i] ELSE x
    BY <1>1
  <1>4. /\ Append(t, x) \in Seq(Events) /\ Len(Append(t, x)) = Len(t) + 1
        /\ \A i \in 1..Len(t) + 1 : Append(t, x)[i] = IF i <= Len(t) THEN t[i] ELSE x
    BY <1>1
  <1>5. \A i \in 1..Len(s) + 1 : Append(s, x)[i] = Append(t, x)[Len(t) - Len(s) + i]
    BY <1>1, <1>2, <1>3, <1>4
  <1>6. Len(Append(s, x)) <= Len(Append(t, x))
    BY <1>1, <1>3, <1>4
  <1>7. \A i \in 1..Len(Append(s, x)) :
           Append(s, x)[i] = Append(t, x)[Len(Append(t, x)) - Len(Append(s, x)) + i]
    <2>1. Len(Append(t, x)) - Len(Append(s, x)) = Len(t) - Len(s)
      BY <1>1, <1>3, <1>4
    <2> QED
      BY <1>3, <1>5, <2>1
  <1> DEFINE u == Append(s, x)
             v == Append(t, x)
  <1>8. u \in Seq(Events) /\ v \in Seq(Events) /\ Len(u) <= Len(v)
        /\ \A i \in 1..Len(u) : u[i] = v[Len(v) - Len(u) + i]
    BY <1>3, <1>4, <1>6, <1>7
  <1> HIDE DEF u, v
  <1>9. EndOf(u, v)
    BY <1>8, EndOfElements
  <1> QED
    BY <1>9 DEF u, v

\* The first of two parts is dropped.
LEMMA EndOfConcat ==
    ASSUME NEW r \in Seq(Events), NEW s \in Seq(Events), NEW t \in Seq(Events), EndOf(r \o s, t)
    PROVE  EndOf(s, t)
  <1> DEFINE u == r \o s
  <1>1. /\ u \in Seq(Events) /\ Len(u) = Len(r) + Len(s)
        /\ Len(r) \in Nat /\ Len(s) \in Nat /\ Len(t) \in Nat
        /\ \A i \in 1..Len(u) : u[i] = IF i <= Len(r) THEN r[i] ELSE s[i - Len(r)]
    BY ConcatProperties
  <1>2. Len(u) <= Len(t)
    BY DEF EndOf
  <1>3. \A i \in 1..Len(u) : u[i] = t[Len(t) - Len(u) + i]
    <2> HIDE DEF u
    <2> QED
      BY <1>1, <1>2, EndOfElements DEF u
  <1>4. \A i \in 1..Len(s) : s[i] = t[Len(t) - Len(s) + i]
    <2> TAKE i \in 1..Len(s)
    <2>1. /\ i + Len(r) \in 1..Len(u) /\ ~(i + Len(r) <= Len(r)) /\ (i + Len(r)) - Len(r) = i
          /\ Len(t) - Len(u) + (i + Len(r)) = Len(t) - Len(s) + i
      BY <1>1
    <2> HIDE DEF u
    <2> QED
      BY <1>1, <1>3, <2>1
  <1> QED
    BY <1>1, <1>2, <1>4, EndOfElements

\* An end has no more copies than the whole.
LEMMA TimesEndOf ==
    ASSUME NEW e, NEW s \in Seq(Events), NEW t \in Seq(Events), EndOf(s, t)
    PROVE  Times(e, s) <= Times(e, t)
  <1> DEFINE d == Len(t) - Len(s)
             S == {i \in 1..Len(s) : s[i] = e}
             T == {i \in 1..Len(t) : t[i] = e}
             f == [i \in S |-> i + d]
  <1>1. Len(s) \in Nat /\ Len(t) \in Nat /\ d \in Nat
    BY DEF EndOf
  <1>2. \A i \in 1..Len(s) : s[i] = t[d + i]
    BY EndOfElements DEF EndOf
  <1>3. f \in Injection(S, T)
    <2>1. f \in [S -> T]
      BY <1>1, <1>2
    <2>2. \A i, j \in S : f[i] = f[j] => i = j
      BY <1>1
    <2> QED
      BY <2>1, <2>2, Fun_IsInj
  <1>4. IsFiniteSet(T)
    BY TimesType
  <1>5. Cardinality(S) <= Cardinality(T)
    BY <1>3, <1>4, FS_Injection
  <1> QED
    BY <1>5 DEF Times

\* A sequence is its head and its tail.
LEMMA HeadThenTail ==
    ASSUME NEW s \in Seq(Events), s # <<>>
    PROVE  Head(s) \in Events /\ Tail(s) \in Seq(Events) /\ <<Head(s)>> \o Tail(s) = s
  <1>1. Len(s) \in Nat /\ Len(s) >= 1 /\ s[1] \in Events /\ Head(s) = s[1]
    BY EmptySeq
  <1>2. /\ Tail(s) \in Seq(Events) /\ Len(Tail(s)) = Len(s) - 1
        /\ \A i \in 1..Len(Tail(s)) : Tail(s)[i] = s[i + 1]
    BY HeadTailProperties
  <1>3. <<s[1]>> \in Seq(Events) /\ Len(<<s[1]>>) = 1 /\ <<s[1]>>[1] = s[1]
    BY <1>1
  <1>4. /\ <<s[1]>> \o Tail(s) \in Seq(Events) /\ Len(<<s[1]>> \o Tail(s)) = Len(s)
        /\ \A i \in 1..Len(s) : (<<s[1]>> \o Tail(s))[i] = s[i]
    BY <1>1, <1>2, <1>3, ConcatProperties
  <1> QED
    BY <1>1, <1>2, <1>4, SeqEqual

\* The first of q may as well be the last of s (rabbitmq_subscriber.go:83-90).
LEMMA Shift ==
    ASSUME NEW s \in Seq(Events), NEW q \in Seq(Events), q # <<>>
    PROVE  Append(s, Head(q)) \o Tail(q) = s \o q
  <1>1. Head(q) \in Events /\ Tail(q) \in Seq(Events) /\ <<Head(q)>> \o Tail(q) = q
    BY HeadThenTail
  <1>2. <<Head(q)>> \in Seq(Events)
    BY <1>1
  <1>3. Append(s, Head(q)) = s \o <<Head(q)>>
    BY <1>1, AppendIsConcat
  <1> QED
    BY <1>1, <1>2, <1>3, ConcatAssociative

\* Append to the second of two sequences.
LEMMA ConcatAppend ==
    ASSUME NEW s \in Seq(Events), NEW q \in Seq(Events), NEW x \in Events
    PROVE  s \o Append(q, x) = Append(s \o q, x)
  <1>1. <<x>> \in Seq(Events) /\ s \o q \in Seq(Events)
    BY ConcatProperties
  <1>2. Append(q, x) = q \o <<x>> /\ Append(s \o q, x) = (s \o q) \o <<x>>
    BY <1>1, AppendIsConcat
  <1> QED
    BY <1>1, <1>2, ConcatAssociative

-----------------------------------------------------------------------------
(* What the broker has read no ack for *)

\* The delivery a goroutine holds, as a sequence.
HeldSeq == IF held = None THEN <<>> ELSE <<held>>

LEMMA BrokerType ==
    ASSUME CTypeOK
    PROVE  /\ HeldSeq \in Seq(Events) /\ Outstanding = HeldSeq \o msgs
           /\ Outstanding \in Seq(Events) /\ Outstanding \o queue \in Seq(Events)
           /\ Unacked \in Seq(Events) /\ AtBroker \in Seq(Events)
           /\ subConn = "open" => /\ AtBroker = Unacked \o queue
                                  /\ AtBroker = acks \o (Outstanding \o queue)
           /\ subConn = "closed" => AtBroker = queue
  <1>1. msgs \in Seq(Events) /\ queue \in Seq(Events) /\ acks \in Seq(Events)
    BY DEF CTypeOK
  <1>2. HeldSeq \in Seq(Events)
    BY DEF CTypeOK, HeldSeq
  <1>3. Outstanding = HeldSeq \o msgs
    BY DEF Outstanding, HeldSeq
  <1>4. Outstanding \in Seq(Events)
    BY <1>1, <1>2, <1>3, ConcatProperties
  <1>5. Unacked \in Seq(Events) /\ Outstanding \o queue \in Seq(Events)
    BY <1>1, <1>4, ConcatProperties DEF Unacked
  <1>6. <<>> \o queue = queue
    BY <1>1, ConcatEmptySeq
  <1>7. Unacked \o queue \in Seq(Events)
    BY <1>1, <1>5, ConcatProperties
  <1>8. Unacked \o queue = acks \o (Outstanding \o queue)
    BY <1>1, <1>4, ConcatAssociative DEF Unacked
  <1> QED
    BY <1>1, <1>2, <1>3, <1>4, <1>5, <1>6, <1>7, <1>8 DEF AtBroker, CTypeOK

\* While the connection is open the broker has what is acknowledged, then what
\* is held, then the rest.
LEMMA BrokerParts ==
    ASSUME CTypeOK, subConn = "open", NEW e \in Events
    PROVE  /\ Times(e, AtBroker) = Times(e, acks) + Times(e, Outstanding \o queue)
           /\ Times(e, acks) \in Nat /\ Times(e, Outstanding \o queue) \in Nat
           /\ held = e => Times(e, Outstanding \o queue) >= 1
           /\ Settling(e) <= Times(e, AtBroker)
  <1>1. /\ acks \in Seq(Events) /\ Outstanding \o queue \in Seq(Events)
        /\ msgs \in Seq(Events) /\ queue \in Seq(Events) /\ HeldSeq \in Seq(Events)
        /\ Outstanding = HeldSeq \o msgs /\ Outstanding \in Seq(Events)
        /\ AtBroker = acks \o (Outstanding \o queue)
    BY BrokerType DEF CTypeOK
  <1>2. Times(e, AtBroker) = Times(e, acks) + Times(e, Outstanding \o queue)
    BY <1>1, TimesConcat
  <1>3. Times(e, acks) \in Nat /\ Times(e, Outstanding \o queue) \in Nat
        /\ Times(e, queue) \in Nat /\ Times(e, msgs) \in Nat
    BY <1>1, TimesType
  <1>4. ASSUME held = e
        PROVE  Times(e, Outstanding \o queue) >= 1
    <2>1. HeldSeq = <<e>>
      BY <1>4, NoneAssumption DEF HeldSeq
    <2>2. Times(e, HeldSeq) = 1
      <3>1. {i \in 1..Len(HeldSeq) : HeldSeq[i] = e} = {1}
        BY <2>1
      <3> QED
        BY <3>1, FS_Singleton DEF Times
    <2>3. Times(e, Outstanding) = Times(e, HeldSeq) + Times(e, msgs)
      BY <1>1, TimesConcat
    <2>4. Times(e, Outstanding \o queue) = Times(e, Outstanding) + Times(e, queue)
      BY <1>1, TimesConcat
    <2> QED
      BY <1>3, <2>2, <2>3, <2>4
  <1>5. Settling(e) <= Times(e, AtBroker)
    <2>1. CASE held = e
      <3>1. One(BeingAcked(e)) \in {0, 1}
        BY DEF One
      <3> QED
        BY <1>2, <1>3, <1>4, <2>1, <3>1 DEF Settling
    <2>2. CASE held # e
      <3>1. One(BeingAcked(e)) = 0
        BY <2>2 DEF One, BeingAcked
      <3> QED
        BY <1>2, <1>3, <3>1 DEF Settling
    <2> QED
      BY <2>1, <2>2
  <1> QED
    BY <1>2, <1>3, <1>4, <1>5

(***************************************************************************)
(* The connection's loss, a crash and the goroutines' steps leave with the *)
(* broker what it has read no ack for (rabbitmq_subscriber.go:83-135).     *)
(***************************************************************************)
LEMMA QuietBroker ==
    ASSUME CInv, \/ Push \/ Receive \/ EndSubscription \/ HandOver \/ Ack \/ HandleEvent
                 \/ EndWorker \/ Cancel \/ LoseConnection \/ Restart
    PROVE  AtBroker' = AtBroker
  <1>1. /\ queue \in Seq(Events) /\ msgs \in Seq(Events) /\ acks \in Seq(Events)
        /\ HeldSeq \in Seq(Events) /\ Outstanding = HeldSeq \o msgs
        /\ Outstanding \in Seq(Events) /\ Unacked \in Seq(Events) /\ AtBroker \in Seq(Events)
        /\ subConn = "open" => AtBroker = Unacked \o queue
    BY BrokerType DEF CInv, CTypeOK
  <1>2. CASE Push
    <2>1. /\ queue # <<>> /\ subConn = "open" /\ msgs' = Append(msgs, Head(queue))
          /\ queue' = Tail(queue) /\ UNCHANGED <<subConn, held, acks>>
      BY <1>2 DEF Push
    <2>2. Head(queue) \in Events
      BY <1>1, <2>1, HeadThenTail
    <2>3. Outstanding' = Append(Outstanding, Head(queue))
      <3>1. Outstanding' = HeldSeq \o Append(msgs, Head(queue))
        BY <2>1 DEF Outstanding, HeldSeq
      <3> QED
        BY <1>1, <2>2, <3>1, ConcatAppend
    <2>4. Unacked' = Append(Unacked, Head(queue))
      <3>1. Unacked' = acks \o Append(Outstanding, Head(queue))
        BY <2>1, <2>3 DEF Unacked
      <3> QED
        BY <1>1, <2>2, <3>1, ConcatAppend DEF Unacked
    <2>5. AtBroker' = Unacked' \o Tail(queue)
      BY <2>1 DEF AtBroker
    <2> QED
      BY <1>1, <2>1, <2>4, <2>5, Shift
  <1>3. CASE Receive
    <2>1. /\ msgs # <<>> /\ held = None /\ held' = Head(msgs) /\ msgs' = Tail(msgs)
          /\ UNCHANGED <<queue, subConn, acks>>
      BY <1>3 DEF Receive, broker, CInv, RunInv
    <2>2. Head(msgs) \in Events /\ Tail(msgs) \in Seq(Events)
          /\ <<Head(msgs)>> \o Tail(msgs) = msgs
      BY <1>1, <2>1, HeadThenTail
    <2>3. Outstanding = msgs
      BY <1>1, <2>1, ConcatEmptySeq DEF Outstanding
    <2>4. Outstanding' = msgs
      BY <2>1, <2>2, NoneAssumption DEF Outstanding
    <2> QED
      BY <2>1, <2>3, <2>4 DEF AtBroker, Unacked
  <1>4. CASE LoseConnection
    <2>1. subConn = "open" /\ subConn' = "closed" /\ queue' = Unacked \o queue
      BY <1>4 DEF LoseConnection
    <2> QED
      BY <1>1, <2>1, ConcatEmptySeq DEF AtBroker
  <1>5. CASE Restart
    <2>1. /\ subConn' = "open" /\ queue' = AtBroker
          /\ msgs' = <<>> /\ held' = None /\ acks' = <<>>
      BY <1>5 DEF Restart, AtBroker
    <2>2. Unacked' = <<>>
      BY <2>1 DEF Unacked, Outstanding
    <2> QED
      BY <1>1, <2>1, <2>2, ConcatEmptySeq DEF AtBroker
  <1>6. CASE Ack
    <2>1. /\ held # None /\ held \in Events /\ held' = None
          /\ UNCHANGED <<queue, msgs, subConn>>
      BY <1>6 DEF Ack, broker, CInv, RunInv, CTypeOK
    <2>2. CASE subConn = "open"
      <3>1. acks' = Append(acks, held)
        BY <1>6, <2>2 DEF Ack
      <3>2. Outstanding' = msgs
        BY <1>1, <2>1, ConcatEmptySeq DEF Outstanding
      <3>3. Append(acks, held) = acks \o <<held>> /\ <<held>> \in Seq(Events)
        BY <1>1, <2>1, AppendIsConcat
      <3>4. Unacked' = (acks \o <<held>>) \o msgs
        BY <3>1, <3>2, <3>3 DEF Unacked
      <3>5. Unacked = acks \o (<<held>> \o msgs)
        BY <2>1 DEF Unacked, Outstanding
      <3>6. Unacked' = Unacked
        BY <1>1, <3>3, <3>4, <3>5, ConcatAssociative
      <3> QED
        BY <2>1, <3>6 DEF AtBroker
    <2>3. CASE subConn # "open"
      BY <2>1, <2>3 DEF AtBroker
    <2> QED
      BY <2>2, <2>3
  <1>7. CASE EndSubscription \/ HandOver \/ HandleEvent \/ EndWorker \/ Cancel
    BY <1>7 DEF EndSubscription, HandOver, HandleEvent, EndWorker, Cancel, broker,
                AtBroker, Unacked, Outstanding
  <1> QED
    BY <1>2, <1>3, <1>4, <1>5, <1>6, <1>7

\* An ack read takes the first of it, the orderly end of the connection all that
\* is acknowledged (rabbitmq_subscriber.go:116-135).
LEMMA SettledBroker ==
    ASSUME CInv, AckArrives \/ Close
    PROVE  /\ subConn = "open"
           /\ Outstanding \o queue \in Seq(Events)
           /\ AtBroker = acks \o (Outstanding \o queue)
           /\ acks' \in Seq(Events) /\ AtBroker' = acks' \o (Outstanding \o queue)
           /\ AckArrives => /\ acks # <<>> /\ acks' = Tail(acks) /\ Head(acks) \in Events
                            /\ acks = <<Head(acks)>> \o acks' /\ <<Head(acks)>> \in Seq(Events)
           /\ Close => acks' = <<>>
  <1>1. subConn = "open"
    BY DEF AckArrives, Close, CInv, CTypeOK, RunInv
  <1>2. /\ queue \in Seq(Events) /\ acks \in Seq(Events) /\ Outstanding \in Seq(Events)
        /\ Outstanding \o queue \in Seq(Events) /\ AtBroker = acks \o (Outstanding \o queue)
    BY <1>1, BrokerType DEF CInv, CTypeOK
  <1>3. CASE AckArrives
    <2>1. /\ acks # <<>> /\ acks' = Tail(acks) /\ UNCHANGED <<queue, msgs, held, subConn>>
      BY <1>3 DEF AckArrives, broker
    <2>2. Head(acks) \in Events /\ Tail(acks) \in Seq(Events)
          /\ <<Head(acks)>> \o Tail(acks) = acks
      BY <1>2, <2>1, HeadThenTail
    <2>3. <<Head(acks)>> \in Seq(Events)
      BY <2>2
    <2>4. AtBroker' = (acks' \o Outstanding) \o queue
      BY <1>1, <2>1 DEF AtBroker, Unacked, Outstanding
    <2>5. AtBroker' = acks' \o (Outstanding \o queue)
      <3>1. \A x \in Seq(Events) : (x \o Outstanding) \o queue = x \o (Outstanding \o queue)
        BY <1>2, ConcatAssociative
      <3>2. acks' \in Seq(Events)
        BY <2>1, <2>2
      <3> QED
        BY <2>4, <3>1, <3>2
    <2>6. ~Close
      <3>1. Close => subConn' # subConn
        BY DEF Close
      <3> QED
        BY <2>1, <3>1
    <2> QED
      BY <1>1, <1>2, <2>1, <2>2, <2>3, <2>5, <2>6
  <1>4. CASE Close
    <2>1. /\ subConn' = "closed" /\ queue' = Outstanding \o queue /\ acks' = <<>>
      BY <1>4 DEF Close
    <2>2. AtBroker' = <<>> \o queue'
      BY <2>1 DEF AtBroker
    <2>3. AckArrives => subConn' = subConn
      BY DEF AckArrives
    <2> QED
      BY <1>1, <1>2, <2>1, <2>2, <2>3, EmptySeq
  <1> QED
    BY <1>3, <1>4

\* A publication is the last of it (rabbitmq.go:59-75).
LEMMA PublishBroker ==
    ASSUME CInv, NEW x \in Events, Publish(x)
    PROVE  AtBroker' = Append(AtBroker, x)
  <1>1. /\ queue' = Append(queue, x) /\ UNCHANGED <<msgs, subConn, held, acks>>
        /\ queue \in Seq(Events)
    BY DEF Publish, CInv, CTypeOK
  <1> DEFINE u == IF subConn = "open" THEN Unacked ELSE <<>>
  <1>2. u \in Seq(Events)
    BY BrokerType DEF CInv
  <1>3. AtBroker = u \o queue /\ AtBroker' = u \o Append(queue, x)
    BY <1>1 DEF AtBroker, Unacked, Outstanding
  <1> HIDE DEF u
  <1> QED
    BY <1>1, <1>2, <1>3, ConcatAppend

\* What has been given to handleEvent is a number, and so is what may be.
LEMMA ConsumerCounts ==
    ASSUME CTypeOK, NEW e \in Events
    PROVE  /\ Begun(e) \in Nat /\ Times(e, sent) \in Nat /\ Times(e, AtBroker) \in Nat
           /\ Times(e, acks) \in Nat /\ Settling(e) \in Nat /\ restarts \in Nat
           /\ Times(e, sent) * (1 + restarts) \in Nat
           /\ One(BeingAcked(e)) \in {0, 1} /\ One(BeingSent(e)) \in {0, 1}
  <1>1. Begun(e) \in Nat
    BY DEF Begun, CTypeOK
  <1>2. sent \in Seq(Events) /\ AtBroker \in Seq(Events) /\ acks \in Seq(Events)
    BY BrokerType DEF CTypeOK
  <1>3. restarts \in Nat
    BY DEF CTypeOK
  <1>4. Times(e, sent) \in Nat /\ Times(e, AtBroker) \in Nat /\ Times(e, acks) \in Nat
    BY <1>2, TimesType
  <1>5. One(BeingAcked(e)) \in {0, 1} /\ One(BeingSent(e)) \in {0, 1}
    BY DEF One
  <1>6. Settling(e) \in Nat
    BY <1>4, <1>5 DEF Settling
  <1>7. ASSUME NEW a \in Nat, NEW b \in Nat
        PROVE  a * (1 + b) \in Nat
    OBVIOUS
  <1> QED
    BY <1>1, <1>3, <1>4, <1>5, <1>6, <1>7

\* What the broker has are copies of what was published.
LEMMA BrokerFromSent ==
    ASSUME CInv, NEW e \in Events
    PROVE  Times(e, AtBroker) <= Times(e, sent)
  <1>1. AtBroker \in Seq(Events) /\ sent \in Seq(Events)
    BY BrokerType DEF CInv, CTypeOK
  <1>2. EndOf(AtBroker, sent)
    BY DEF CInv, OrderInv, KeepsOrder, EndOf
  <1> QED
    BY <1>1, <1>2, TimesEndOf

\* The bound on the repeats from what is still to come.
LEMMA GivenOnce ==
    ASSUME CInv, NEW e \in Events
    PROVE  Begun(e) <= Times(e, sent) * (1 + restarts)
  <1> DEFINE p == Times(e, sent) * (1 + restarts)
  <1>1. /\ p \in Nat
        /\ subConn = "open" => Begun(e) + Times(e, AtBroker) <= p + Settling(e)
        /\ subConn = "closed" => Begun(e) + One(BeingSent(e)) <= p
    BY ConsumerCounts DEF CInv, RepeatInv
  <1>2. subConn = "open" => Settling(e) <= Times(e, AtBroker)
    BY BrokerParts DEF CInv
  <1> HIDE DEF p
  <1>3. Begun(e) <= p
    <2>1. CASE subConn = "open"
      BY <1>1, <1>2, <2>1, ConsumerCounts DEF CInv
    <2>2. CASE subConn = "closed"
      BY <1>1, <2>2, ConsumerCounts DEF CInv
    <2> QED
      BY <2>1, <2>2 DEF CInv, CTypeOK
  <1> QED
    BY <1>3 DEF p

-----------------------------------------------------------------------------
(* Steps that change neither what the broker has nor what was handled *)

\* Such a step keeps the rest of the invariant.
LEMMA QuietStep ==
    ASSUME CInv, CTypeOK', RunInv', AtBroker' = AtBroker, UNCHANGED <<sent, restarts, subConn>>,
           \A e \in Events : /\ Begun(e)' = Begun(e)
                             /\ Settling(e)' = Settling(e)
                             /\ BeingSent(e)' <=> BeingSent(e)
    PROVE  CInv'
  <1>1. OrderInv'
    BY DEF CInv, OrderInv, KeepsOrder
  <1>2. \A e \in Events : One(BeingSent(e))' = One(BeingSent(e))
    BY DEF One
  <1>3. LossInv'
    BY DEF CInv, LossInv
  <1>4. RepeatInv'
    BY <1>2 DEF CInv, RepeatInv
  <1> QED
    BY <1>1, <1>3, <1>4 DEF CInv

\* The acks and the goroutine's place decide which acks are to come.
LEMMA SettlingSame ==
    ASSUME UNCHANGED acks, NEW e \in Events, BeingAcked(e)' <=> BeingAcked(e)
    PROVE  Settling(e)' = Settling(e)
  BY DEF Settling, One

\* The broker pushes a message (rabbitmq_subscriber.go:83-90).
LEMMA PushStep ==
    ASSUME CInv, Push
    PROVE  CInv'
  <1>1. msgs \in Seq(Events) /\ queue \in Seq(Events) /\ queue # <<>> /\ subConn = "open"
    BY DEF CInv, CTypeOK, Push
  <1>2. Head(queue) \in Events /\ Tail(queue) \in Seq(Events)
    BY <1>1, HeadThenTail
  <1>3. /\ msgs' = Append(msgs, Head(queue)) /\ queue' = Tail(queue)
        /\ UNCHANGED <<sent, subConn, sub, held, worker, event, cancelled, handled, cutOff, losses,
                       restarts, acks>>
    BY DEF Push, history
  <1>4. Append(msgs, Head(queue)) \in Seq(Events)
    BY <1>1, <1>2
  <1>5. CTypeOK'
    BY <1>2, <1>3, <1>4 DEF CInv, CTypeOK
  <1>6. RunInv'
    BY <1>1, <1>3 DEF CInv, RunInv
  <1>7. AtBroker' = AtBroker
    BY QuietBroker
  <1>8. \A e \in Events : /\ Begun(e)' = Begun(e)
                          /\ Settling(e)' = Settling(e)
                          /\ BeingSent(e)' <=> BeingSent(e)
    BY <1>3, SettlingSame DEF Begun, BeingAcked, BeingSent
  <1> QED
    BY <1>3, <1>5, <1>6, <1>7, <1>8, QuietStep

\* The goroutine takes a delivery (rabbitmq_subscriber.go:101-109).
LEMMA ReceiveStep ==
    ASSUME CInv, Receive
    PROVE  CInv'
  <1>1. /\ msgs \in Seq(Events) /\ queue \in Seq(Events) /\ msgs # <<>>
        /\ subConn = "open" /\ held = None /\ sub = "select"
    BY DEF CInv, CTypeOK, RunInv, Receive
  <1>2. Head(msgs) \in Events /\ Tail(msgs) \in Seq(Events)
        /\ <<Head(msgs)>> \o Tail(msgs) = msgs
    BY <1>1, HeadThenTail
  <1>3. /\ held' = Head(msgs) /\ msgs' = Tail(msgs) /\ sub' = "send"
        /\ UNCHANGED <<sent, queue, subConn, worker, event, cancelled, handled, cutOff, losses,
                       restarts, acks>>
    BY DEF Receive, broker, history
  <1>4. CTypeOK'
    BY <1>2, <1>3 DEF CInv, CTypeOK
  <1>5. RunInv'
    BY <1>1, <1>2, <1>3, NoneAssumption DEF CInv, RunInv
  <1>6. AtBroker' = AtBroker
    BY QuietBroker
  <1>7. \A e \in Events : /\ Begun(e)' = Begun(e)
                          /\ Settling(e)' = Settling(e)
                          /\ BeingSent(e)' <=> BeingSent(e)
    BY <1>1, <1>3, SettlingSame DEF Begun, BeingAcked, BeingSent
  <1> QED
    BY <1>3, <1>4, <1>5, <1>6, <1>7, QuietStep

\* handleEvent comes to its end (worker.go:46-60).
LEMMA HandleEventStep ==
    ASSUME CInv, HandleEvent
    PROVE  CInv'
  <1>1. /\ event \in Events /\ event' = None /\ worker' = "select"
        /\ handled' = [handled EXCEPT ![event] = @ + 1]
        /\ UNCHANGED <<sent, queue, msgs, subConn, sub, held, cancelled, cutOff, losses,
                       restarts, acks>>
    BY DEF CInv, CTypeOK, RunInv, HandleEvent, broker
  <1>2. CTypeOK'
    BY <1>1 DEF CInv, CTypeOK
  <1>3. RunInv'
    BY <1>1 DEF CInv, RunInv
  <1>4. AtBroker' = AtBroker
    BY QuietBroker
  <1>5. \A e \in Events : Begun(e)' = Begun(e)
    <2> TAKE e \in Events
    <2>1. handled \in [Events -> Nat] /\ cutOff[e] \in Nat
      BY DEF CInv, CTypeOK
    <2>2. handled'[e] = IF event = e THEN handled[e] + 1 ELSE handled[e]
      BY <1>1, <2>1
    <2>3. event' # e
      BY <1>1, NoneAssumption
    <2> QED
      BY <1>1, <2>1, <2>2, <2>3 DEF Begun
  <1>6. \A e \in Events : /\ Settling(e)' = Settling(e)
                          /\ BeingSent(e)' <=> BeingSent(e)
    BY <1>1, SettlingSame DEF BeingAcked, BeingSent
  <1> QED
    BY <1>1, <1>2, <1>3, <1>4, <1>5, <1>6, QuietStep

\* A goroutine ends, or the context is cancelled (rabbitmq_subscriber.go:103-108,
\* worker.go:38-44).
LEMMA EndStep ==
    ASSUME CInv, EndSubscription \/ EndWorker \/ Cancel
    PROVE  CInv'
  <1>1. /\ UNCHANGED <<sent, queue, msgs, subConn, held, event, handled, cutOff, losses, restarts,
                       acks>>
        /\ sub' = sub \/ (sub = "select" /\ sub' = "done")
        /\ worker' = worker \/ (worker = "select" /\ worker' = "done")
        /\ cancelled' \in {cancelled, TRUE}
    BY DEF EndSubscription, EndWorker, Cancel, broker, history
  <1>2. CTypeOK'
    BY <1>1 DEF CInv, CTypeOK
  <1>3. RunInv'
    BY <1>1 DEF CInv, RunInv
  <1>4. AtBroker' = AtBroker
    BY QuietBroker
  <1>5. \A e \in Events : /\ Begun(e)' = Begun(e)
                          /\ Settling(e)' = Settling(e)
                          /\ BeingSent(e)' <=> BeingSent(e)
    BY <1>1, SettlingSame DEF Begun, BeingAcked, BeingSent
  <1> QED
    BY <1>1, <1>2, <1>3, <1>4, <1>5, QuietStep

\* An ack is written: the broker is to read what it was to be sent before
\* (rabbitmq_subscriber.go:116-118).
LEMMA AckStep ==
    ASSUME CInv, Ack
    PROVE  CInv'
  <1>1. /\ sub = "ack" /\ held \in Events /\ held' = None /\ sub' = "select"
        /\ acks' = IF subConn = "open" THEN Append(acks, held) ELSE acks
        /\ acks \in Seq(Events)
        /\ UNCHANGED <<sent, queue, msgs, subConn, worker, event, cancelled, handled, cutOff,
                       losses, restarts>>
    BY DEF CInv, CTypeOK, RunInv, Ack, broker, history
  <1>2. acks' \in Seq(Events)
    BY <1>1
  <1>3. CTypeOK'
    BY <1>1, <1>2 DEF CInv, CTypeOK
  <1>4. RunInv'
    BY <1>1 DEF CInv, RunInv
  <1>5. AtBroker' = AtBroker
    BY QuietBroker
  <1>6. ASSUME NEW e \in Events
        PROVE  /\ Begun(e)' = Begun(e)
               /\ Settling(e)' = Settling(e)
               /\ BeingSent(e)' <=> BeingSent(e)
    <2>1. ~BeingAcked(e)' /\ Begun(e)' = Begun(e) /\ ~BeingSent(e) /\ ~BeingSent(e)'
      BY <1>1 DEF BeingAcked, BeingSent, Begun
    <2>2. Times(e, acks) \in Nat
      BY <1>1, TimesType
    <2>3. CASE subConn = "open"
      <3>1. Times(e, acks') = Times(e, acks) + One(held = e)
        BY <1>1, <2>3, TimesAppend
      <3>2. One(BeingAcked(e)) = One(held = e) /\ One(BeingAcked(e))' = 0
            /\ One(held = e) \in {0, 1}
        BY <1>1, <2>1, <2>3 DEF BeingAcked, One
      <3> QED
        BY <2>1, <2>2, <3>1, <3>2 DEF Settling
    <2>4. CASE subConn # "open"
      <3>1. ~BeingAcked(e)
        BY <2>4 DEF BeingAcked
      <3> QED
        BY <1>1, <2>1, <2>4, <3>1 DEF Settling, One
    <2> QED
      BY <2>3, <2>4
  <1> QED
    BY <1>1, <1>3, <1>4, <1>5, <1>6, QuietStep

-----------------------------------------------------------------------------
(* Steps that do *)

\* A message is published (rabbitmq.go:59-75).
LEMMA PublishStep ==
    ASSUME CInv, NEW x \in Events, Publish(x)
    PROVE  CInv'
  <1>1. /\ sent' = Append(sent, x) /\ queue' = Append(queue, x)
        /\ UNCHANGED <<msgs, subConn, sub, held, acks, worker, event, cancelled, handled, cutOff,
                       losses, restarts>>
    BY DEF Publish, history
  <1>2. sent \in Seq(Events) /\ queue \in Seq(Events)
    BY DEF CInv, CTypeOK
  <1>3. Append(sent, x) \in Seq(Events) /\ Append(queue, x) \in Seq(Events)
    BY <1>2
  <1>4. CTypeOK'
    BY <1>1, <1>3 DEF CInv, CTypeOK
  <1>5. RunInv'
    BY <1>1 DEF CInv, RunInv
  <1>6. AtBroker' = Append(AtBroker, x)
    BY PublishBroker
  <1>7. AtBroker \in Seq(Events)
    BY BrokerType DEF CInv
  <1>8. OrderInv'
    <2>1. EndOf(AtBroker, sent)
      BY DEF CInv, OrderInv, KeepsOrder, EndOf
    <2>2. EndOf(AtBroker', sent')
      BY <1>1, <1>2, <1>6, <1>7, <2>1, EndOfAppend
    <2> QED
      BY <2>2 DEF OrderInv, KeepsOrder, EndOf
  <1>9. ASSUME NEW e \in Events
        PROVE  /\ Times(e, sent') = Times(e, sent) + One(x = e)
               /\ Times(e, AtBroker') = Times(e, AtBroker) + One(x = e)
               /\ Begun(e)' = Begun(e) /\ Settling(e)' = Settling(e)
               /\ One(BeingSent(e))' = One(BeingSent(e)) /\ One(x = e) \in {0, 1}
    <2>1. One(x = e) \in {0, 1}
      BY DEF One
    <2>2. Settling(e)' = Settling(e)
      BY <1>1, SettlingSame DEF BeingAcked
    <2> QED
      BY <1>1, <1>2, <1>6, <1>7, <2>1, <2>2, TimesAppend DEF Begun, BeingSent
  <1>10. LossInv'
    <2> SUFFICES ASSUME NEW e \in Events
                 PROVE  Times(e, sent') + Settling(e)' <= Begun(e)' + Times(e, AtBroker')
      BY DEF LossInv
    <2>1. Times(e, sent) + Settling(e) <= Begun(e) + Times(e, AtBroker)
      BY DEF CInv, LossInv
    <2> QED
      BY <1>9, <2>1, ConsumerCounts DEF CInv
  <1>11. ASSUME NEW e \in Events
         PROVE  /\ Times(e, sent) * (1 + restarts) + One(x = e)
                      <= Times(e, sent') * (1 + restarts')
                /\ Times(e, sent') * (1 + restarts') \in Nat
    <2>1. Times(e, sent) \in Nat /\ restarts \in Nat
      BY ConsumerCounts DEF CInv
    <2>2. ASSUME NEW a \in Nat, NEW b \in Nat
          PROVE  a * (1 + b) + 0 <= (a + 0) * (1 + b) /\ a * (1 + b) + 1 <= (a + 1) * (1 + b)
                 /\ (a + 0) * (1 + b) \in Nat /\ (a + 1) * (1 + b) \in Nat
      <3>1. (a + 1) * (1 + b) = a * (1 + b) + (1 + b) /\ a * (1 + b) \in Nat
        OBVIOUS
      <3> QED
        BY <3>1
    <2>3. restarts' = restarts
      BY <1>1
    <2>4. CASE One(x = e) = 0
      BY <1>9, <2>1, <2>2, <2>3, <2>4
    <2>5. CASE One(x = e) = 1
      BY <1>9, <2>1, <2>2, <2>3, <2>5
    <2> QED
      BY <1>9, <2>4, <2>5
  <1>12. RepeatInv'
    <2> SUFFICES ASSUME NEW e \in Events
                 PROVE  /\ subConn = "open" => Begun(e)' + Times(e, AtBroker')
                              <= Times(e, sent') * (1 + restarts') + Settling(e)'
                        /\ subConn = "closed" => Begun(e)' + One(BeingSent(e))'
                              <= Times(e, sent') * (1 + restarts')
      BY <1>1 DEF RepeatInv
    <2>1. /\ subConn = "open" => Begun(e) + Times(e, AtBroker)
                <= Times(e, sent) * (1 + restarts) + Settling(e)
          /\ subConn = "closed" => Begun(e) + One(BeingSent(e))
                <= Times(e, sent) * (1 + restarts)
      BY DEF CInv, RepeatInv
    <2> DEFINE p == Times(e, sent) * (1 + restarts)
               q == Times(e, sent') * (1 + restarts')
    <2>2. p \in Nat /\ q \in Nat /\ p + One(x = e) <= q
      BY <1>11, ConsumerCounts DEF CInv
    <2> HIDE DEF p, q
    <2>3. /\ subConn = "open" => Begun(e) + Times(e, AtBroker) <= p + Settling(e)
          /\ subConn = "closed" => Begun(e) + One(BeingSent(e)) <= p
      BY <2>1 DEF p
    <2>4. /\ subConn = "open" => Begun(e)' + Times(e, AtBroker') <= q + Settling(e)'
          /\ subConn = "closed" => Begun(e)' + One(BeingSent(e))' <= q
      BY <1>9, <2>2, <2>3, ConsumerCounts DEF CInv
    <2> QED
      BY <2>4 DEF q
  <1> QED
    BY <1>4, <1>5, <1>8, <1>10, <1>12 DEF CInv

\* The worker takes the event, and the ack comes next (rabbitmq_subscriber.go:110-117).
LEMMA HandOverStep ==
    ASSUME CInv, HandOver
    PROVE  CInv'
  <1>1. /\ sub = "send" /\ worker = "select" /\ event = None /\ held \in Events
        /\ event' = held /\ worker' = "handle" /\ sub' = "ack"
        /\ UNCHANGED <<sent, queue, msgs, subConn, held, acks, cancelled, handled, cutOff, losses,
                       restarts>>
    BY DEF CInv, CTypeOK, RunInv, HandOver, broker, history
  <1>2. CTypeOK'
    BY <1>1 DEF CInv, CTypeOK
  <1>3. RunInv'
    BY <1>1, NoneAssumption DEF CInv, RunInv
  <1>4. AtBroker' = AtBroker
    BY QuietBroker
  <1>5. OrderInv'
    BY <1>1, <1>4 DEF CInv, OrderInv, KeepsOrder
  <1>6. ASSUME NEW e \in Events
        PROVE  /\ Begun(e)' = Begun(e) + One(held = e) /\ One(held = e) \in {0, 1}
               /\ subConn = "open" => Settling(e)' = Settling(e) + One(held = e)
               /\ subConn = "closed" => Settling(e)' = Settling(e)
                                        /\ One(BeingSent(e)) = One(held = e)
               /\ One(BeingSent(e))' = 0
    <2>1. handled[e] \in Nat /\ cutOff[e] \in Nat /\ event # e /\ Times(e, acks) \in Nat
      BY <1>1, NoneAssumption, ConsumerCounts DEF CInv, CTypeOK
    <2>2. Begun(e)' = Begun(e) + One(held = e)
      BY <1>1, <2>1 DEF Begun, One
    <2>3. /\ ~BeingAcked(e) /\ ~BeingSent(e)'
          /\ BeingAcked(e)' <=> subConn = "open" /\ held = e
          /\ BeingSent(e) <=> subConn = "closed" /\ held = e
      BY <1>1 DEF BeingAcked, BeingSent
    <2>4. /\ One(BeingAcked(e)) = 0 /\ One(BeingSent(e))' = 0 /\ One(held = e) \in {0, 1}
          /\ subConn = "open" => One(BeingAcked(e))' = One(held = e)
          /\ subConn = "closed" => One(BeingAcked(e))' = 0 /\ One(BeingSent(e)) = One(held = e)
      BY <2>3 DEF One
    <2> QED
      BY <1>1, <2>1, <2>2, <2>4 DEF Settling
  <1>7. LossInv'
    <2> SUFFICES ASSUME NEW e \in Events
                 PROVE  Times(e, sent) + Settling(e)' <= Begun(e)' + Times(e, AtBroker)
      BY <1>1, <1>4 DEF LossInv
    <2>1. Times(e, sent) + Settling(e) <= Begun(e) + Times(e, AtBroker)
      BY DEF CInv, LossInv
    <2>2. CASE subConn = "open"
      BY <1>6, <2>1, <2>2, ConsumerCounts DEF CInv
    <2>3. CASE subConn = "closed"
      BY <1>6, <2>1, <2>3, ConsumerCounts DEF CInv
    <2> QED
      BY <2>2, <2>3 DEF CInv, CTypeOK
  <1>8. RepeatInv'
    <2> SUFFICES ASSUME NEW e \in Events
                 PROVE  /\ subConn = "open" => Begun(e)' + Times(e, AtBroker)
                              <= Times(e, sent) * (1 + restarts) + Settling(e)'
                        /\ subConn = "closed" => Begun(e)' + One(BeingSent(e))'
                              <= Times(e, sent) * (1 + restarts)
      BY <1>1, <1>4 DEF RepeatInv
    <2> DEFINE p == Times(e, sent) * (1 + restarts)
    <2>1. p \in Nat
      BY ConsumerCounts DEF CInv
    <2>2. /\ subConn = "open" => Begun(e) + Times(e, AtBroker) <= p + Settling(e)
          /\ subConn = "closed" => Begun(e) + One(BeingSent(e)) <= p
      BY DEF CInv, RepeatInv
    <2> HIDE DEF p
    <2>3. /\ subConn = "open" => Begun(e)' + Times(e, AtBroker) <= p + Settling(e)'
          /\ subConn = "closed" => Begun(e)' + One(BeingSent(e))' <= p
      BY <1>6, <2>1, <2>2, ConsumerCounts DEF CInv
    <2> QED
      BY <2>3 DEF p
  <1> QED
    BY <1>2, <1>3, <1>5, <1>7, <1>8 DEF CInv

\* The broker reads an ack, the first (rabbitmq_subscriber.go:117).
LEMMA AckArrivesStep ==
    ASSUME CInv, AckArrives
    PROVE  CInv'
  <1>1. UNCHANGED <<sent, queue, msgs, subConn, sub, held, worker, event, cancelled, handled,
                    cutOff, losses, restarts>>
    BY DEF AckArrives, broker, history
  <1> DEFINE h == Head(acks)
             r == Outstanding \o queue
  <1>2. /\ subConn = "open" /\ acks # <<>> /\ acks' = Tail(acks) /\ acks' \in Seq(Events)
        /\ h \in Events /\ <<h>> \in Seq(Events) /\ acks = <<h>> \o acks'
        /\ r \in Seq(Events) /\ AtBroker = acks \o r /\ AtBroker' = acks' \o r
    BY SettledBroker
  <1> HIDE DEF h, r
  <1>3. acks \in Seq(Events) /\ sent \in Seq(Events)
    BY DEF CInv, CTypeOK
  <1>4. AtBroker = <<h>> \o AtBroker' /\ AtBroker' \in Seq(Events)
    <2>1. AtBroker = (<<h>> \o acks') \o r
      BY <1>2
    <2>2. (<<h>> \o acks') \o r = <<h>> \o (acks' \o r)
      BY <1>2, ConcatAssociative
    <2> QED
      BY <1>2, <2>1, <2>2, ConcatProperties
  <1>5. CTypeOK'
    BY <1>1, <1>2 DEF CInv, CTypeOK
  <1>6. RunInv'
    BY <1>1, <1>2 DEF CInv, RunInv
  <1>7. OrderInv'
    <2>1. EndOf(AtBroker, sent)
      BY DEF CInv, OrderInv, KeepsOrder, EndOf
    <2> DEFINE u == AtBroker'
               v == <<h>>
    <2>2. u \in Seq(Events) /\ v \in Seq(Events) /\ EndOf(v \o u, sent)
      BY <1>2, <1>4, <2>1
    <2> HIDE DEF u, v
    <2>3. EndOf(u, sent)
      BY <1>3, <2>2, EndOfConcat
    <2> QED
      BY <1>1, <2>3 DEF u, OrderInv, KeepsOrder, EndOf
  <1>8. ASSUME NEW e \in Events
        PROVE  /\ Times(e, AtBroker) = Times(e, <<h>>) + Times(e, AtBroker')
               /\ Settling(e) = Times(e, <<h>>) + Settling(e)'
               /\ Times(e, <<h>>) \in Nat /\ Times(e, AtBroker') \in Nat /\ Settling(e)' \in Nat
               /\ Begun(e)' = Begun(e)
    <2> DEFINE v == <<h>>
               u == AtBroker'
    <2>1. v \in Seq(Events) /\ u \in Seq(Events) /\ AtBroker = v \o u /\ acks = v \o acks'
      BY <1>2, <1>4
    <2> HIDE DEF u, v
    <2>2. /\ Times(e, AtBroker) = Times(e, v) + Times(e, u)
          /\ Times(e, acks) = Times(e, v) + Times(e, acks')
          /\ Times(e, v) \in Nat /\ Times(e, u) \in Nat /\ Times(e, acks') \in Nat
      <3>1. \A x \in Seq(Events) : /\ Times(e, v \o x) = Times(e, v) + Times(e, x)
                                   /\ Times(e, x) \in Nat
        BY <2>1, TimesConcat, TimesType
      <3>2. acks' \in Seq(Events)
        BY <1>2
      <3> QED
        BY <2>1, <3>1, <3>2
    <2>3. One(BeingAcked(e))' = One(BeingAcked(e)) /\ Begun(e)' = Begun(e)
          /\ One(BeingAcked(e)) \in {0, 1}
      BY <1>1 DEF One, BeingAcked, Begun
    <2> QED
      BY <2>2, <2>3 DEF u, v, Settling
  <1>9. LossInv'
    <2> SUFFICES ASSUME NEW e \in Events
                 PROVE  Times(e, sent) + Settling(e)' <= Begun(e)' + Times(e, AtBroker')
      BY <1>1 DEF LossInv
    <2>1. Times(e, sent) + Settling(e) <= Begun(e) + Times(e, AtBroker)
      BY DEF CInv, LossInv
    <2> QED
      BY <1>8, <2>1, ConsumerCounts DEF CInv
  <1>10. RepeatInv'
    <2> SUFFICES ASSUME NEW e \in Events
                 PROVE  Begun(e)' + Times(e, AtBroker')
                              <= Times(e, sent) * (1 + restarts) + Settling(e)'
      BY <1>1, <1>2 DEF RepeatInv
    <2> DEFINE p == Times(e, sent) * (1 + restarts)
    <2>1. p \in Nat /\ Begun(e) + Times(e, AtBroker) <= p + Settling(e)
      BY <1>2, ConsumerCounts DEF CInv, RepeatInv
    <2> HIDE DEF p
    <2>2. Begun(e)' + Times(e, AtBroker') <= p + Settling(e)'
      BY <1>8, <2>1, ConsumerCounts DEF CInv
    <2> QED
      BY <2>2 DEF p
  <1> QED
    BY <1>5, <1>6, <1>7, <1>9, <1>10 DEF CInv

\* The connection is gone; what the goroutine holds may still be handed over,
\* but nothing else that was on it.
LEMMA DisconnectRepeats ==
    ASSUME CInv, subConn = "open", subConn' = "closed",
           UNCHANGED <<sent, sub, held, event, handled, cutOff, restarts>>
    PROVE  RepeatInv'
  <1> SUFFICES ASSUME NEW e \in Events
               PROVE  Begun(e)' + One(BeingSent(e))' <= Times(e, sent) * (1 + restarts)
    BY DEF RepeatInv
  <1> DEFINE p == Times(e, sent) * (1 + restarts)
             t == Times(e, Outstanding \o queue)
  <1>1. p \in Nat /\ Begun(e) + Times(e, AtBroker) <= p + Settling(e)
    BY ConsumerCounts DEF CInv, RepeatInv
  <1>2. /\ Times(e, AtBroker) = Times(e, acks) + t
        /\ Times(e, acks) \in Nat /\ t \in Nat
        /\ held = e => t >= 1
    BY BrokerParts DEF CInv
  <1>3. Begun(e)' = Begun(e)
    BY DEF Begun
  <1> DEFINE x == One(BeingAcked(e))
             y == One(BeingSent(e))'
  <1>4. x \in {0, 1} /\ y \in {0, 1} /\ Settling(e) = Times(e, acks) + x
    BY DEF One, Settling
  <1>5. x + y <= IF held = e THEN 1 ELSE 0
    <2>1. BeingAcked(e) => held = e /\ ~BeingSent(e)'
      BY DEF BeingAcked, BeingSent
    <2>2. BeingSent(e)' => held = e
      BY DEF BeingSent
    <2> QED
      BY <2>1, <2>2 DEF One
  <1> HIDE DEF p, t, x, y
  <1>6. x + y <= t
    BY <1>2, <1>4, <1>5
  <1>7. Begun(e) + y <= p
    <2>1. Begun(e) \in Nat
      BY ConsumerCounts DEF CInv
    <2>2. Begun(e) + (Times(e, acks) + t) <= p + (Times(e, acks) + x)
      BY <1>1, <1>2, <1>4
    <2> QED
      BY <1>1, <1>2, <1>4, <1>6, <2>1, <2>2
  <1> QED
    BY <1>3, <1>7 DEF p, y

\* The connection is lost: what the broker has read no ack for is back in the
\* queue, in front and in order (rabbitmq_subscriber.go:106).
LEMMA LoseConnectionStep ==
    ASSUME CInv, LoseConnection
    PROVE  CInv'
  <1>1. /\ subConn = "open" /\ subConn' = "closed" /\ queue' = Unacked \o queue
        /\ msgs' = <<>> /\ acks' = <<>>
        /\ UNCHANGED <<sent, sub, held, worker, event, cancelled, handled, cutOff, restarts>>
    BY DEF LoseConnection
  <1>2. losses' \in 0..MaxLosses
    <2>1. losses \in 0..MaxLosses
      BY DEF CInv, CTypeOK
    <2> QED
      BY <2>1, MaxLossesAssumption DEF LoseConnection, Lose
  <1>3. Unacked \o queue = AtBroker /\ AtBroker \in Seq(Events)
    BY <1>1, BrokerType DEF CInv
  <1>4. CTypeOK'
    BY <1>1, <1>2, <1>3, EmptySeq DEF CInv, CTypeOK
  <1>5. RunInv'
    BY <1>1 DEF CInv, RunInv
  <1>6. AtBroker' = AtBroker
    BY QuietBroker
  <1>7. OrderInv'
    BY <1>1, <1>6 DEF CInv, OrderInv, KeepsOrder
  <1>8. ASSUME NEW e \in Events
        PROVE  Begun(e)' = Begun(e) /\ Settling(e)' = 0
    <2>1. Begun(e)' = Begun(e) /\ ~BeingAcked(e)'
      BY <1>1 DEF Begun, BeingAcked
    <2>2. Times(e, <<>>) = 0
      BY TimesNone
    <2> QED
      BY <1>1, <2>1, <2>2 DEF Settling, One
  <1>9. LossInv'
    <2> SUFFICES ASSUME NEW e \in Events
                 PROVE  Times(e, sent) + Settling(e)' <= Begun(e)' + Times(e, AtBroker)
      BY <1>1, <1>6 DEF LossInv
    <2>1. Times(e, sent) + Settling(e) <= Begun(e) + Times(e, AtBroker)
      BY DEF CInv, LossInv
    <2> QED
      BY <1>8, <2>1, ConsumerCounts DEF CInv
  <1> QED
    BY <1>1, <1>4, <1>5, <1>7, <1>9, DisconnectRepeats DEF CInv

\* The connection is closed in order: the broker has read the acks before, and
\* has the rest back (rabbitmq_subscriber.go:125-135).
LEMMA CloseStep ==
    ASSUME CInv, Close
    PROVE  CInv'
  <1>1. /\ subConn = "open" /\ subConn' = "closed" /\ queue' = Outstanding \o queue
        /\ msgs' = <<>> /\ acks' = <<>>
        /\ UNCHANGED <<sent, sub, held, worker, event, cancelled, handled, cutOff, losses,
                       restarts>>
    BY DEF Close, history
  <1> DEFINE r == Outstanding \o queue
  <1>2. r \in Seq(Events) /\ AtBroker = acks \o r /\ acks \in Seq(Events) /\ sent \in Seq(Events)
    BY SettledBroker DEF CInv, CTypeOK
  <1>3. AtBroker' = r
    BY <1>1, <1>2, ConcatEmptySeq DEF AtBroker
  <1>4. CTypeOK'
    BY <1>1, <1>2, EmptySeq DEF CInv, CTypeOK
  <1>5. RunInv'
    BY <1>1 DEF CInv, RunInv
  <1> HIDE DEF r
  <1>6. OrderInv'
    <2>1. EndOf(acks \o r, sent)
      BY <1>2 DEF CInv, OrderInv, KeepsOrder, EndOf
    <2>2. EndOf(r, sent)
      BY <1>2, <2>1, EndOfConcat
    <2> QED
      BY <1>1, <1>3, <2>2 DEF OrderInv, KeepsOrder, EndOf
  <1>7. ASSUME NEW e \in Events
        PROVE  /\ Begun(e)' = Begun(e) /\ Settling(e)' = 0
               /\ Times(e, AtBroker) = Times(e, acks) + Times(e, AtBroker')
               /\ Times(e, acks) \in Nat /\ Times(e, AtBroker') \in Nat
    <2>1. Begun(e)' = Begun(e) /\ ~BeingAcked(e)'
      BY <1>1 DEF Begun, BeingAcked
    <2>2. Times(e, <<>>) = 0
      BY TimesNone
    <2>3. /\ Times(e, acks \o r) = Times(e, acks) + Times(e, r)
          /\ Times(e, acks) \in Nat /\ Times(e, r) \in Nat
      BY <1>2, TimesConcat, TimesType
    <2> QED
      BY <1>1, <1>2, <1>3, <2>1, <2>2, <2>3 DEF Settling, One
  <1>8. LossInv'
    <2> SUFFICES ASSUME NEW e \in Events
                 PROVE  Times(e, sent) + Settling(e)' <= Begun(e)' + Times(e, AtBroker')
      BY <1>1 DEF LossInv
    <2>1. Times(e, sent) + Settling(e) <= Begun(e) + Times(e, AtBroker)
      BY DEF CInv, LossInv
    <2> QED
      BY <1>7, <2>1, ConsumerCounts DEF CInv, Settling
  <1> QED
    BY <1>1, <1>4, <1>5, <1>6, <1>8, DisconnectRepeats DEF CInv

\* The process dies; the broker has kept what it has read no ack for, and will
\* deliver it all again.
LEMMA RestartStep ==
    ASSUME CInv, Restart
    PROVE  CInv'
  <1>1. /\ subConn' = "open" /\ queue' = AtBroker /\ msgs' = <<>> /\ held' = None
        /\ acks' = <<>>
        /\ sub' = "select" /\ worker' = "select" /\ event' = None /\ cancelled' = FALSE
        /\ cutOff' = [e \in Events |-> cutOff[e] + (IF event = e THEN 1 ELSE 0)]
        /\ losses < MaxLosses /\ losses' = losses + 1 /\ restarts' = restarts + 1
        /\ UNCHANGED <<sent, handled>>
    BY DEF Restart, Lose, AtBroker
  <1>2. AtBroker \in Seq(Events)
    BY BrokerType DEF CInv
  <1>3. losses' \in 0..MaxLosses /\ restarts \in Nat /\ restarts' \in Nat
    <2>1. losses \in 0..MaxLosses /\ restarts \in Nat
      BY DEF CInv, CTypeOK
    <2> QED
      BY <1>1, <2>1, MaxLossesAssumption
  <1>4. cutOff' \in [Events -> Nat]
    BY <1>1 DEF CInv, CTypeOK
  <1>5. CTypeOK'
    <2>1. /\ sent \in Seq(Events) /\ handled \in [Events -> Nat]
      BY DEF CInv, CTypeOK
    <2>2. queue' \in Seq(Events) /\ msgs' \in Seq(Events) /\ acks' \in Seq(Events)
      BY <1>1, <1>2
    <2>3. /\ subConn' = "open" /\ held' = None /\ sub' = "select" /\ worker' = "select"
          /\ event' = None /\ cancelled' = FALSE /\ sent' = sent /\ handled' = handled
      BY <1>1
    <2> QED
      BY <1>3, <1>4, <2>1, <2>2, <2>3 DEF CTypeOK
  <1>6. RunInv'
    BY <1>1 DEF RunInv
  <1>7. AtBroker' = AtBroker
    BY QuietBroker
  <1>8. OrderInv'
    BY <1>1, <1>7 DEF CInv, OrderInv, KeepsOrder
  <1>9. ASSUME NEW e \in Events
        PROVE  Begun(e)' = Begun(e) /\ Settling(e)' = 0
    <2>1. handled[e] \in Nat /\ cutOff[e] \in Nat /\ None # e
      BY NoneAssumption DEF CInv, CTypeOK
    <2>2. Begun(e)' = Begun(e)
      BY <1>1, <2>1 DEF Begun
    <2>3. ~BeingAcked(e)' /\ Times(e, <<>>) = 0
      BY <1>1, TimesNone DEF BeingAcked
    <2> QED
      BY <1>1, <2>2, <2>3 DEF Settling, One
  <1>10. LossInv'
    <2> SUFFICES ASSUME NEW e \in Events
                 PROVE  Times(e, sent) + Settling(e)' <= Begun(e)' + Times(e, AtBroker)
      BY <1>1, <1>7 DEF LossInv
    <2>1. Times(e, sent) + Settling(e) <= Begun(e) + Times(e, AtBroker)
      BY DEF CInv, LossInv
    <2> QED
      BY <1>9, <2>1, ConsumerCounts DEF CInv
  <1>11. RepeatInv'
    <2> SUFFICES ASSUME NEW e \in Events
                 PROVE  Begun(e)' + Times(e, AtBroker)
                           <= Times(e, sent) * (1 + restarts') + Settling(e)'
      BY <1>1, <1>7 DEF RepeatInv
    <2> DEFINE p == Times(e, sent) * (1 + restarts)
               q == Times(e, sent) * (1 + restarts')
    <2>1. Begun(e) <= p
      BY GivenOnce
    <2>2. Times(e, AtBroker) <= Times(e, sent)
      BY BrokerFromSent
    <2>3. p \in Nat /\ Times(e, sent) \in Nat /\ q = p + Times(e, sent)
      <3>1. p \in Nat /\ Times(e, sent) \in Nat
        BY ConsumerCounts DEF CInv
      <3>2. ASSUME NEW a \in Nat, NEW b \in Nat
            PROVE  a * (1 + (b + 1)) = a * (1 + b) + a
        OBVIOUS
      <3> QED
        BY <1>1, <1>3, <3>1, <3>2
    <2> HIDE DEF p, q
    <2>4. Begun(e)' + Times(e, AtBroker) <= q + Settling(e)'
      BY <1>9, <2>1, <2>2, <2>3, ConsumerCounts DEF CInv
    <2> QED
      BY <2>4 DEF q
  <1> QED
    BY <1>5, <1>6, <1>8, <1>10, <1>11 DEF CInv

-----------------------------------------------------------------------------
(* The theorems *)

\* The consumer starts with nothing (rabbitmq_subscriber.go:17-57).
LEMMA ConsumerInit == CInit => CInv
  <1> SUFFICES ASSUME CInit PROVE CInv
    OBVIOUS
  <1>1. CTypeOK
    <2>1. losses \in 0..MaxLosses
      BY MaxLossesAssumption DEF CInit
    <2>2. sent \in Seq(Events) /\ queue \in Seq(Events) /\ msgs \in Seq(Events)
          /\ acks \in Seq(Events) /\ restarts \in Nat
      BY EmptySeq DEF CInit
    <2> QED
      BY <2>1, <2>2 DEF CInit, CTypeOK
  <1>2. RunInv
    BY DEF CInit, RunInv
  <1>3. AtBroker = <<>>
    BY DEF CInit, AtBroker, Unacked, Outstanding
  <1>4. OrderInv
    BY <1>3 DEF CInit, OrderInv, KeepsOrder
  <1>5. ASSUME NEW e \in Events
        PROVE  /\ Times(e, sent) = 0 /\ Times(e, AtBroker) = 0
               /\ Begun(e) = 0 /\ Settling(e) = 0
    <2>1. sent = <<>> /\ acks = <<>> /\ Times(e, <<>>) = 0
      BY TimesNone DEF CInit
    <2>2. Begun(e) = 0
      BY NoneAssumption DEF CInit, Begun
    <2>3. One(BeingAcked(e)) = 0
      BY DEF CInit, BeingAcked, One
    <2> QED
      BY <1>3, <2>1, <2>2, <2>3 DEF Settling
  <1>6. LossInv
    <2> SUFFICES ASSUME NEW e \in Events
                 PROVE  Times(e, sent) + Settling(e) <= Begun(e) + Times(e, AtBroker)
      BY DEF LossInv
    <2> QED
      BY <1>5
  <1>7. RepeatInv
    <2> SUFFICES ASSUME NEW e \in Events
                 PROVE  Begun(e) + Times(e, AtBroker)
                           <= Times(e, sent) * (1 + restarts) + Settling(e)
      BY DEF CInit, RepeatInv
    <2>1. restarts = 0
      BY DEF CInit
    <2>2. Times(e, sent) * (1 + restarts) = 0
      BY <1>5, <2>1
    <2> QED
      BY <1>5, <2>2
  <1> QED
    BY <1>1, <1>2, <1>4, <1>6, <1>7 DEF CInv

\* Every step of it keeps the counts.
LEMMA ConsumerNext == CInv /\ [CNext]_cvars => CInv'
  <1> SUFFICES ASSUME CInv, [CNext]_cvars PROVE CInv'
    OBVIOUS
  <1>1. CASE \E e \in Events : Publish(e)
    BY <1>1, PublishStep
  <1>2. CASE Consume
    BY <1>2, PushStep, ReceiveStep, EndStep, HandOverStep, AckStep, HandleEventStep,
       AckArrivesStep, LoseConnectionStep, CloseStep, RestartStep DEF Consume
  <1>3. CASE UNCHANGED cvars
    <2>1. CTypeOK' /\ RunInv'
      BY <1>3 DEF cvars, CInv, CTypeOK, RunInv
    <2>2. AtBroker' = AtBroker
      BY <1>3 DEF cvars, AtBroker, Unacked, Outstanding
    <2>3. \A e \in Events : /\ Begun(e)' = Begun(e)
                            /\ Settling(e)' = Settling(e)
                            /\ BeingSent(e)' <=> BeingSent(e)
      BY <1>3, SettlingSame DEF cvars, Begun, BeingAcked, BeingSent
    <2> QED
      BY <1>3, <2>1, <2>2, <2>3, QuietStep DEF cvars
  <1> QED
    BY <1>1, <1>2, <1>3 DEF CNext

\* At every moment each copy published is with the broker, being handled or
\* accounted for (rabbitmq_subscriber.go:98-135).
THEOREM ConsumerInductive == CSpec => []CInv
  BY ConsumerInit, ConsumerNext, PTL DEF CSpec

\* No copy is lost but inside handleEvent (rabbitmq_subscriber.go:110-117).
THEOREM NothingIsLost == CSpec => []NothingLostOutsideHandler
  <1>1. CInv => NothingLostOutsideHandler
    <2> SUFFICES ASSUME CInv, NEW e \in Events
                 PROVE  Times(e, sent) <= Begun(e) + Times(e, AtBroker)
      BY DEF NothingLostOutsideHandler
    <2>1. Times(e, sent) + Settling(e) <= Begun(e) + Times(e, AtBroker)
      BY DEF CInv, LossInv
    <2> QED
      BY <2>1, ConsumerCounts DEF CInv
  <1> QED
    BY <1>1, ConsumerInductive, PTL

\* Each copy is handled at most once in each life of the consuming process, so
\* an event is handled again only after a restart, however many acks were under
\* way when the connection went (rabbitmq_subscriber.go:106-117).
THEOREM RepeatsAreBounded == CSpec => []RepeatsNeedRestarts
  <1>1. CInv => RepeatsNeedRestarts
    BY GivenOnce DEF RepeatsNeedRestarts
  <1> QED
    BY <1>1, ConsumerInductive, PTL

\* What is left to deliver is the end of what was published, in order
\* (rabbitmq_subscriber.go:101-118).
THEOREM OrderIsKept == CSpec => []KeepsOrder
  <1>1. CInv => KeepsOrder
    BY DEF CInv, OrderInv
  <1> QED
    BY <1>1, ConsumerInductive, PTL

\* The consumer ends for one of two reasons (rabbitmq_subscriber.go:103-106,
\* worker.go:36-46).
THEOREM EveryEndHasACause == CSpec => []EndsHaveCauses
  <1>1. CInit => EndsHaveCauses
    BY DEF CInit, EndsHaveCauses, Stranded
  <1>2. EndsHaveCauses /\ [CNext]_cvars => EndsHaveCauses'
    BY DEF EndsHaveCauses, Stranded, CNext, Consume, Publish, Push, Receive,
           EndSubscription, HandOver, Ack, AckArrives, HandleEvent, EndWorker, Cancel,
           LoseConnection, Close, Restart, cvars
  <1> QED
    BY <1>1, <1>2, PTL DEF CSpec

-----------------------------------------------------------------------------
(* EventPipeline: each module's steps are its own *)

\* No step of the outbox alone breaks its invariant (worker.go:74-132).
LEMMA OutboxNext == IInv /\ [Next]_vars => IInv'
  BY TypeBatchNext, CountNext DEF IInv, CountInv

\* A step of the whole is a step of each side, or leaves it alone.
LEMMA PartsNext ==
    ASSUME TypeOK, [PNext]_pvars
    PROVE  [Next]_vars /\ [CNext]_cvars
  <1>1. CASE OutboxStep
    BY <1>1 DEF OutboxStep, Next
  <1>2. CASE \E w \in Workers : LoseFrames(w)
    BY <1>2 DEF LoseFrames, Next
  <1>3. CASE \E w \in Workers : Route(w)
    <2>1. PICK w \in Workers : Route(w)
      BY <1>3
    <2>2. Next
      BY <2>1 DEF Route, Next
    <2>3. Head(wire[w]) \in Events
      <3>1. wire[w] \in Seq(Events) /\ wire[w] # <<>>
        BY <2>1 DEF Route, Deliver, TypeOK
      <3> QED
        BY <3>1, HeadThenTail
    <2>4. [CNext]_cvars
      BY <2>1, <2>3 DEF Route, CNext
    <2> QED
      BY <2>2, <2>4
  <1>4. CASE Subscribe
    BY <1>4 DEF Subscribe
  <1>5. CASE ConsumerStep
    BY <1>5 DEF ConsumerStep, CNext
  <1>6. CASE UNCHANGED pvars
    BY <1>6 DEF pvars
  <1> QED
    BY <1>1, <1>2, <1>3, <1>4, <1>5, <1>6 DEF PNext

(***************************************************************************)
(* Joined by the exchange, the outbox and the consumer behave as each does *)
(* alone: whatever holds of one of them holds of it in the whole.          *)
(***************************************************************************)
THEOREM PartsKept == PSpec => Spec /\ CSpec
  <1>1. PInit => Init /\ CInit
    BY DEF PInit
  <1>2. IInv /\ [PNext]_pvars => [Next]_vars /\ [CNext]_cvars
    BY PartsNext DEF IInv
  <1>3. PSpec => []IInv
    <2>1. IInv /\ [PNext]_pvars => IInv'
      BY <1>2, OutboxNext
    <2> QED
      BY <1>1, <2>1, InvInit, PTL DEF PSpec
  <1> QED
    BY <1>1, <1>2, <1>3, PTL DEF PSpec, Spec, CSpec

-----------------------------------------------------------------------------
(* What is on the wires *)

\* What a sequence of events consists of.
LEMMA RangeIs ==
    ASSUME NEW s \in Seq(Events)
    PROVE  Range(s) = {s[i] : i \in 1..Len(s)}
  <1>1. DOMAIN s = 1..Len(s)
    OBVIOUS
  <1> QED
    BY <1>1 DEF Range

\* What is in a queue or on a wire, and what a frame more or less changes.
LEMMA RangeSeq ==
    ASSUME NEW s \in Seq(Events)
    PROVE  /\ \A e : Times(e, s) > 0 <=> e \in Range(s)
           /\ \A x \in Events : Range(Append(s, x)) = Range(s) \cup {x}
           /\ s # <<>> => Head(s) \in Range(s) /\ Range(Tail(s)) \subseteq Range(s)
  <1>1. Range(s) = {s[i] : i \in 1..Len(s)} /\ Len(s) \in Nat
    BY RangeIs
  <1>2. ASSUME NEW e PROVE Times(e, s) > 0 <=> e \in Range(s)
    <2> DEFINE S == {i \in 1..Len(s) : s[i] = e}
    <2>1. IsFiniteSet(S) /\ Times(e, s) = Cardinality(S) /\ Cardinality(S) \in Nat
      BY TimesType DEF Times
    <2>2. Cardinality(S) = 0 <=> S = {}
      BY <2>1, FS_EmptySet
    <2>3. S # {} <=> e \in Range(s)
      BY <1>1
    <2> HIDE DEF S
    <2> QED
      BY <2>1, <2>2, <2>3
  <1>3. ASSUME NEW x \in Events PROVE Range(Append(s, x)) = Range(s) \cup {x}
    <2> DEFINE t == Append(s, x)
    <2>1. /\ t \in Seq(Events) /\ Len(t) = Len(s) + 1
          /\ \A i \in 1..Len(s) : t[i] = s[i]
          /\ t[Len(s) + 1] = x
      BY AppendProperties
    <2> HIDE DEF t
    <2>2. Range(t) = {t[i] : i \in 1..Len(t)}
      BY <2>1, RangeIs
    <2>3. 1..Len(t) = 1..Len(s) \cup {Len(s) + 1}
      BY <1>1, <2>1
    <2>4. Range(t) = Range(s) \cup {x}
      BY <1>1, <2>1, <2>2, <2>3
    <2> QED
      BY <2>4 DEF t
  <1>4. ASSUME s # <<>> PROVE Head(s) \in Range(s) /\ Range(Tail(s)) \subseteq Range(s)
    <2>1. /\ Tail(s) \in Seq(Events) /\ Len(Tail(s)) = Len(s) - 1
          /\ \A i \in 1..Len(Tail(s)) : Tail(s)[i] = s[i + 1]
          /\ Len(s) >= 1 /\ Head(s) = s[1]
      BY <1>4, HeadTailProperties, EmptySeq
    <2>2. Range(Tail(s)) = {Tail(s)[i] : i \in 1..Len(Tail(s))}
      BY <2>1, RangeIs
    <2>3. \A i \in 1..Len(Tail(s)) : i + 1 \in 1..Len(s)
      BY <1>1, <2>1
    <2> QED
      BY <1>1, <2>1, <2>2, <2>3
  <1> QED
    BY <1>2, <1>3, <1>4

\* A place is a worker and a position of e on its wire.
LEMMA OnWiresPlaces ==
    ASSUME TypeOK, NEW e
    PROVE  /\ \A p : p \in OnWires(e) <=> \E w \in Workers : \E i \in 1..Len(wire[w]) :
                                              wire[w][i] = e /\ p = <<w, i>>
           /\ OnWires(e) # {} <=> \E w \in Workers : e \in Range(wire[w])
  <1>1. \A p : p \in OnWires(e) <=> \E w \in Workers : \E i \in 1..Len(wire[w]) :
                                        wire[w][i] = e /\ p = <<w, i>>
    BY DEF OnWires
  <1>2. \A w \in Workers : Range(wire[w]) = {wire[w][i] : i \in 1..Len(wire[w])}
    BY RangeIs DEF TypeOK
  <1>3. ASSUME OnWires(e) # {} PROVE \E w \in Workers : e \in Range(wire[w])
    <2>1. PICK p : p \in OnWires(e)
      BY <1>3
    <2>2. PICK w \in Workers : \E i \in 1..Len(wire[w]) : wire[w][i] = e
      BY <1>1, <2>1
    <2> QED
      BY <1>2, <2>2
  <1>4. ASSUME NEW w \in Workers, e \in Range(wire[w]) PROVE OnWires(e) # {}
    <2>1. PICK i \in 1..Len(wire[w]) : wire[w][i] = e
      BY <1>2, <1>4
    <2>2. <<w, i>> \in OnWires(e)
      BY <1>1, <2>1
    <2> QED
      BY <2>2
  <1> QED
    BY <1>1, <1>3, <1>4

\* There are finitely many.
LEMMA OnWiresType ==
    ASSUME TypeOK, NEW e
    PROVE  IsFiniteSet(OnWires(e)) /\ Cardinality(OnWires(e)) \in Nat
  <1> DEFINE P(w) == {<<w, i>> : i \in {j \in 1..Len(wire[w]) : wire[w][j] = e}}
             Q == {P(w) : w \in Workers}
             f == [w \in Workers |-> P(w)]
  <1>1. ASSUME NEW w \in Workers PROVE IsFiniteSet(P(w))
    <2>1. Len(wire[w]) \in Nat
      BY DEF TypeOK
    <2>2. IsFiniteSet(1..Len(wire[w]))
      BY <2>1, FS_Interval
    <2>3. IsFiniteSet({w} \X (1..Len(wire[w])))
      BY <2>2, FS_Singleton, FS_Product
    <2>4. P(w) \subseteq {w} \X (1..Len(wire[w]))
      OBVIOUS
    <2> QED
      BY <2>3, <2>4, FS_Subset
  <1>2. f \in Surjection(Workers, Q)
    BY DEF Surjection
  <1> HIDE DEF P
  <1>3. IsFiniteSet(Q)
    <2> HIDE DEF f, Q
    <2> QED
      BY <1>2, WorkersAssumption, FS_Surjection
  <1>4. IsFiniteSet(UNION Q)
    BY <1>1, <1>3, FS_UNION
  <1>5. OnWires(e) = UNION Q
    BY DEF OnWires, P
  <1> QED
    BY <1>4, <1>5, FS_CardinalityType

\* Publish writes a frame to one connection (rabbitmq.go:63).
LEMMA OnWiresAppend ==
    ASSUME TypeOK, TypeOK', NEW w \in Workers, NEW x \in Events,
           wire' = [wire EXCEPT ![w] = Append(@, x)], NEW e
    PROVE  Cardinality(OnWires(e)') = Cardinality(OnWires(e)) + One(x = e)
  <1> DEFINE n == Len(wire[w]) + 1
  <1>1. /\ wire[w] \in Seq(Events) /\ Len(wire[w]) \in Nat
        /\ \A v \in Workers : wire'[v] = IF v = w THEN Append(wire[w], x) ELSE wire[v]
    BY DEF TypeOK
  <1>2. /\ Len(wire'[w]) = n /\ wire'[w][n] = x
        /\ \A i \in 1..Len(wire[w]) : wire'[w][i] = wire[w][i]
    <2> DEFINE s == wire[w]
    <2>1. /\ Len(Append(s, x)) = Len(s) + 1 /\ Append(s, x)[Len(s) + 1] = x
          /\ \A i \in 1..Len(s) : Append(s, x)[i] = s[i]
      <3> HIDE DEF s
      <3>1. s \in Seq(Events)
        BY <1>1 DEF s
      <3> QED
        BY <3>1, AppendProperties
    <2>2. wire'[w] = Append(s, x)
      BY <1>1
    <2> QED
      BY <2>1, <2>2
  <1>3. 1..n = 1..Len(wire[w]) \cup {n} /\ n \notin 1..Len(wire[w])
    BY <1>1
  <1>4. \A p : p \in OnWires(e)' <=> \E v \in Workers : \E i \in 1..Len(wire'[v]) :
                                         wire'[v][i] = e /\ p = <<v, i>>
    BY DEF OnWires
  <1> HIDE DEF n
  <1>5. <<w, n>> \notin OnWires(e)
    BY <1>3, OnWiresPlaces
  <1>6. CASE x = e
    <2>1. OnWires(e)' = OnWires(e) \cup {<<w, n>>}
      BY <1>1, <1>2, <1>3, <1>4, <1>6, OnWiresPlaces
    <2> QED
      BY <1>5, <1>6, <2>1, OnWiresType, FS_AddElement DEF One
  <1>7. CASE x # e
    <2>1. \A p : p \in OnWires(e)' <=> p \in OnWires(e)
      BY <1>1, <1>2, <1>3, <1>4, <1>7, OnWiresPlaces
    <2>2. OnWires(e)' = OnWires(e)
      BY <2>1
    <2> QED
      BY <1>7, <2>2, OnWiresType DEF One
  <1> QED
    BY <1>6, <1>7

\* The first frame of a connection reaches the exchange.
LEMMA OnWiresTail ==
    ASSUME TypeOK, TypeOK', NEW w \in Workers, wire[w] # <<>>,
           wire' = [wire EXCEPT ![w] = Tail(@)], NEW e
    PROVE  /\ Cardinality(OnWires(e)') \in Nat
           /\ Cardinality(OnWires(e)) = Cardinality(OnWires(e)') + One(Head(wire[w]) = e)
  <1> DEFINE S == OnWires(e)'
             T == OnWires(e) \ {<<w, 1>>}
             f == [p \in S |-> IF p[1] = w THEN <<w, p[2] + 1>> ELSE p]
  <1>1. /\ wire[w] \in Seq(Events) /\ Len(wire[w]) \in Nat /\ Len(wire[w]) >= 1
        /\ \A v \in Workers : wire'[v] = IF v = w THEN Tail(wire[w]) ELSE wire[v]
        /\ \A v \in Workers : Len(wire[v]) \in Nat
    BY EmptySeq DEF TypeOK
  <1>2. /\ Len(wire'[w]) = Len(wire[w]) - 1 /\ Head(wire[w]) = wire[w][1]
        /\ \A i \in 1..Len(wire'[w]) : wire'[w][i] = wire[w][i + 1]
    <2> DEFINE s == wire[w]
    <2>1. /\ Len(Tail(s)) = Len(s) - 1 /\ Head(s) = s[1]
          /\ \A i \in 1..Len(Tail(s)) : Tail(s)[i] = s[i + 1]
      <3>1. s \in Seq(Events) /\ s # <<>>
        BY <1>1
      <3> HIDE DEF s
      <3> QED
        BY <3>1, HeadTailProperties
    <2>2. wire'[w] = Tail(s)
      BY <1>1
    <2> QED
      BY <2>1, <2>2
  <1>3. \A p : p \in S <=> \E v \in Workers : \E i \in 1..Len(wire'[v]) :
                               wire'[v][i] = e /\ p = <<v, i>>
    BY DEF OnWires
  <1>4. \A p : p \in T <=> \E v \in Workers : \E i \in 1..Len(wire[v]) :
                               wire[v][i] = e /\ p = <<v, i>> /\ p # <<w, 1>>
    BY OnWiresPlaces
  <1> HIDE DEF S, T
  <1>5. f \in Bijection(S, T)
    <2>1. ASSUME NEW p \in S PROVE f[p] \in T
      <3>0. PICK v \in Workers : \E i \in 1..Len(wire'[v]) : wire'[v][i] = e /\ p = <<v, i>>
        BY <1>3
      <3>1. PICK i \in 1..Len(wire'[v]) : wire'[v][i] = e /\ p = <<v, i>>
        BY <3>0
      <3>2. CASE v = w
        <4>1. f[p] = <<w, i + 1>> /\ i + 1 \in 1..Len(wire[w]) /\ i + 1 # 1
              /\ wire[w][i + 1] = e
          BY <1>1, <1>2, <3>1, <3>2
        <4> QED
          BY <1>4, <4>1
      <3>3. CASE v # w
        <4>1. f[p] = p /\ wire[v][i] = e /\ i \in 1..Len(wire[v]) /\ p # <<w, 1>>
          BY <1>1, <3>1, <3>3
        <4> QED
          BY <1>4, <3>1, <4>1
      <3> QED
        BY <3>2, <3>3
    <2>2. ASSUME NEW p \in S, NEW q \in S, f[p] = f[q] PROVE p = q
      <3>1. /\ \E v \in Workers : \E i \in Nat : p = <<v, i>>
            /\ \E u \in Workers : \E j \in Nat : q = <<u, j>>
        BY <1>3
      <3>2. PICK v \in Workers, i \in Nat, u \in Workers, j \in Nat : p = <<v, i>> /\ q = <<u, j>>
        BY <3>1
      <3>3. i \in Int /\ j \in Int
        OBVIOUS
      <3>4. f[p] = <<v, IF v = w THEN i + 1 ELSE i>> /\ f[q] = <<u, IF u = w THEN j + 1 ELSE j>>
        BY <3>2
      <3>5. v = u /\ (v = w => i + 1 = j + 1) /\ (v # w => i = j)
        BY <2>2, <3>4
      <3> QED
        BY <3>2, <3>3, <3>5
    <2>3. ASSUME NEW q \in T PROVE \E p \in S : f[p] = q
      <3>0. PICK v \in Workers : \E i \in 1..Len(wire[v]) :
               wire[v][i] = e /\ q = <<v, i>> /\ q # <<w, 1>>
        BY <1>4
      <3>1. PICK i \in 1..Len(wire[v]) : wire[v][i] = e /\ q = <<v, i>> /\ q # <<w, 1>>
        BY <3>0
      <3>2. CASE v = w
        <4>1. i - 1 \in 1..Len(wire'[w]) /\ (i - 1) + 1 = i
          BY <1>1, <1>2, <3>1, <3>2
        <4>2. wire'[w][i - 1] = e
          BY <1>2, <3>1, <3>2, <4>1
        <4>3. <<w, i - 1>> \in S
          BY <1>3, <4>1, <4>2
        <4>4. f[<<w, i - 1>>] = q
          BY <3>1, <3>2, <4>1, <4>3
        <4> QED
          BY <4>3, <4>4
      <3>3. CASE v # w
        <4>1. q \in S
          BY <1>1, <1>3, <3>1, <3>3
        <4>2. f[q] = q
          BY <3>1, <3>3, <4>1
        <4> QED
          BY <4>1, <4>2
      <3> QED
        BY <3>2, <3>3
    <2>4. f \in [S -> T]
      BY <2>1
    <2>5. (\A p, q \in S : f[p] = f[q] => p = q) /\ (\A q \in T : \E p \in S : f[p] = q)
      BY <2>2, <2>3
    <2> HIDE DEF f
    <2> QED
      BY <2>4, <2>5, Fun_IsBij
  <1>6. IsFiniteSet(OnWires(e)) /\ Cardinality(OnWires(e)) \in Nat
    BY OnWiresType
  <1>7. IsFiniteSet(T)
        /\ Cardinality(T) = IF <<w, 1>> \in OnWires(e) THEN Cardinality(OnWires(e)) - 1
                                                       ELSE Cardinality(OnWires(e))
    BY <1>6, FS_RemoveElement DEF T
  <1>8. IsFiniteSet(S)
    <2>1. f \in Injection(S, T)
      BY <1>5 DEF Bijection
    <2> HIDE DEF f
    <2> QED
      BY <1>7, <2>1, FS_Injection
  <1>9. Cardinality(T) = Cardinality(S)
    <2> HIDE DEF f
    <2> QED
      BY <1>5, <1>8, FS_Bijection DEF ExistsBijection
  <1>10. <<w, 1>> \in OnWires(e) <=> Head(wire[w]) = e
    BY <1>1, <1>2, OnWiresPlaces
  <1>11. Cardinality(S) \in Nat
    BY <1>8, FS_CardinalityType
  <1> QED
    BY <1>6, <1>7, <1>9, <1>10, <1>11 DEF One, S

-----------------------------------------------------------------------------
(* The invariant of the whole *)

\* What the broker still has was published to the queue.
LEMMA BrokerInSent ==
    ASSUME CInv
    PROVE  Range(AtBroker) \subseteq Range(sent)
  <1>1. AtBroker \in Seq(Events) /\ sent \in Seq(Events)
    BY BrokerType DEF CInv, CTypeOK
  <1>2. Len(AtBroker) <= Len(sent) /\ EndOf(AtBroker, sent)
    BY DEF CInv, OrderInv, KeepsOrder, EndOf
  <1>3. \A i \in 1..Len(AtBroker) : AtBroker[i] = sent[Len(sent) - Len(AtBroker) + i]
    BY <1>1, <1>2, EndOfElements
  <1>4. \A i \in 1..Len(AtBroker) : Len(sent) - Len(AtBroker) + i \in 1..Len(sent)
    BY <1>1, <1>2
  <1>5. /\ Range(AtBroker) = {AtBroker[i] : i \in 1..Len(AtBroker)}
        /\ Range(sent) = {sent[i] : i \in 1..Len(sent)}
    BY <1>1, RangeIs
  <1> QED
    BY <1>3, <1>4, <1>5

\* A step that touches neither wires nor queue keeps what joins the sides.
LEMMA LinkFrame ==
    ASSUME PInv, IInv', CInv', UNCHANGED <<wire, copies, sent, sub, held, event, exchange>>,
           stored \subseteq stored', AtBroker' = AtBroker
    PROVE  PInv'
  <1>1. \A e : OnWires(e)' = OnWires(e)
    BY DEF OnWires
  <1>2. PTypeOK'
    BY DEF PInv, PTypeOK, IInv, CInv, exchange
  <1>3. CountedInv' /\ TraceInv'
    BY <1>1 DEF PInv, CountedInv, TraceInv, exchange
  <1>4. SourceInv' /\ HeldInv'
    BY DEF PInv, SourceInv, HeldInv
  <1> QED
    BY <1>2, <1>3, <1>4 DEF PInv

\* Publish puts a row's event on the wire and counts it (worker.go:113-121).
LEMMA PublishOkLinks ==
    ASSUME PInv, IInv', CInv', NEW w \in Workers, PublishOk(w), UNCHANGED <<cvars, exchange>>
    PROVE  PInv'
  <1> DEFINE h == Head(batch[w]).id
  <1>1. TypeOK /\ BatchInv /\ TypeOK' /\ CTypeOK /\ CTypeOK'
    BY DEF PInv, IInv, CInv
  <1>2. h \in Events /\ h \in stored
    BY <1>1, PublishOkCounts
  <1>3. /\ wire' = [wire EXCEPT ![w] = Append(@, h)] /\ copies' = [copies EXCEPT ![h] = @ + 1]
        /\ stored' = stored
    BY DEF PublishOk, table
  <1> HIDE DEF h
  <1>4. AtBroker' = AtBroker /\ sent' = sent
    BY DEF AtBroker, Unacked, Outstanding, cvars
  <1>5. \A e : Cardinality(OnWires(e)') = Cardinality(OnWires(e)) + One(h = e)
    BY <1>1, <1>2, <1>3, OnWiresAppend
  <1>6. \A e \in Events : copies'[e] = copies[e] + One(h = e)
    BY <1>1, <1>2, <1>3 DEF TypeOK, One
  <1>7. \A e : Cardinality(OnWires(e)) \in Nat /\ One(h = e) \in {0, 1}
    BY <1>1, OnWiresType DEF One
  <1>8. PTypeOK'
    BY <1>1 DEF PInv, PTypeOK, exchange
  <1>9. CountedInv'
    <2> SUFFICES ASSUME NEW e \in Events
                 PROVE  Times(e, sent) + Cardinality(OnWires(e)') <= copies'[e]
      BY <1>4 DEF CountedInv
    <2>1. Times(e, sent) + Cardinality(OnWires(e)) <= copies[e]
      BY DEF PInv, CountedInv
    <2>2. Times(e, sent) \in Nat /\ copies[e] \in Nat
      BY <1>1, TimesType DEF TypeOK, CTypeOK
    <2> QED
      BY <1>5, <1>6, <1>7, <2>1, <2>2
  <1>10. TraceInv'
    <2> SUFFICES ASSUME NEW e \in Events, copies'[e] > 0
                 PROVE  \/ Times(e, sent) > 0 \/ OnWires(e)' # {}
                        \/ e \in dropped \/ e \in unrouted
      BY <1>4 DEF TraceInv, exchange
    <2>1. Cardinality(OnWires(e)') > 0 => OnWires(e)' # {}
      BY FS_EmptySet
    <2>2. CASE h = e
      BY <1>5, <1>7, <2>1, <2>2 DEF One
    <2>3. CASE h # e
      <3>1. copies[e] > 0 /\ (OnWires(e) # {} => Cardinality(OnWires(e)) > 0)
        BY <1>1, <1>6, <1>7, <2>3, OnWiresType, FS_EmptySet DEF One, TypeOK
      <3>2. Cardinality(OnWires(e)') = Cardinality(OnWires(e))
        BY <1>5, <1>7, <2>3 DEF One
      <3> QED
        BY <2>1, <3>1, <3>2 DEF PInv, TraceInv
    <2> QED
      BY <2>2, <2>3
  <1>11. SourceInv'
    <2>1. \A v \in Workers : wire'[v] = IF v = w THEN Append(wire[w], h) ELSE wire[v]
      BY <1>1, <1>3 DEF TypeOK
    <2>2. wire[w] \in Seq(Events)
      BY <1>1 DEF TypeOK
    <2>3. Range(Append(wire[w], h)) = Range(wire[w]) \cup {h}
      BY <1>2, <2>2, RangeSeq
    <2> QED
      BY <1>2, <1>3, <2>1, <2>3 DEF PInv, SourceInv, cvars
  <1>12. HeldInv'
    BY <1>4 DEF PInv, HeldInv, cvars
  <1> QED
    BY <1>8, <1>9, <1>10, <1>11, <1>12 DEF PInv

\* A connection takes its frames along (rabbitmq.go:65).
LEMMA LoseFramesLinks ==
    ASSUME PInv, IInv', CInv', NEW w \in Workers, LoseFrames(w)
    PROVE  PInv'
  <1>1. TypeOK /\ TypeOK' /\ CTypeOK /\ CTypeOK'
    BY DEF PInv, IInv, CInv
  <1>2. /\ wire' = [wire EXCEPT ![w] = <<>>] /\ copies' = copies /\ stored' = stored
        /\ dropped' = dropped \cup Range(wire[w]) /\ UNCHANGED <<cvars, bound, unrouted>>
    BY DEF LoseFrames, Crash, DropConnection, table
  <1>3. AtBroker' = AtBroker /\ sent' = sent
    BY <1>2 DEF AtBroker, Unacked, Outstanding, cvars
  <1>4. \A v \in Workers : wire'[v] = IF v = w THEN <<>> ELSE wire[v]
    BY <1>1, <1>2 DEF TypeOK
  <1>5. ASSUME NEW e PROVE OnWires(e)' \subseteq OnWires(e)
    BY <1>4 DEF OnWires
  <1>6. Range(wire[w]) \subseteq Events
    <2>1. wire[w] \in Seq(Events)
      BY <1>1 DEF TypeOK
    <2> QED
      BY <2>1, RangeIs
  <1>7. PTypeOK'
    BY <1>1, <1>2, <1>6 DEF PInv, PTypeOK
  <1>8. CountedInv'
    <2> SUFFICES ASSUME NEW e \in Events
                 PROVE  Times(e, sent) + Cardinality(OnWires(e)') <= copies[e]
      BY <1>2, <1>3 DEF CountedInv
    <2>1. /\ IsFiniteSet(OnWires(e)) /\ Cardinality(OnWires(e)) \in Nat
      BY <1>1, OnWiresType
    <2>2. Cardinality(OnWires(e)') <= Cardinality(OnWires(e)) /\ Cardinality(OnWires(e)') \in Nat
      BY <1>5, <2>1, FS_Subset, FS_CardinalityType
    <2>3. Times(e, sent) + Cardinality(OnWires(e)) <= copies[e]
      BY DEF PInv, CountedInv
    <2>4. Times(e, sent) \in Nat /\ copies[e] \in Nat
      BY <1>1, TimesType DEF TypeOK, CTypeOK
    <2> QED
      BY <2>1, <2>2, <2>3, <2>4
  <1>9. TraceInv'
    <2> SUFFICES ASSUME NEW e \in Events, copies[e] > 0
                 PROVE  \/ Times(e, sent) > 0 \/ OnWires(e)' # {}
                        \/ e \in dropped' \/ e \in unrouted
      BY <1>2, <1>3 DEF TraceInv
    <2>1. ASSUME OnWires(e) # {} PROVE OnWires(e)' # {} \/ e \in Range(wire[w])
      <3>1. PICK v \in Workers : \E i \in 1..Len(wire[v]) : wire[v][i] = e
        BY <1>1, <2>1, OnWiresPlaces
      <3>2. CASE v = w
        <4>1. wire[w] \in Seq(Events)
          BY <1>1 DEF TypeOK
        <4> QED
          BY <3>1, <3>2, <4>1, RangeIs
      <3>3. CASE v # w
        <4>1. PICK i \in 1..Len(wire[v]) : wire[v][i] = e
          BY <3>1
        <4>2. <<v, i>> \in OnWires(e)'
          BY <1>4, <3>3, <4>1 DEF OnWires
        <4> QED
          BY <4>2
      <3> QED
        BY <3>2, <3>3
    <2> QED
      BY <1>2, <2>1 DEF PInv, TraceInv
  <1>10. SourceInv'
    <2>1. Range(<<>>) = {}
      BY DEF Range
    <2> QED
      BY <1>2, <1>4, <2>1 DEF PInv, SourceInv, cvars
  <1>11. HeldInv'
    BY <1>2, <1>3 DEF PInv, HeldInv, cvars
  <1> QED
    BY <1>7, <1>8, <1>9, <1>10, <1>11 DEF PInv

\* What Route does to the wires.
LEMMA RouteWires ==
    ASSUME PInv, TypeOK', NEW w \in Workers, Route(w)
    PROVE  /\ Head(wire[w]) \in stored /\ Head(wire[w]) \in Events
           /\ wire' = [wire EXCEPT ![w] = Tail(@)] /\ wire[w] # <<>>
           /\ UNCHANGED <<stored, published, batch, pc, copies, bound, dropped>>
           /\ \A v \in Workers : Range(wire'[v]) \subseteq Range(wire[v])
           /\ \A e : /\ Cardinality(OnWires(e)') \in Nat /\ Cardinality(OnWires(e)) \in Nat
                     /\ Cardinality(OnWires(e)) = Cardinality(OnWires(e)')
                                                    + (IF Head(wire[w]) = e THEN 1 ELSE 0)
                     /\ OnWires(e) # {} <=> Cardinality(OnWires(e)) > 0
                     /\ Cardinality(OnWires(e)') > 0 => OnWires(e)' # {}
  <1>1. TypeOK
    BY DEF PInv, PTypeOK
  <1>2. /\ wire' = [wire EXCEPT ![w] = Tail(@)] /\ wire[w] # <<>>
        /\ UNCHANGED <<stored, published, batch, pc, copies, bound, dropped>>
    BY DEF Route, Deliver, table
  <1>3. wire[w] \in Seq(Events)
    BY <1>1 DEF TypeOK
  <1>4. Head(wire[w]) \in Range(wire[w]) /\ Range(Tail(wire[w])) \subseteq Range(wire[w])
        /\ Range(wire[w]) \subseteq Events
    BY <1>2, <1>3, RangeSeq, RangeIs
  <1>5. \A v \in Workers : Range(wire'[v]) \subseteq Range(wire[v])
    BY <1>1, <1>2, <1>4 DEF TypeOK
  <1>6. Head(wire[w]) \in stored
    BY <1>4 DEF PInv, SourceInv
  <1>7. ASSUME NEW e
        PROVE  /\ Cardinality(OnWires(e)') \in Nat /\ Cardinality(OnWires(e)) \in Nat
               /\ Cardinality(OnWires(e)) = Cardinality(OnWires(e)')
                                              + (IF Head(wire[w]) = e THEN 1 ELSE 0)
               /\ OnWires(e) # {} <=> Cardinality(OnWires(e)) > 0
               /\ Cardinality(OnWires(e)') > 0 => OnWires(e)' # {}
    <2>1. IsFiniteSet(OnWires(e)) /\ Cardinality(OnWires(e)) \in Nat
      BY <1>1, OnWiresType
    <2>2. Cardinality(OnWires(e)') \in Nat
          /\ Cardinality(OnWires(e)) = Cardinality(OnWires(e)')
                                         + (IF Head(wire[w]) = e THEN 1 ELSE 0)
      BY <1>1, <1>2, OnWiresTail DEF One
    <2>3. Cardinality(OnWires(e)) = 0 <=> OnWires(e) = {}
      BY <2>1, FS_EmptySet
    <2>4. Cardinality(OnWires(e)') > 0 => OnWires(e)' # {}
      BY FS_EmptySet
    <2> QED
      BY <2>1, <2>2, <2>3, <2>4
  <1> QED
    BY <1>2, <1>4, <1>5, <1>6, <1>7

\* A frame reaches the exchange (rabbitmq.go:63-75).
LEMMA RouteLinks ==
    ASSUME PInv, IInv', CInv', NEW w \in Workers, Route(w)
    PROVE  PInv'
  <1> DEFINE h == Head(wire[w])
  <1>1. TypeOK /\ TypeOK' /\ CTypeOK /\ CTypeOK' /\ CInv
    BY DEF PInv, IInv, CInv
  <1>2. /\ h \in stored /\ h \in Events
        /\ UNCHANGED <<stored, copies, bound, dropped>>
        /\ \A v \in Workers : Range(wire'[v]) \subseteq Range(wire[v])
    BY <1>1, RouteWires
  <1>3. ASSUME NEW e
        PROVE  /\ Cardinality(OnWires(e)') \in Nat /\ Cardinality(OnWires(e)) \in Nat
               /\ Cardinality(OnWires(e)) = Cardinality(OnWires(e)')
                                              + (IF h = e THEN 1 ELSE 0)
               /\ OnWires(e) # {} <=> Cardinality(OnWires(e)) > 0
               /\ Cardinality(OnWires(e)') > 0 => OnWires(e)' # {}
    BY <1>1, RouteWires
  <1>4. \/ bound /\ Publish(h) /\ unrouted' = unrouted
        \/ ~bound /\ unrouted' = unrouted \cup {h} /\ UNCHANGED cvars
    BY DEF Route
  <1> HIDE DEF h
  <1>5. sent \in Seq(Events) /\ AtBroker \in Seq(Events)
    BY <1>1, BrokerType DEF CTypeOK
  <1>6. \A e \in Events : copies[e] \in Nat
    BY <1>1 DEF TypeOK
  <1>7. PTypeOK'
    BY <1>1, <1>2, <1>4 DEF PInv, PTypeOK
  <1>8. CASE bound /\ Publish(h) /\ unrouted' = unrouted
    <2>1. /\ sent' = Append(sent, h) /\ UNCHANGED <<sub, held, event>>
      BY <1>8 DEF Publish
    <2>2. AtBroker' = Append(AtBroker, h)
      BY <1>1, <1>2, <1>8, PublishBroker
    <2>3. ASSUME NEW e
          PROVE  /\ Times(e, sent) \in Nat
                 /\ Times(e, sent') = Times(e, sent) + (IF h = e THEN 1 ELSE 0)
      BY <1>2, <1>5, <2>1, TimesAppend, TimesType DEF One
    <2>4. CountedInv'
      <3> SUFFICES ASSUME NEW e \in Events
                   PROVE  Times(e, sent') + Cardinality(OnWires(e)') <= copies[e]
        BY <1>2 DEF CountedInv
      <3>1. Times(e, sent) + Cardinality(OnWires(e)) <= copies[e]
        BY DEF PInv, CountedInv
      <3> QED
        BY <1>3, <1>6, <2>3, <3>1
    <2>5. TraceInv'
      <3> SUFFICES ASSUME NEW e \in Events, copies[e] > 0
                   PROVE  \/ Times(e, sent') > 0 \/ OnWires(e)' # {}
                          \/ e \in dropped \/ e \in unrouted
        BY <1>2, <1>8 DEF TraceInv
      <3>1. Times(e, sent) > 0 \/ OnWires(e) # {} \/ e \in dropped \/ e \in unrouted
        BY DEF PInv, TraceInv
      <3> QED
        BY <1>3, <1>6, <2>3, <3>1
    <2>6. SourceInv'
      <3>1. Range(sent') = Range(sent) \cup {h}
        BY <1>2, <1>5, <2>1, RangeSeq
      <3> QED
        BY <1>2, <2>1, <3>1 DEF PInv, SourceInv
    <2>7. HeldInv'
      <3>1. Range(AtBroker') = Range(AtBroker) \cup {h}
        BY <1>2, <1>5, <2>2, RangeSeq
      <3> QED
        BY <2>1, <3>1 DEF PInv, HeldInv
    <2> QED
      BY <1>7, <2>4, <2>5, <2>6, <2>7 DEF PInv
  <1>9. CASE ~bound /\ unrouted' = unrouted \cup {h} /\ UNCHANGED cvars
    <2>1. AtBroker' = AtBroker /\ UNCHANGED <<sent, sub, held, event>>
      BY <1>9 DEF AtBroker, Unacked, Outstanding, cvars
    <2>2. \A e : Times(e, sent) \in Nat
      BY <1>5, TimesType
    <2>3. CountedInv'
      <3> SUFFICES ASSUME NEW e \in Events
                   PROVE  Times(e, sent) + Cardinality(OnWires(e)') <= copies[e]
        BY <1>2, <2>1 DEF CountedInv
      <3>1. Times(e, sent) + Cardinality(OnWires(e)) <= copies[e]
        BY DEF PInv, CountedInv
      <3> QED
        BY <1>3, <1>6, <2>2, <3>1
    <2>4. TraceInv'
      <3> SUFFICES ASSUME NEW e \in Events, copies[e] > 0
                   PROVE  \/ Times(e, sent) > 0 \/ OnWires(e)' # {}
                          \/ e \in dropped \/ e \in unrouted'
        BY <1>2, <2>1 DEF TraceInv
      <3>1. Times(e, sent) > 0 \/ OnWires(e) # {} \/ e \in dropped \/ e \in unrouted
        BY DEF PInv, TraceInv
      <3> QED
        BY <1>3, <1>6, <1>9, <3>1
    <2>5. SourceInv' /\ HeldInv'
      BY <1>2, <2>1 DEF PInv, SourceInv, HeldInv
    <2> QED
      BY <1>7, <2>3, <2>4, <2>5 DEF PInv
  <1> QED
    BY <1>4, <1>8, <1>9

\* What is in either part is in the whole.
LEMMA RangeConcat ==
    ASSUME NEW s \in Seq(Events), NEW t \in Seq(Events)
    PROVE  Range(s \o t) = Range(s) \cup Range(t)
  <1>1. s \o t \in Seq(Events)
    BY ConcatProperties
  <1>2. ASSUME NEW e
        PROVE  e \in Range(s \o t) <=> e \in Range(s) \cup Range(t)
    <2>1. Times(e, s \o t) = Times(e, s) + Times(e, t)
      BY TimesConcat
    <2>2. Times(e, s) \in Nat /\ Times(e, t) \in Nat
      BY TimesType
    <2>3. /\ Times(e, s) > 0 <=> e \in Range(s)
          /\ Times(e, t) > 0 <=> e \in Range(t)
          /\ Times(e, s \o t) > 0 <=> e \in Range(s \o t)
      BY <1>1, RangeSeq
    <2> QED
      BY <2>1, <2>2, <2>3
  <1> QED
    BY <1>2

\* What is held is among what is not acknowledged.
LEMMA HeldOutstanding ==
    ASSUME CTypeOK, held # None
    PROVE  held \in Range(Outstanding \o queue)
  <1>1. /\ msgs \in Seq(Events) /\ queue \in Seq(Events) /\ HeldSeq = <<held>>
        /\ held \in Events /\ Outstanding = HeldSeq \o msgs /\ HeldSeq \in Seq(Events)
        /\ Outstanding \in Seq(Events)
    BY BrokerType DEF HeldSeq, CTypeOK
  <1>2. held \in Range(HeldSeq)
    <2>1. Times(held, HeldSeq) > 0
      <3>1. {i \in 1..Len(HeldSeq) : HeldSeq[i] = held} = {1}
        BY <1>1
      <3>2. Times(held, HeldSeq) = 1
        BY <3>1, FS_Singleton DEF Times
      <3> QED
        BY <3>2
    <2> QED
      BY <1>1, <2>1, RangeSeq
  <1>3. Range(Outstanding) = Range(HeldSeq) \cup Range(msgs)
        /\ Range(Outstanding \o queue) = Range(Outstanding) \cup Range(queue)
    BY <1>1, RangeConcat
  <1> QED
    BY <1>2, <1>3

\* What the goroutine takes is with the broker (rabbitmq_subscriber.go:101-114).
LEMMA ReceiveHolds ==
    ASSUME CInv, Receive
    PROVE  held' \in Range(AtBroker)
  <1>1. /\ msgs # <<>> /\ msgs \in Seq(Events) /\ queue \in Seq(Events) /\ acks \in Seq(Events)
        /\ held = None /\ subConn = "open" /\ held' = Head(msgs)
    BY DEF Receive, CInv, RunInv, CTypeOK
  <1>2. Outstanding = msgs
    BY <1>1, ConcatEmptySeq DEF Outstanding
  <1>3. AtBroker = acks \o (msgs \o queue) /\ msgs \o queue \in Seq(Events)
    BY <1>1, <1>2, BrokerType DEF CInv
  <1>4. Head(msgs) \in Range(msgs)
    BY <1>1, RangeSeq
  <1>5. Range(AtBroker) = Range(acks) \cup Range(msgs \o queue)
        /\ Range(msgs \o queue) = Range(msgs) \cup Range(queue)
    BY <1>1, <1>3, RangeConcat
  <1> QED
    BY <1>1, <1>4, <1>5

\* An ack read or a connection closed takes nothing that is held, and brings
\* nothing back (rabbitmq_subscriber.go:116-135).
LEMMA SettledRange ==
    ASSUME CInv, AckArrives \/ Close
    PROVE  /\ Range(AtBroker') \subseteq Range(AtBroker)
           /\ held # None => held \in Range(AtBroker')
  <1> DEFINE r == Outstanding \o queue
  <1>1. /\ r \in Seq(Events) /\ AtBroker = acks \o r /\ acks' \in Seq(Events)
        /\ AtBroker' = acks' \o r /\ acks \in Seq(Events)
    BY SettledBroker DEF CInv, CTypeOK
  <1>2. Range(acks') \subseteq Range(acks)
    <2>1. CASE AckArrives
      <3>1. acks # <<>> /\ acks' = Tail(acks)
        BY <2>1, SettledBroker
      <3> QED
        BY <1>1, <3>1, RangeSeq
    <2>2. CASE Close
      <3>1. acks' = <<>>
        BY <2>2, SettledBroker
      <3>2. Range(<<>>) = {}
        BY DEF Range
      <3> QED
        BY <3>1, <3>2
    <2> QED
      BY <2>1, <2>2
  <1>3. held # None => held \in Range(r)
    BY HeldOutstanding DEF CInv
  <1> HIDE DEF r
  <1>4. Range(AtBroker) = Range(acks) \cup Range(r)
        /\ Range(AtBroker') = Range(acks') \cup Range(r)
    BY <1>1, RangeConcat
  <1> QED
    BY <1>2, <1>3, <1>4

\* A step of the consuming process (rabbitmq_subscriber.go:98-135, worker.go:36-60).
LEMMA ConsumerLinks ==
    ASSUME PInv, IInv', CInv', ConsumerStep
    PROVE  PInv'
  <1>1. /\ UNCHANGED <<wire, copies, stored, exchange>> /\ Consume /\ CInv
    BY DEF ConsumerStep, vars, table, net, PInv
  <1>2. sent' = sent
    BY <1>1 DEF Consume, Push, Receive, EndSubscription, HandOver, Ack, AckArrives, HandleEvent,
                EndWorker, Cancel, LoseConnection, Close, Restart, broker
  <1>3. \A e : OnWires(e)' = OnWires(e)
    BY <1>1 DEF OnWires
  <1>4. PTypeOK'
    BY <1>1 DEF PInv, PTypeOK, IInv, CInv, exchange
  <1>5. CountedInv' /\ TraceInv'
    BY <1>1, <1>2, <1>3 DEF PInv, CountedInv, TraceInv, exchange
  <1>6. SourceInv'
    <2>1. event' \in {event, None} \/ (HandOver /\ event' = held)
      BY <1>1 DEF Consume, Push, Receive, EndSubscription, HandOver, Ack, AckArrives,
                  HandleEvent, EndWorker, Cancel, LoseConnection, Close, Restart
    <2>2. HandOver => held \in stored
      BY <1>1, BrokerInSent DEF HandOver, PInv, HeldInv, SourceInv
    <2> QED
      BY <1>1, <1>2, <2>1, <2>2 DEF PInv, SourceInv
  <1>7. HeldInv'
    <2>1. CASE AckArrives \/ Close
      <3>1. held' = held /\ sub' = sub /\ (sub = "send" => held # None)
        BY <1>1, <2>1 DEF AckArrives, Close, CInv, RunInv
      <3> QED
        BY <1>1, <2>1, <3>1, SettledRange DEF HeldInv
    <2>2. CASE ~(AckArrives \/ Close)
      <3>1. AtBroker' = AtBroker
        BY <1>1, <2>2, QuietBroker DEF Consume
      <3>2. sub' = "send" => Receive \/ (sub = "send" /\ held' = held)
        BY <1>1, <2>2 DEF Consume, Push, Receive, EndSubscription, HandOver, Ack,
                          HandleEvent, EndWorker, Cancel, LoseConnection, Restart
      <3> QED
        BY <1>1, <3>1, <3>2, ReceiveHolds DEF PInv, HeldInv
    <2> QED
      BY <2>1, <2>2
  <1> QED
    BY <1>4, <1>5, <1>6, <1>7 DEF PInv

\* Nothing is under way when the processes start (rabbitmq.go:20-40).
LEMMA PipelineInit == PInit => PInv
  <1> SUFFICES ASSUME PInit PROVE PInv
    OBVIOUS
  <1>1. IInv /\ CInv
    BY InvInit, ConsumerInit DEF PInit
  <1>2. PTypeOK
    BY <1>1 DEF PInit, PTypeOK, IInv, CInv
  <1>3. \A w \in Workers : wire[w] = <<>>
    BY DEF PInit, Init
  <1>4. \A e : OnWires(e) = {}
    BY <1>3 DEF OnWires
  <1>5. sent = <<>> /\ sub = "select" /\ event = None /\ \A e \in Events : copies[e] = 0
    BY DEF PInit, Init, CInit
  <1>6. Range(<<>>) = {}
    BY DEF Range
  <1>7. \A e : Times(e, sent) = 0
    <2>1. Len(sent) = 0
      BY <1>5
    <2>2. \A e : {i \in 1..Len(sent) : sent[i] = e} = {}
      BY <2>1
    <2>3. Cardinality({}) = 0
      BY FS_EmptySet
    <2> QED
      BY <2>2, <2>3 DEF Times
  <1>8. CountedInv /\ TraceInv
    <2>1. \A e : Cardinality(OnWires(e)) = 0
      BY <1>4, FS_EmptySet
    <2>2. CountedInv
      <3> SUFFICES ASSUME NEW e \in Events
                   PROVE  Times(e, sent) + Cardinality(OnWires(e)) <= copies[e]
        BY DEF CountedInv
      <3>1. Times(e, sent) = 0 /\ Cardinality(OnWires(e)) = 0 /\ copies[e] = 0
        BY <1>5, <1>7, <2>1
      <3> QED
        BY <3>1
    <2>3. TraceInv
      BY <1>5 DEF TraceInv
    <2> QED
      BY <2>2, <2>3
  <1>9. SourceInv /\ HeldInv
    BY <1>3, <1>5, <1>6 DEF SourceInv, HeldInv
  <1> QED
    BY <1>1, <1>2, <1>8, <1>9 DEF PInv

\* Every step of publisher, exchange and consumer keeps what joins them.
LEMMA PipelineNext ==
    ASSUME PInv, [PNext]_pvars
    PROVE  PInv'
  <1>1. IInv' /\ CInv'
    BY PartsNext, OutboxNext, ConsumerNext DEF PInv, PTypeOK
  <1>2. CASE OutboxStep
    <2>1. CASE \E w \in Workers : PublishOk(w)
      BY <1>1, <1>2, <2>1, PublishOkLinks DEF OutboxStep
    <2>2. CASE ~\E w \in Workers : PublishOk(w)
      <3>1. UNCHANGED <<wire, copies>> /\ stored \subseteq stored'
        BY <1>2, <2>2 DEF OutboxStep, HandleRow, Store, Poll, SkipExhausted, PublishErr,
           MarkPublished, MarkFailed, MarkError, ObserveStop, Start, Stop, ClosePublisher,
           table, net
      <3>2. UNCHANGED <<sent, sub, held, event, exchange>> /\ AtBroker' = AtBroker
        BY <1>2 DEF OutboxStep, cvars, AtBroker, Unacked, Outstanding
      <3> QED
        BY <1>1, <3>1, <3>2, LinkFrame
    <2> QED
      BY <2>1, <2>2
  <1>3. CASE Subscribe
    <2>1. /\ UNCHANGED <<vars, cvars, unrouted, dropped>> /\ bound' = TRUE
      BY <1>3 DEF Subscribe
    <2>2. AtBroker' = AtBroker /\ \A e : OnWires(e)' = OnWires(e)
      BY <2>1 DEF vars, net, cvars, AtBroker, Unacked, Outstanding, OnWires
    <2>3. PTypeOK'
      BY <1>1, <2>1 DEF PInv, PTypeOK, IInv, CInv
    <2>4. CountedInv' /\ TraceInv' /\ SourceInv' /\ HeldInv'
      BY <2>1, <2>2 DEF PInv, CountedInv, TraceInv, SourceInv, HeldInv, vars, table, net, cvars
    <2> QED
      BY <1>1, <2>3, <2>4 DEF PInv
  <1>4. CASE UNCHANGED pvars
    <2>1. UNCHANGED <<wire, copies, sent, sub, held, event, exchange, stored>>
          /\ AtBroker' = AtBroker
      BY <1>4 DEF pvars, vars, table, net, cvars, AtBroker, Unacked, Outstanding
    <2> QED
      BY <1>1, <2>1, LinkFrame
  <1> QED
    BY <1>1, <1>2, <1>3, <1>4, LoseFramesLinks, RouteLinks, ConsumerLinks DEF PNext

(***************************************************************************)
(* The invariant of the whole: no event is on a connection, in the queue   *)
(* or in a handler but one of the table, no copy is made on the way, and   *)
(* each one handed over can be traced to where it is or was lost           *)
(* (worker.go:113-132, rabbitmq.go:63-75, rabbitmq_subscriber.go:98-120).  *)
(***************************************************************************)
THEOREM PipelineInductive == PSpec => []PInv
  <1>1. PInv /\ [PNext]_pvars => PInv'
    BY PipelineNext
  <1> QED
    BY <1>1, PipelineInit, PTL DEF PSpec


-----------------------------------------------------------------------------
(* What follows from it *)

(***************************************************************************)
(* An event that is marked published and will never be handled was lost    *)
(* on a connection, at an exchange without the queue, or in a handler the  *)
(* process died in (rabbitmq.go:63-75, rabbitmq_subscriber.go:110-117).    *)
(***************************************************************************)
THEOREM LossesHaveCauses == PSpec => []LossHasCause
  <1>1. PInv => LossHasCause
    <2> SUFFICES ASSUME PInv, NEW e \in Events, Gone(e), e \notin dropped, e \notin unrouted
                 PROVE  cutOff[e] > 0
      BY DEF LossHasCause
    <2>1. TypeOK /\ CTypeOK /\ copies[e] > 0
      BY DEF PInv, IInv, CInv, HandedInv, Gone
    <2>2. OnWires(e) = {}
      BY <2>1, OnWiresPlaces DEF Gone
    <2>3. Times(e, sent) > 0
      BY <2>1, <2>2 DEF PInv, TraceInv
    <2>4. Times(e, AtBroker) = 0 /\ Times(e, sent) \in Nat
      <3>1. AtBroker \in Seq(Events) /\ sent \in Seq(Events)
        BY <2>1, BrokerType DEF CTypeOK
      <3>2. ~(Times(e, AtBroker) > 0)
        BY <3>1, RangeSeq DEF Gone
      <3>3. Times(e, AtBroker) \in Nat /\ Times(e, sent) \in Nat
        BY <3>1, TimesType
      <3> QED
        BY <3>2, <3>3
    <2>5. Begun(e) = cutOff[e] /\ cutOff[e] \in Nat
      BY <2>1 DEF Begun, Gone, CTypeOK
    <2>6. Times(e, sent) + Settling(e) <= Begun(e) + Times(e, AtBroker)
      BY DEF PInv, CInv, LossInv
    <2>7. Settling(e) \in Nat
      BY <2>1, ConsumerCounts
    <2> QED
      BY <2>3, <2>4, <2>5, <2>6, <2>7
  <1> QED
    BY <1>1, PipelineInductive, PTL

(***************************************************************************)
(* From end to end a handler is given an event at most once for each       *)
(* worker and each failure of the publishing side, and that in each life   *)
(* of the consuming process (worker.go:123-128,                            *)
(* rabbitmq_subscriber.go:117).                                            *)
(***************************************************************************)
THEOREM RepeatsDoMultiply == PSpec => []RepeatsMultiply
  <1>1. PInv /\ DuplicatesBounded /\ RepeatsNeedRestarts => RepeatsMultiply
    <2> SUFFICES ASSUME PInv, DuplicatesBounded, RepeatsNeedRestarts, NEW e \in Events
                 PROVE  Begun(e) <= (Cardinality(Workers) + disruptions) * (1 + restarts)
      BY DEF RepeatsMultiply
    <2> DEFINE c == Cardinality(Workers) + disruptions
               n == Times(e, sent)
               b == Begun(e)
    <2>1. TypeOK /\ CTypeOK
      BY DEF PInv, IInv, CInv
    <2>2. /\ b <= n * (1 + restarts)
          /\ n + Cardinality(OnWires(e)) <= copies[e] /\ copies[e] <= c
      BY DEF RepeatsNeedRestarts, PInv, CountedInv, DuplicatesBounded
    <2>3. /\ n \in Nat /\ Cardinality(OnWires(e)) \in Nat /\ copies[e] \in Nat
      BY <2>1, TimesType, OnWiresType DEF TypeOK, CTypeOK
    <2>4. restarts \in Nat /\ disruptions \in Nat /\ Cardinality(Workers) \in Nat
      BY <2>1, MaxDisruptionsAssumption, WorkersAssumption, FS_CardinalityType
         DEF TypeOK, CTypeOK
    <2>5. b \in Nat
      BY <2>1 DEF Begun, CTypeOK
    <2>6. c \in Nat /\ n <= c
      BY <2>2, <2>3, <2>4
    <2> HIDE DEF c, n, b
    <2>7. PICK d \in Nat : c = n + d
      <3>1. c - n \in Nat /\ c = n + (c - n)
        BY <2>3, <2>6
      <3> QED
        BY <3>1
    <2>8. c * (1 + restarts) = n * (1 + restarts) + d * (1 + restarts)
          /\ d * (1 + restarts) \in Nat /\ n * (1 + restarts) \in Nat
      BY <2>3, <2>4, <2>7
    <2>9. b <= c * (1 + restarts)
      <3> DEFINE x == n * (1 + restarts)
                 y == d * (1 + restarts)
                 z == c * (1 + restarts)
      <3>1. x \in Nat /\ y \in Nat /\ z = x + y /\ b <= x
        BY <2>2, <2>8
      <3> HIDE DEF x, y, z
      <3>2. b <= z
        BY <2>5, <3>1
      <3> QED
        BY <3>2 DEF z
    <2> QED
      BY <2>9 DEF b, c
  <1> QED
    BY <1>1, PipelineInductive, PartsKept, DuplicatesAreBounded, RepeatsAreBounded, PTL

\* The subscriber's queue can take the next frame of every connection.
ExchangeTakesAll ==
    \A w \in Workers :
        wire[w] # <<>> => Times(Head(wire[w]), sent) < Copies[Head(wire[w])]

(***************************************************************************)
(* The bound Copies that keeps EventConsumer finite is never met here: the *)
(* exchange routes every frame a publisher has written (rabbitmq.go:63-75).*)
(***************************************************************************)
THEOREM CopiesNeverBind == PSpec => []ExchangeTakesAll
  <1>1. PInv /\ DuplicatesBounded => ExchangeTakesAll
    <2> SUFFICES ASSUME PInv, DuplicatesBounded, NEW w \in Workers, wire[w] # <<>>
                 PROVE  Times(Head(wire[w]), sent) < Copies[Head(wire[w])]
      BY DEF ExchangeTakesAll
    <2> DEFINE e == Head(wire[w])
    <2>1. TypeOK /\ CTypeOK /\ wire[w] \in Seq(Events)
      BY DEF PInv, IInv, CInv, TypeOK
    <2>2. e \in Range(wire[w]) /\ e \in Events
      BY <2>1, RangeSeq, HeadThenTail
    <2> HIDE DEF e
    <2>3. OnWires(e) # {}
      BY <2>1, <2>2, OnWiresPlaces
    <2>4. Cardinality(OnWires(e)) \in Nat /\ Cardinality(OnWires(e)) # 0
      BY <2>1, <2>3, OnWiresType, FS_EmptySet
    <2>5. /\ Times(e, sent) + Cardinality(OnWires(e)) <= copies[e]
          /\ copies[e] <= Cardinality(Workers) + disruptions
          /\ Copies[e] >= Cardinality(Workers) + MaxDisruptions
      BY <2>2, CopiesSuffice DEF PInv, CountedInv, DuplicatesBounded
    <2>6. /\ Times(e, sent) \in Nat /\ copies[e] \in Nat /\ Copies[e] \in Nat
          /\ Cardinality(Workers) \in Nat
      BY <2>1, <2>2, TimesType, CopiesAssumption, WorkersAssumption, FS_CardinalityType
         DEF TypeOK, CTypeOK
    <2>7. disruptions \in Nat /\ MaxDisruptions \in Nat /\ disruptions <= MaxDisruptions
      BY <2>1, MaxDisruptionsAssumption DEF TypeOK
    <2>8. Times(e, sent) < Copies[e]
      BY <2>4, <2>5, <2>6, <2>7
    <2> QED
      BY <2>8 DEF e
  <1> QED
    BY <1>1, PipelineInductive, PartsKept, DuplicatesAreBounded, PTL

-----------------------------------------------------------------------------
(* EventPipeline implements EventDelivery *)

\* The sets the refinement mapping substitutes.
Delivered == {e \in Events : handled[e] > 0}
Lost == {e \in Events : Gone(e)}

\* A published event comes back into no slice: FetchUnpublished leaves it out and
\* the loop only moves on (outbox_postgres.go:51-61, worker.go:100-132).
LEMMA BringingShrinks ==
    ASSUME IInv, [Next]_vars, NEW e \in published
    PROVE  Bringing(e)' \subseteq Bringing(e)
  <1>1. TypeOK /\ BatchInv
    BY DEF IInv
  <1>2. ASSUME batch' = batch, \A v \in Workers : pc'[v] = "loop" => pc[v] = "loop"
        PROVE  Bringing(e)' \subseteq Bringing(e)
    BY <1>2 DEF Bringing, Exhausted
  <1>3. ASSUME NEW w \in Workers, pc[w] \in Busy, NextRow(w)
        PROVE  Bringing(e)' \subseteq Bringing(e)
    <2>1. /\ Len(batch[w]) \in Nat /\ Len(batch[w]) >= 1
          /\ Len(batch'[w]) = Len(batch[w]) - 1
          /\ \A i \in 1..Len(batch'[w]) : batch'[w][i] = batch[w][i + 1]
          /\ \A v \in Workers \ {w} : batch'[v] = batch[v] /\ pc'[v] = pc[v]
      BY <1>1, <1>3, NextRowStep
    <2>2. \A i \in 1..Len(batch'[w]) : i + 1 \in 1..Len(batch[w]) /\ i + 1 # 1
      BY <2>1
    <2> SUFFICES ASSUME NEW v \in Workers, v \in Bringing(e)' PROVE v \in Bringing(e)
      BY DEF Bringing
    <2>3. CASE v = w
      <3>1. PICK i \in 1..Len(batch'[w]) : batch'[w][i].id = e /\ ~Exhausted(batch'[w][i])
        BY <2>3 DEF Bringing, Exhausted
      <3>2. /\ i + 1 \in 1..Len(batch[w]) /\ i + 1 # 1
            /\ batch[w][i + 1].id = e /\ ~Exhausted(batch[w][i + 1])
        BY <2>1, <2>2, <3>1
      <3> QED
        BY <2>3, <3>2 DEF Bringing
    <2>4. CASE v # w
      BY <2>1, <2>4 DEF Bringing, Exhausted
    <2> QED
      BY <2>3, <2>4
  <1>4. ASSUME NEW w \in Workers, Poll(w)
        PROVE  Bringing(e)' \subseteq Bringing(e)
    <2>1. /\ \A i \in 1..Len(batch'[w]) : batch'[w][i].id \in Unpublished
          /\ \A v \in Workers \ {w} : batch'[v] = batch[v] /\ pc'[v] = pc[v]
      BY <1>1, <1>4, PollStep
    <2>2. e \notin Unpublished
      BY DEF Unpublished
    <2> QED
      BY <2>1, <2>2 DEF Bringing, Exhausted
  <1>5. ASSUME NEW w \in Workers, Crash(w)
        PROVE  Bringing(e)' \subseteq Bringing(e)
    <2>1. /\ batch'[w] = <<>>
          /\ \A v \in Workers \ {w} : batch'[v] = batch[v] /\ pc'[v] = pc[v]
      BY <1>1, <1>5 DEF Crash, TypeOK
    <2>2. Len(batch'[w]) = 0
      BY <2>1
    <2> QED
      BY <2>1, <2>2 DEF Bringing, Exhausted
  <1>6. ASSUME NEW w \in Workers, HandleRow(w)
        PROVE  Bringing(e)' \subseteq Bringing(e)
    <2>1. CASE SkipExhausted(w) \/ MarkPublished(w) \/ MarkFailed(w) \/ MarkError(w)
      <3>1. pc[w] \in Busy /\ NextRow(w)
        BY <2>1 DEF SkipExhausted, MarkPublished, MarkFailed, MarkError, Busy
      <3> QED
        BY <1>3, <3>1
    <2>2. CASE PublishOk(w) \/ PublishErr(w)
      <3>1. batch' = batch /\ \A v \in Workers : pc'[v] = "loop" => pc[v] = "loop"
        BY <1>1, <2>2 DEF PublishOk, PublishErr, TypeOK
      <3> QED
        BY <1>2, <3>1
    <2> QED
      BY <1>6, <2>1, <2>2 DEF HandleRow
  <1>7. ASSUME NEW w \in Workers,
               \/ ObserveStop(w) \/ Start(w) \/ Stop(w) \/ ClosePublisher(w)
               \/ DropConnection(w) \/ Deliver(w)
        PROVE  Bringing(e)' \subseteq Bringing(e)
    <2>1. batch' = batch /\ \A v \in Workers : pc'[v] = "loop" => pc[v] = "loop"
      BY <1>1, <1>7 DEF ObserveStop, Start, Stop, ClosePublisher, DropConnection, Deliver,
                        TypeOK
    <2> QED
      BY <1>2, <2>1
  <1>8. CASE UNCHANGED vars \/ \E S \in SUBSET Events : Store(S)
    <2>1. batch' = batch /\ pc' = pc
      BY <1>8 DEF vars, Store
    <2> QED
      BY <1>2, <2>1
  <1> QED
    BY <1>4, <1>5, <1>6, <1>7, <1>8 DEF Next

\* A frame of e is written only by a worker that brings e (worker.go:113-121).
LEMMA FramesFromBringing ==
    ASSUME IInv, [Next]_vars, NEW e, NEW v \in Workers, e \in Range(wire'[v])
    PROVE  e \in Range(wire[v]) \/ v \in Bringing(e)
  <1>1. TypeOK /\ BatchInv
    BY DEF IInv
  <1>2. ASSUME NEW w \in Workers, PublishOk(w)
        PROVE  e \in Range(wire[v]) \/ v \in Bringing(e)
    <2> DEFINE h == Head(batch[w]).id
    <2>1. /\ wire' = [wire EXCEPT ![w] = Append(@, h)] /\ pc[w] = "loop"
          /\ ~Exhausted(Head(batch[w])) /\ Head(batch[w]) = batch[w][1] /\ h \in Events
          /\ batch[w] # <<>> /\ batch[w] \in Seq(Row) /\ wire[w] \in Seq(Events)
      <3>1. pc[w] = "loop" /\ batch[w] # <<>>
        BY <1>1, <1>2 DEF PublishOk, BatchInv, Busy
      <3> QED
        BY <1>1, <1>2, <3>1, PublishOkCounts DEF PublishOk, TypeOK
    <2>2. 1 \in 1..Len(batch[w])
      BY <2>1, HeadTail
    <2>3. w \in Bringing(h)
      BY <2>1, <2>2 DEF Bringing
    <2> HIDE DEF h
    <2>4. Range(Append(wire[w], h)) = Range(wire[w]) \cup {h}
      BY <2>1, RangeSeq
    <2>5. wire'[v] = IF v = w THEN Append(wire[w], h) ELSE wire[v]
      BY <1>1, <2>1 DEF TypeOK
    <2> QED
      BY <2>3, <2>4, <2>5
  <1>3. ASSUME NEW w \in Workers, Crash(w) \/ DropConnection(w)
        PROVE  e \in Range(wire[v])
    <2>1. wire'[v] = IF v = w THEN <<>> ELSE wire[v]
      BY <1>1, <1>3 DEF Crash, DropConnection, TypeOK
    <2>2. Range(<<>>) = {}
      BY DEF Range
    <2> QED
      BY <2>1, <2>2
  <1>4. ASSUME NEW w \in Workers, Deliver(w)
        PROVE  e \in Range(wire[v])
    <2>1. wire[w] \in Seq(Events) /\ wire[w] # <<>>
          /\ wire'[v] = IF v = w THEN Tail(wire[w]) ELSE wire[v]
      BY <1>1, <1>4 DEF Deliver, TypeOK
    <2>2. Range(Tail(wire[w])) \subseteq Range(wire[w])
      BY <2>1, RangeSeq
    <2> QED
      BY <2>1, <2>2
  <1>5. CASE wire' = wire
    BY <1>5
  <1>6. \/ wire' = wire
        \/ \E w \in Workers : PublishOk(w) \/ Crash(w) \/ DropConnection(w) \/ Deliver(w)
    BY DEF Next, HandleRow, Store, Poll, SkipExhausted, PublishErr, MarkPublished, MarkFailed,
           MarkError, ObserveStop, Start, Stop, ClosePublisher, vars, net
  <1> QED
    BY <1>2, <1>3, <1>4, <1>5, <1>6

\* A step that accepts and delivers nothing keeps the abstract state, or gives up
\* events of the table that no handler has finished with.
LEMMA LoseStep ==
    ASSUME PInv, PInv', stored' = stored, handled' = handled,
           \A e \in Events : Gone(e) => Gone(e)'
    PROVE  [Delivery!DNext]_(Delivery!dvars)
  <1> DEFINE G == Lost' \ Lost
  <1>1. Delivered' = Delivered
    BY DEF Delivered
  <1>2. G \in SUBSET Events /\ Lost' = Lost \cup G
    BY DEF Lost
  <1>3. G \subseteq stored \ Delivered
    <2> SUFFICES ASSUME NEW e \in Events, Gone(e)'
                 PROVE  e \in stored /\ ~(handled[e] > 0)
      BY DEF Lost, Delivered
    <2>1. e \in published' /\ handled'[e] = 0
      BY DEF Gone
    <2>2. published' \subseteq stored'
      BY DEF PInv, IInv, HandedInv
    <2> QED
      BY <2>1, <2>2
  <1>4. Delivery!Lose(G)
    BY <1>1, <1>2, <1>3 DEF Delivery!Lose, Delivered, Lost
  <1> QED
    BY <1>2, <1>4 DEF Delivery!DNext

\* No step brings back an event that was lost; that HandleEvent does not is part of
\* DeliveryRefinement (worker.go:100-132, rabbitmq_subscriber.go:98-120).
LEMMA GoneStays ==
    ASSUME PInv, PInv', [PNext]_pvars, ~HandleEvent, NEW e \in Events, Gone(e)
    PROVE  Gone(e)'
  <1>1. /\ TypeOK /\ IInv /\ CInv /\ CTypeOK /\ [Next]_vars /\ [CNext]_cvars
        /\ e \in published /\ Bringing(e) = {} /\ e \notin Range(AtBroker)
        /\ event # e /\ handled[e] = 0
        /\ \A w \in Workers : e \notin Range(wire[w])
    BY PartsNext DEF PInv, IInv, CInv, Gone
  <1>2. e \in published'
    BY <1>1 DEF Next, HandleRow, Store, Poll, SkipExhausted, PublishOk, PublishErr,
       MarkPublished, MarkFailed, MarkError, ObserveStop, Start, Stop, ClosePublisher, Crash,
       DropConnection, Deliver, vars, table
  <1>3. Bringing(e)' = {}
    BY <1>1, BringingShrinks
  <1>4. \A w \in Workers : e \notin Range(wire'[w])
    BY <1>1, FramesFromBringing
  <1>5. e \notin Range(AtBroker') /\ event' # e /\ handled'[e] = 0
    <2>1. CASE ConsumerStep
      <3>1. Consume /\ sent' = sent
        BY <2>1 DEF ConsumerStep, Consume, Push, Receive, EndSubscription, HandOver, Ack,
           AckArrives, HandleEvent, EndWorker, Cancel, LoseConnection, Close, Restart, broker
      <3>2. CASE AckArrives \/ Close
        <4>1. Range(AtBroker') \subseteq Range(AtBroker)
          BY <1>1, <3>2, SettledRange
        <4> QED
          BY <1>1, <3>2, <4>1 DEF AckArrives, Close, history
      <3>3. CASE HandOver
        <4>1. AtBroker' = AtBroker
          BY <1>1, <3>3, QuietBroker
        <4>2. event' = held /\ held \in Range(AtBroker) /\ handled' = handled
          BY <3>3 DEF HandOver, history, PInv, HeldInv
        <4> QED
          BY <1>1, <4>1, <4>2
      <3>4. CASE \/ Push \/ Receive \/ EndSubscription \/ Ack \/ EndWorker \/ Cancel
                 \/ LoseConnection \/ Restart
        <4>1. AtBroker' = AtBroker
          BY <1>1, <3>4, QuietBroker
        <4>2. event' \in {event, None} /\ handled' = handled
          BY <3>4 DEF Push, Receive, EndSubscription, Ack, EndWorker, Cancel, LoseConnection,
             Restart, history
        <4> QED
          BY <1>1, <4>1, <4>2, NoneAssumption
      <3> QED
        BY <3>1, <3>2, <3>3, <3>4 DEF Consume
    <2>2. ASSUME NEW w \in Workers, Route(w)
          PROVE  e \notin Range(AtBroker') /\ event' # e /\ handled'[e] = 0
      <3> DEFINE h == Head(wire[w])
      <3>1. h \in Range(wire[w]) /\ h \in Events
        <4>1. wire[w] \in Seq(Events) /\ wire[w] # <<>>
          BY <1>1, <2>2 DEF Route, Deliver, TypeOK
        <4> QED
          BY <4>1, RangeSeq, HeadThenTail
      <3>2. Publish(h) \/ UNCHANGED cvars
        BY <2>2 DEF Route
      <3> HIDE DEF h
      <3>3. CASE Publish(h)
        <4>1. AtBroker' = Append(AtBroker, h) /\ AtBroker \in Seq(Events)
          BY <1>1, <3>1, <3>3, PublishBroker, BrokerType
        <4>2. Range(AtBroker') = Range(AtBroker) \cup {h}
          BY <3>1, <4>1, RangeSeq
        <4> QED
          BY <1>1, <3>1, <3>3, <4>2 DEF Publish, history
      <3>4. CASE UNCHANGED cvars
        BY <1>1, <3>4 DEF cvars, AtBroker, Unacked, Outstanding
      <3> QED
        BY <3>2, <3>3, <3>4
    <2>3. CASE UNCHANGED cvars
      BY <1>1, <2>3 DEF cvars, AtBroker, Unacked, Outstanding
    <2>4. UNCHANGED cvars \/ ConsumerStep \/ \E w \in Workers : Route(w)
      BY DEF PNext, OutboxStep, LoseFrames, Subscribe, pvars
    <2> QED
      BY <2>1, <2>2, <2>3, <2>4
  <1> QED
    BY <1>2, <1>3, <1>4, <1>5 DEF Gone

(***************************************************************************)
(* From table to handler only stored events are handled, and an event that *)
(* is lost stays lost: no row of a slice, no frame on a connection and no  *)
(* redelivery brings it back (worker.go:100-132, rabbitmq.go:63-75,        *)
(* rabbitmq_subscriber.go:98-120).                                         *)
(***************************************************************************)
THEOREM DeliveryRefinement == PSpec => RefinesDelivery
  <1>1. PInit => Delivery!DInit
    BY DEF PInit, Init, CInit, Delivery!DInit, Gone
  <1>2. PInv /\ PInv' /\ [PNext]_pvars => [Delivery!DNext]_(Delivery!dvars)
    <2> SUFFICES ASSUME PInv, PInv', [PNext]_pvars
                 PROVE  [Delivery!DNext]_(Delivery!dvars)
      OBVIOUS
    <2>1. ASSUME NEW S \in SUBSET Events, Store(S), UNCHANGED <<cvars, exchange>>
          PROVE  [Delivery!DNext]_(Delivery!dvars)
      <3>1. /\ stored' = stored \cup S /\ UNCHANGED <<published, batch, pc, wire>>
            /\ UNCHANGED <<handled, event>> /\ AtBroker' = AtBroker
        BY <2>1 DEF Store, net, cvars, AtBroker, Unacked, Outstanding
      <3>2. Delivered' = Delivered
        BY <3>1 DEF Delivered
      <3>3. Lost' = Lost
        BY <3>1 DEF Lost, Gone, Bringing, Exhausted
      <3>4. Delivery!Accept(S)
        BY <3>1, <3>2, <3>3 DEF Delivery!Accept, Delivered, Lost
      <3> QED
        BY <3>4 DEF Delivery!DNext
    <2>2. CASE HandleEvent
      <3>1. /\ handled' = [handled EXCEPT ![event] = @ + 1] /\ event' = None /\ event # None
            /\ AtBroker' = AtBroker /\ event \in Events /\ event \in stored
            /\ handled \in [Events -> Nat]
        BY <2>2, QuietBroker DEF HandleEvent, PInv, SourceInv, CInv, RunInv, CTypeOK
      <3>2. UNCHANGED <<stored, published, batch, pc, wire>>
        <4>1. ~UNCHANGED cvars /\ \A e \in Events : ~Publish(e)
          BY <3>1, NoneAssumption DEF cvars, Publish, history
        <4>2. ConsumerStep
          <5>1. ASSUME NEW w \in Workers, Route(w) PROVE FALSE
            <6>1. Head(wire[w]) \in Events
              BY <5>1, RouteWires DEF PInv, IInv
            <6> QED
              BY <4>1, <5>1, <6>1 DEF Route
          <5> QED
            BY <4>1, <5>1 DEF PNext, OutboxStep, LoseFrames, Subscribe, pvars
        <4> QED
          BY <4>2 DEF ConsumerStep, vars, table, net
      <3>3. Delivered' = Delivered \cup {event}
        BY <3>1 DEF Delivered
      <3>4. \A e \in Events : Gone(e)' <=> Gone(e)
        BY <3>1, <3>2, NoneAssumption DEF Gone, Bringing, Exhausted
      <3>5. Lost' = Lost /\ event \notin Lost
        BY <3>4 DEF Lost, Gone
      <3>6. PICK e \in Events : e = event
        BY <3>1
      <3>7. Delivery!Deliver(e)
        BY <3>1, <3>2, <3>3, <3>5, <3>6 DEF Delivery!Deliver, Delivered, Lost
      <3> QED
        BY <3>7 DEF Delivery!DNext
    <2>3. CASE ~HandleEvent /\ stored' = stored
      <3>1. handled' = handled
        <4>1. [CNext]_cvars
          BY PartsNext DEF PInv, PTypeOK
        <4> QED
          BY <2>3, <4>1 DEF CNext, Consume, Publish, Push, Receive, EndSubscription, HandOver,
             Ack, AckArrives, EndWorker, Cancel, LoseConnection, Close, Restart, history, cvars
      <3> QED
        BY <2>3, <3>1, GoneStays, LoseStep
    <2>4. \/ stored' = stored
          \/ \E S \in SUBSET Events : Store(S) /\ UNCHANGED <<cvars, exchange>>
      BY DEF PNext, OutboxStep, HandleRow, Poll, SkipExhausted, PublishOk, PublishErr,
         MarkPublished, MarkFailed, MarkError, ObserveStop, Start, Stop, ClosePublisher,
         LoseFrames, Crash, DropConnection, Route, Deliver, Subscribe, ConsumerStep,
         pvars, vars, table
    <2> QED
      BY <2>1, <2>2, <2>3, <2>4
  <1> QED
    BY <1>1, <1>2, PipelineInductive, PTL DEF PSpec, RefinesDelivery, Delivery!DSpec
=============================================================================
