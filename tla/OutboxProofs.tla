---------------------------- MODULE OutboxProofs ----------------------------
(***************************************************************************)
(* Proofs about Outbox, for every finite set of events and workers, every  *)
(* batch size, retry limit and number of disruptions.                      *)
(***************************************************************************)
EXTENDS Outbox, FiniteSetTheorems, TLAPS

-----------------------------------------------------------------------------
(* Sequences and cardinalities *)

\* What Head and Tail do to a slice that is not empty.
LEMMA HeadTail ==
    ASSUME NEW s \in Seq(Row), s # <<>>
    PROVE  /\ Len(s) \in Nat /\ Len(s) >= 1
           /\ s[1] \in Row /\ Head(s) = s[1]
           /\ Tail(s) \in Seq(Row)
           /\ Len(Tail(s)) = Len(s) - 1
           /\ \A i \in 1..Len(Tail(s)) : Tail(s)[i] = s[i + 1]
  OBVIOUS

LEMMA EmptyIffLen ==
    ASSUME NEW s \in Seq(Row)
    PROVE  s = <<>> <=> Len(s) = 0
  OBVIOUS

\* The number of rows a SELECT returns is a natural number (outbox_postgres.go:51-61).
LEMMA FetchSizeType ==
    ASSUME TypeOK
    PROVE  FetchSize \in Nat
  <1>1. IsFiniteSet(Unpublished)
    BY EventsAssumption, FS_Subset DEF TypeOK, Unpublished
  <1>2. Cardinality(Unpublished) \in Nat
    BY <1>1, FS_CardinalityType
  <1> QED
    BY <1>2, BatchSizeAssumption DEF FetchSize, SafeLimit, DefaultLimit

-----------------------------------------------------------------------------
(* Types and slices *)

\* A step of the loop drops the first row of the slice and touches no other.
LEMMA NextRowStep ==
    ASSUME TypeOK, BatchInv, NEW w \in Workers, pc[w] \in Busy, NextRow(w)
    PROVE  /\ batch' \in [Workers -> Seq(Row)]
           /\ pc' \in [Workers -> {"down", "select", "loop", "markPublished",
                                   "markFailed", "done"}]
           /\ batch[w][1] \in Row /\ Head(batch[w]) = batch[w][1]
           /\ Len(batch[w]) \in Nat /\ Len(batch[w]) >= 1
           /\ Len(batch'[w]) = Len(batch[w]) - 1
           /\ \A i \in 1..Len(batch'[w]) : batch'[w][i] = batch[w][i + 1]
           /\ pc'[w] \in {"select", "loop"}
           /\ pc'[w] \in Busy <=> batch'[w] # <<>>
           /\ \A v \in Workers \ {w} : batch'[v] = batch[v] /\ pc'[v] = pc[v]
  <1>1. batch[w] \in Seq(Row) /\ batch[w] # <<>>
    BY DEF TypeOK, BatchInv
  <1>2. batch'[w] = Tail(batch[w])
    BY DEF NextRow, TypeOK
  <1>3. pc'[w] = IF Len(batch[w]) = 1 THEN "select" ELSE "loop"
    BY DEF NextRow, TypeOK
  <1>4. batch'[w] = <<>> <=> Len(batch[w]) = 1
    <2>1. Tail(batch[w]) \in Seq(Row) /\ Len(Tail(batch[w])) = Len(batch[w]) - 1
      BY <1>1, HeadTail
    <2>2. Tail(batch[w]) = <<>> <=> Len(Tail(batch[w])) = 0
      BY <2>1, EmptyIffLen
    <2>3. Len(batch[w]) \in Nat
      BY <1>1
    <2> QED
      BY <1>2, <2>1, <2>2, <2>3
  <1>5. batch' \in [Workers -> Seq(Row)]
    BY <1>1, HeadTail DEF NextRow, TypeOK
  <1>6. \A v \in Workers \ {w} : batch'[v] = batch[v] /\ pc'[v] = pc[v]
    BY DEF NextRow, TypeOK
  <1>7. pc' \in [Workers -> {"down", "select", "loop", "markPublished",
                             "markFailed", "done"}]
    BY DEF NextRow, TypeOK
  <1> QED
    BY <1>1, <1>2, <1>3, <1>4, <1>5, <1>6, <1>7, HeadTail DEF Busy

\* The slice a SELECT yields: distinct rows of the table with their counts.
LEMMA PollStep ==
    ASSUME TypeOK, NEW w \in Workers, Poll(w)
    PROVE  /\ batch' \in [Workers -> Seq(Row)]
           /\ pc' \in [Workers -> {"down", "select", "loop", "markPublished",
                                   "markFailed", "done"}]
           /\ pc'[w] \in {"select", "loop"}
           /\ pc'[w] \in Busy <=> batch'[w] # <<>>
           /\ \A i, j \in 1..Len(batch'[w]) :
                 i # j => batch'[w][i].id # batch'[w][j].id
           /\ \A i \in 1..Len(batch'[w]) :
                 /\ batch'[w][i].id \in Unpublished
                 /\ batch'[w][i].retry = retryCount[batch'[w][i].id]
           /\ \A v \in Workers \ {w} : batch'[v] = batch[v] /\ pc'[v] = pc[v]
  <1>1. PICK ids \in FetchUnpublished :
           /\ batch' = [batch EXCEPT ![w] = Snapshot(ids)]
           /\ pc' = [pc EXCEPT ![w] = IF FetchSize = 0 THEN "select" ELSE "loop"]
    BY DEF Poll
  <1> DEFINE n == FetchSize
  <1>2. n \in Nat
    BY FetchSizeType
  <1> HIDE DEF n
  <1>3. /\ ids \in [1..n -> Unpublished]
        /\ \A i, j \in 1..n : i < j => ids[i] # ids[j]
    BY DEF FetchUnpublished, n
  <1>4. Snapshot(ids) = [i \in 1..n |-> [id |-> ids[i], retry |-> retryCount[ids[i]]]]
    BY DEF Snapshot, n
  <1>5. \A i \in 1..n : [id |-> ids[i], retry |-> retryCount[ids[i]]] \in Row
    BY <1>3 DEF TypeOK, Unpublished, Row
  <1>6. /\ Snapshot(ids) \in Seq(Row)
        /\ Len(Snapshot(ids)) = n
    BY <1>2, <1>4, <1>5
  <1>7. Snapshot(ids) = <<>> <=> n = 0
    BY <1>6, EmptyIffLen
  <1>8. /\ batch' \in [Workers -> Seq(Row)]
        /\ batch'[w] = Snapshot(ids)
        /\ pc' \in [Workers -> {"down", "select", "loop", "markPublished",
                               "markFailed", "done"}]
        /\ pc'[w] = IF n = 0 THEN "select" ELSE "loop"
        /\ \A v \in Workers \ {w} : batch'[v] = batch[v] /\ pc'[v] = pc[v]
    BY <1>1, <1>6 DEF TypeOK, n
  <1>9. \A i \in 1..n : batch'[w][i].id = ids[i] /\ batch'[w][i].retry = retryCount[ids[i]]
    BY <1>4, <1>8
  <1>10. \A i, j \in 1..n : i # j => ids[i] # ids[j]
    BY <1>2, <1>3
  <1>11. \A i, j \in 1..Len(batch'[w]) :
            i # j => batch'[w][i].id # batch'[w][j].id
    BY <1>6, <1>8, <1>9, <1>10
  <1>12. \A i \in 1..Len(batch'[w]) :
            /\ batch'[w][i].id \in Unpublished
            /\ batch'[w][i].retry = retryCount[batch'[w][i].id]
    BY <1>3, <1>6, <1>8, <1>9
  <1>13. pc'[w] \in Busy <=> batch'[w] # <<>>
    BY <1>7, <1>8 DEF Busy
  <1> QED
    BY <1>8, <1>11, <1>12, <1>13

\* Dropping the first row keeps what BatchInv says of the slices, as long as
\* rows stay in the table and counts do not decrease.
LEMMA NextRowBatch ==
    ASSUME TypeOK, BatchInv, NEW w \in Workers, pc[w] \in Busy, NextRow(w),
           stored' = stored,
           \A e \in Events : retryCount'[e] \in Nat /\ retryCount[e] <= retryCount'[e]
    PROVE  BatchInv'
  <1> USE NextRowStep
  <1>1. \A v \in Workers : \A i \in 1..Len(batch[v]) :
           /\ batch[v][i].id \in Events
           /\ batch[v][i].retry \in Nat
           /\ batch[v][i].id \in stored
           /\ batch[v][i].retry <= retryCount'[batch[v][i].id]
    <2> SUFFICES ASSUME NEW v \in Workers, NEW i \in 1..Len(batch[v])
                 PROVE  /\ batch[v][i].id \in Events
                        /\ batch[v][i].retry \in Nat
                        /\ batch[v][i].id \in stored
                        /\ batch[v][i].retry <= retryCount'[batch[v][i].id]
      OBVIOUS
    <2>1. batch[v][i] \in Row
      BY DEF TypeOK
    <2>2. batch[v][i].id \in Events /\ batch[v][i].retry \in Nat
      BY <2>1 DEF Row
    <2>3. batch[v][i].id \in stored /\ batch[v][i].retry <= retryCount[batch[v][i].id]
      BY DEF BatchInv
    <2>4. /\ retryCount[batch[v][i].id] \in Nat
          /\ retryCount'[batch[v][i].id] \in Nat
          /\ retryCount[batch[v][i].id] <= retryCount'[batch[v][i].id]
      BY <2>2 DEF TypeOK
    <2> QED
      BY <2>2, <2>3, <2>4
  <1> SUFFICES ASSUME NEW v \in Workers
               PROVE  /\ pc'[v] \in Busy <=> batch'[v] # <<>>
                      /\ \A i, j \in 1..Len(batch'[v]) :
                            i # j => batch'[v][i].id # batch'[v][j].id
                      /\ \A i \in 1..Len(batch'[v]) :
                            /\ batch'[v][i].id \in stored'
                            /\ batch'[v][i].retry <= retryCount'[batch'[v][i].id]
                      /\ pc'[v] \in {"markPublished", "markFailed"} => ~Exhausted(batch'[v][1])
    BY DEF BatchInv, Exhausted, Busy
  <1>2. CASE v # w
    BY <1>1, <1>2 DEF BatchInv
  <1>3. CASE v = w
    <2>1. \A i \in 1..Len(batch'[w]) : i + 1 \in 1..Len(batch[w]) /\ batch'[w][i] = batch[w][i + 1]
      OBVIOUS
    <2>2. \A i, j \in 1..Len(batch[w]) : i # j => batch[w][i].id # batch[w][j].id
      BY DEF BatchInv
    <2>4. ASSUME NEW i \in 1..Len(batch'[w]), NEW j \in 1..Len(batch'[w]), i # j
          PROVE  batch'[w][i].id # batch'[w][j].id
      <3>1. i + 1 # j + 1
        BY <2>4
      <3>2. batch[w][i + 1].id # batch[w][j + 1].id
        BY <2>1, <2>2, <3>1
      <3> QED
        BY <2>1, <3>2
    <2>5. \A i \in 1..Len(batch'[w]) :
             /\ batch'[w][i].id \in stored'
             /\ batch'[w][i].retry <= retryCount'[batch'[w][i].id]
      BY <2>1, <1>1
    <2> QED
      BY <1>3, <2>4, <2>5 DEF Busy
  <1> QED
    BY <1>2, <1>3

\* Types and slices are preserved by every step.
LEMMA TypeBatchNext ==
    ASSUME TypeOK, BatchInv, [Next]_vars
    PROVE  TypeOK' /\ BatchInv'
  <1> USE MaxDisruptionsAssumption
  <1>1. ASSUME NEW S \in SUBSET Events, Store(S)
        PROVE  TypeOK' /\ BatchInv'
    <2>1. TypeOK'
      BY <1>1 DEF TypeOK, Store, net
    <2>2. BatchInv'
      BY <1>1 DEF BatchInv, Exhausted, Store
    <2> QED
      BY <2>1, <2>2
  <1>2. ASSUME NEW w \in Workers, Poll(w)
        PROVE  TypeOK' /\ BatchInv'
    <2>1. TypeOK'
      BY <1>2, PollStep DEF TypeOK, Poll, table, net
    <2>2. /\ stored' = stored /\ retryCount' = retryCount
      BY <1>2 DEF Poll, table
    <2>3. \A i \in 1..Len(batch'[w]) :
             /\ batch'[w][i].id \in stored
             /\ batch'[w][i].retry <= retryCount[batch'[w][i].id]
      BY <1>2, PollStep DEF Unpublished, TypeOK
    <2>4. BatchInv'
      <3> SUFFICES ASSUME NEW v \in Workers
                   PROVE  /\ pc'[v] \in Busy <=> batch'[v] # <<>>
                          /\ \A i, j \in 1..Len(batch'[v]) :
                                i # j => batch'[v][i].id # batch'[v][j].id
                          /\ \A i \in 1..Len(batch'[v]) :
                                /\ batch'[v][i].id \in stored'
                                /\ batch'[v][i].retry <= retryCount'[batch'[v][i].id]
                          /\ pc'[v] \in {"markPublished", "markFailed"} => ~Exhausted(batch'[v][1])
        BY DEF BatchInv, Exhausted, Busy
      <3>1. CASE v = w
        BY <1>2, <2>2, <2>3, <3>1, PollStep
      <3>2. CASE v # w
        <4>1. batch'[v] = batch[v] /\ pc'[v] = pc[v]
          BY <1>2, <3>2, PollStep
        <4> QED
          BY <2>2, <4>1 DEF BatchInv
      <3> QED
        BY <3>1, <3>2
    <2> QED
      BY <2>1, <2>4
  <1>3. ASSUME NEW w \in Workers, SkipExhausted(w)
        PROVE  TypeOK' /\ BatchInv'
    <2>1. pc[w] \in Busy /\ NextRow(w) /\ UNCHANGED <<table, stop, net, copies, disruptions>>
      BY <1>3 DEF SkipExhausted, Busy
    <2>2. TypeOK'
      BY <2>1, NextRowStep DEF TypeOK, table, net
    <2>3. BatchInv'
      BY <2>1, NextRowBatch DEF table, TypeOK
    <2> QED
      BY <2>2, <2>3
  <1>4. ASSUME NEW w \in Workers, PublishOk(w)
        PROVE  TypeOK' /\ BatchInv'
    <2>1. batch[w] \in Seq(Row) /\ batch[w] # <<>>
      BY <1>4 DEF PublishOk, BatchInv, TypeOK, Busy
    <2>2. Head(batch[w]) = batch[w][1] /\ Head(batch[w]).id \in Events
      BY <2>1, HeadTail DEF Row
    <2>3. TypeOK'
      <3>1. wire' = [wire EXCEPT ![w] = Append(@, Head(batch[w]).id)]
        BY <1>4 DEF PublishOk
      <3>2. Append(wire[w], Head(batch[w]).id) \in Seq(Events)
        BY <2>2 DEF TypeOK
      <3>3. wire' \in [Workers -> Seq(Events)]
        BY <3>1, <3>2 DEF TypeOK
      <3>4. /\ pc' \in [Workers -> {"down", "select", "loop", "markPublished",
                                    "markFailed", "done"}]
            /\ copies' \in [Events -> Nat]
            /\ UNCHANGED <<stored, published, retryCount, batch, stop, conn, disruptions>>
        BY <1>4, <2>2 DEF TypeOK, PublishOk, table
      <3> QED
        BY <3>3, <3>4 DEF TypeOK
    <2>4. BatchInv'
      BY <1>4, <2>2 DEF TypeOK, BatchInv, PublishOk, table, Busy, Exhausted
    <2> QED
      BY <2>3, <2>4
  <1>5. ASSUME NEW w \in Workers, PublishErr(w)
        PROVE  TypeOK' /\ BatchInv'
    <2>1. batch[w] \in Seq(Row) /\ batch[w] # <<>>
      BY <1>5 DEF PublishErr, BatchInv, TypeOK, Busy
    <2>2. Head(batch[w]) = batch[w][1]
      BY <2>1, HeadTail
    <2>3. TypeOK'
      BY <1>5 DEF TypeOK, PublishErr, table, net
    <2>4. BatchInv'
      BY <1>5, <2>2 DEF TypeOK, BatchInv, PublishErr, table, Busy, Exhausted
    <2> QED
      BY <2>3, <2>4
  <1>6. ASSUME NEW w \in Workers, MarkPublished(w)
        PROVE  TypeOK' /\ BatchInv'
    <2>1. /\ pc[w] \in Busy /\ NextRow(w)
          /\ published' = published \cup {Head(batch[w]).id}
          /\ UNCHANGED <<stored, retryCount, stop, net, copies, disruptions>>
      BY <1>6 DEF MarkPublished, Busy
    <2>2. Head(batch[w]).id \in Events
      BY <2>1, NextRowStep DEF Row
    <2>3. TypeOK'
      BY <2>1, <2>2, NextRowStep DEF TypeOK, net
    <2>4. BatchInv'
      BY <2>1, NextRowBatch DEF TypeOK
    <2> QED
      BY <2>3, <2>4
  <1>7. ASSUME NEW w \in Workers, MarkFailed(w)
        PROVE  TypeOK' /\ BatchInv'
    <2>1. /\ pc[w] \in Busy /\ NextRow(w)
          /\ retryCount' = [retryCount EXCEPT ![Head(batch[w]).id] = @ + 1]
          /\ UNCHANGED <<stored, published, stop, net, copies, disruptions>>
      BY <1>7 DEF MarkFailed, Busy
    <2>2. /\ retryCount' \in [Events -> Nat]
          /\ \A e \in Events : retryCount[e] <= retryCount'[e]
      <3>1. retryCount \in [Events -> Nat]
        BY DEF TypeOK
      <3>0. Head(batch[w]).id \in Events
        BY <2>1, NextRowStep DEF Row
      <3>2. retryCount' \in [Events -> Nat]
        <4> DEFINE h == Head(batch[w]).id
        <4>1. retryCount' = [e \in Events |-> IF e = h THEN retryCount[e] + 1 ELSE retryCount[e]]
          BY <2>1, <3>1
        <4>2. h \in Events
          BY <3>0
        <4> HIDE DEF h
        <4> QED
          BY <3>1, <4>1, <4>2
      <3>3. ASSUME NEW e \in Events
            PROVE  retryCount[e] <= retryCount'[e]
        <4>1. retryCount'[e] = retryCount[e] \/ retryCount'[e] = retryCount[e] + 1
          BY <2>1, <3>1
        <4> QED
          BY <3>1, <4>1
      <3> QED
        BY <3>2, <3>3
    <2>3. TypeOK'
      BY <2>1, <2>2, NextRowStep DEF TypeOK, net
    <2>4. BatchInv'
      BY <2>1, <2>2, NextRowBatch
    <2> QED
      BY <2>3, <2>4
  <1>8. ASSUME NEW w \in Workers, MarkError(w)
        PROVE  TypeOK' /\ BatchInv'
    <2>1. /\ pc[w] \in Busy /\ NextRow(w)
          /\ UNCHANGED <<table, stop, net, copies>>
          /\ Disrupt
      BY <1>8 DEF MarkError, Busy
    <2>2. TypeOK'
      BY <2>1, NextRowStep DEF TypeOK, table, net, Disrupt
    <2>3. BatchInv'
      BY <2>1, NextRowBatch DEF table, TypeOK
    <2> QED
      BY <2>2, <2>3
  <1>9. ASSUME NEW w \in Workers, ObserveStop(w)
        PROVE  TypeOK' /\ BatchInv'
    <2>1. TypeOK'
      BY <1>9 DEF TypeOK, ObserveStop, table, net
    <2>2. BatchInv'
      BY <1>9 DEF TypeOK, BatchInv, ObserveStop, table, Busy, Exhausted
    <2> QED
      BY <2>1, <2>2
  <1>10. ASSUME NEW w \in Workers, Start(w)
         PROVE  TypeOK' /\ BatchInv'
    <2>1. TypeOK'
      BY <1>10 DEF TypeOK, Start, table
    <2>2. BatchInv'
      BY <1>10 DEF TypeOK, BatchInv, Start, table, Busy, Exhausted
    <2> QED
      BY <2>1, <2>2
  <1>11. ASSUME NEW w \in Workers, Stop(w)
         PROVE  TypeOK' /\ BatchInv'
    <2>1. TypeOK'
      BY <1>11 DEF TypeOK, Stop, table, net, Disrupt
    <2>2. BatchInv'
      BY <1>11 DEF BatchInv, Stop, table, Exhausted
    <2> QED
      BY <2>1, <2>2
  <1>12. ASSUME NEW w \in Workers, ClosePublisher(w)
         PROVE  TypeOK' /\ BatchInv'
    <2>1. TypeOK'
      BY <1>12 DEF TypeOK, ClosePublisher, table
    <2>2. BatchInv'
      BY <1>12 DEF TypeOK, BatchInv, ClosePublisher, table, Busy, Exhausted
    <2> QED
      BY <2>1, <2>2
  <1>13. ASSUME NEW w \in Workers, Crash(w)
         PROVE  TypeOK' /\ BatchInv'
    <2>1. TypeOK'
      BY <1>13 DEF TypeOK, Crash, table, Disrupt
    <2>2. BatchInv'
      BY <1>13 DEF TypeOK, BatchInv, Crash, table, Busy, Exhausted
    <2> QED
      BY <2>1, <2>2
  <1>14. ASSUME NEW w \in Workers, DropConnection(w)
         PROVE  TypeOK' /\ BatchInv'
    <2>1. TypeOK'
      BY <1>14 DEF TypeOK, DropConnection, table, Disrupt
    <2>2. BatchInv'
      BY <1>14 DEF BatchInv, DropConnection, table, Exhausted
    <2> QED
      BY <2>1, <2>2
  <1>15. ASSUME NEW w \in Workers, Deliver(w)
         PROVE  TypeOK' /\ BatchInv'
    <2>1. TypeOK'
      BY <1>15 DEF TypeOK, Deliver, table
    <2>2. BatchInv'
      BY <1>15 DEF BatchInv, Deliver, table, Exhausted
    <2> QED
      BY <2>1, <2>2
  <1>16. CASE UNCHANGED vars
    <2>1. TypeOK'
      BY <1>16 DEF TypeOK, vars, table, net
    <2>2. BatchInv'
      BY <1>16 DEF BatchInv, vars, table, Exhausted
    <2> QED
      BY <2>1, <2>2
  <1> QED
    BY <1>1, <1>2, <1>3, <1>4, <1>5, <1>6, <1>7, <1>8, <1>9, <1>10, <1>11, <1>12,
       <1>13, <1>14, <1>15, <1>16 DEF Next, HandleRow

-----------------------------------------------------------------------------
(* Counting workers *)

LEMMA CardSubset ==
    ASSUME NEW B \in SUBSET Workers, NEW A \in SUBSET B
    PROVE  /\ Cardinality(A) \in Nat
           /\ Cardinality(B) \in Nat
           /\ Cardinality(A) <= Cardinality(B)
           /\ Cardinality(Workers) \in Nat
           /\ Cardinality(B) <= Cardinality(Workers)
  <1>1. IsFiniteSet(B) /\ Cardinality(B) <= Cardinality(Workers)
    BY WorkersAssumption, FS_Subset
  <1>2. IsFiniteSet(A) /\ Cardinality(A) <= Cardinality(B)
    BY <1>1, FS_Subset
  <1> QED
    BY <1>1, <1>2, WorkersAssumption, FS_CardinalityType

\* A set that loses an element has one element less.
LEMMA CardWithout ==
    ASSUME NEW B \in SUBSET Workers, NEW w \in B, NEW A \in SUBSET (B \ {w})
    PROVE  Cardinality(A) <= Cardinality(B) - 1
  <1>1. IsFiniteSet(B)
    BY WorkersAssumption, FS_Subset
  <1>2. IsFiniteSet(B \ {w}) /\ Cardinality(B \ {w}) = Cardinality(B) - 1
    BY <1>1, FS_RemoveElement
  <1> QED
    BY <1>2, FS_Subset

\* A set that loses at most one element has at most one element less.
LEMMA CardAtMostOneLess ==
    ASSUME NEW B \in SUBSET Workers, NEW w, NEW A \in SUBSET Workers, B \ {w} \subseteq A
    PROVE  Cardinality(B) <= Cardinality(A) + 1
  <1>1. IsFiniteSet(A) /\ IsFiniteSet(B)
    BY WorkersAssumption, FS_Subset
  <1>2. /\ IsFiniteSet(A \cup {w})
        /\ Cardinality(A \cup {w}) <= Cardinality(A) + 1
    <2>1. Cardinality(A) \in Nat
      BY <1>1, FS_CardinalityType
    <2>2. /\ IsFiniteSet(A \cup {w})
          /\ Cardinality(A \cup {w}) = IF w \in A THEN Cardinality(A) ELSE Cardinality(A) + 1
      BY <1>1, FS_AddElement
    <2> QED
      BY <2>1, <2>2
  <1>3. B \subseteq A \cup {w}
    OBVIOUS
  <1>4. Cardinality(B) <= Cardinality(A \cup {w})
    BY <1>2, <1>3, FS_Subset
  <1> QED
    BY <1>1, <1>2, <1>4, FS_CardinalityType

\* Two disjoint sets of workers have together at most as many elements.
LEMMA CardDisjoint ==
    ASSUME NEW A \in SUBSET Workers, NEW B \in SUBSET Workers, A \cap B = {}
    PROVE  Cardinality(A) + Cardinality(B) <= Cardinality(Workers)
  <1>1. IsFiniteSet(A) /\ IsFiniteSet(B)
    BY WorkersAssumption, FS_Subset
  <1>2. Cardinality(A \cap B) = 0
    BY FS_EmptySet
  <1>3. /\ IsFiniteSet(A \cup B)
        /\ Cardinality(A \cup B) = Cardinality(A) + Cardinality(B) - Cardinality(A \cap B)
    BY <1>1, FS_Union
  <1>4. Cardinality(A \cup B) <= Cardinality(Workers)
    BY WorkersAssumption, FS_Subset
  <1> QED
    BY <1>1, <1>2, <1>3, <1>4, FS_CardinalityType

-----------------------------------------------------------------------------
(* What each kind of step does to Holders, Waiting and Marking *)

\* Nothing, when the slices stay and no goroutine starts or ends its marking.
LEMMA IdleCounts ==
    ASSUME batch' = batch,
           \A v \in Workers : pc'[v] = "markPublished" <=> pc[v] = "markPublished"
    PROVE  \A e \in Events : /\ Holders(e)' = Holders(e)
                             /\ Waiting(e)' = Waiting(e)
                             /\ Marking(e)' = Marking(e)
  BY DEF Holders, Waiting, Marking, Exhausted

\* A worker that has handled a row no longer holds it.
LEMMA NextRowCounts ==
    ASSUME TypeOK, BatchInv, NEW w \in Workers, pc[w] \in Busy, NextRow(w)
    PROVE  /\ \A e \in Events : /\ Holders(e)' \subseteq Holders(e)
                                /\ Waiting(e)' \subseteq Waiting(e)
                                /\ Marking(e)' = Marking(e) \ {w}
           /\ \A e \in Events : e = batch[w][1].id => w \notin Holders(e)'
  <1>1. \A i \in 1..Len(batch'[w]) :
           i + 1 \in 1..Len(batch[w]) /\ i + 1 # 1 /\ batch'[w][i] = batch[w][i + 1]
    <2>1. /\ Len(batch[w]) \in Nat
          /\ Len(batch'[w]) = Len(batch[w]) - 1
          /\ \A i \in 1..Len(batch'[w]) : batch'[w][i] = batch[w][i + 1]
      BY NextRowStep
    <2> QED
      BY <2>1
  <1>2. \A v \in Workers \ {w} : batch'[v] = batch[v] /\ pc'[v] = pc[v]
    BY NextRowStep
  <1>3. pc'[w] \in {"select", "loop"}
    BY NextRowStep
  <1>4. ASSUME NEW e \in Events
        PROVE  /\ Holders(e)' \subseteq Holders(e)
               /\ Waiting(e)' \subseteq Waiting(e)
               /\ Marking(e)' = Marking(e) \ {w}
    <2>1. Holders(e)' \subseteq Holders(e)
      BY <1>1, <1>2 DEF Holders, Exhausted
    <2>2. Waiting(e)' \subseteq Waiting(e)
      BY <1>1, <1>2 DEF Waiting
    <2>3. Marking(e)' = Marking(e) \ {w}
      BY <1>2, <1>3 DEF Marking
    <2> QED
      BY <2>1, <2>2, <2>3
  <1>5. ASSUME NEW e \in Events, e = batch[w][1].id
        PROVE  w \notin Holders(e)'
    <2>1. \A i \in 1..Len(batch'[w]) : batch'[w][i].id # batch[w][1].id
      BY <1>1, NextRowStep DEF BatchInv
    <2> QED
      BY <1>5, <2>1 DEF Holders
  <1> QED
    BY <1>4, <1>5

\* A SELECT adds a worker only for rows that are unpublished, and as a holder
\* only for rows below the limit.
LEMMA PollCounts ==
    ASSUME TypeOK, BatchInv, NEW w \in Workers, Poll(w)
    PROVE  \A e \in Events :
              /\ retryCount[e] >= MaxRetries => Holders(e)' \subseteq Holders(e)
              /\ e \notin Unpublished => /\ Waiting(e)' \subseteq Waiting(e)
                                        /\ Holders(e)' \subseteq Holders(e)
              /\ Marking(e)' = Marking(e)
  <1>1. \A v \in Workers \ {w} : batch'[v] = batch[v] /\ pc'[v] = pc[v]
    BY PollStep
  <1>2. pc[w] = "select" /\ pc'[w] \in {"select", "loop"}
    BY PollStep DEF Poll
  <1>3. \A i \in 1..Len(batch'[w]) :
           /\ batch'[w][i].id \in Unpublished
           /\ batch'[w][i].retry = retryCount[batch'[w][i].id]
    BY PollStep
  <1> SUFFICES ASSUME NEW e \in Events
               PROVE  /\ retryCount[e] >= MaxRetries => Holders(e)' \subseteq Holders(e)
                      /\ e \notin Unpublished => /\ Waiting(e)' \subseteq Waiting(e)
                                                /\ Holders(e)' \subseteq Holders(e)
                      /\ Marking(e)' = Marking(e)
    OBVIOUS
  <1>4. retryCount[e] >= MaxRetries => Holders(e)' \subseteq Holders(e)
    BY <1>1, <1>3 DEF Holders, Exhausted
  <1>5. e \notin Unpublished => Waiting(e)' \subseteq Waiting(e)
    BY <1>1, <1>3 DEF Waiting
  <1>6. e \notin Unpublished => Holders(e)' \subseteq Holders(e)
    BY <1>1, <1>3 DEF Holders, Exhausted
  <1>7. Marking(e)' = Marking(e)
    BY <1>1, <1>2 DEF Marking
  <1> QED
    BY <1>4, <1>5, <1>6, <1>7

\* A successful Publish turns a waiting worker into one that is marking.
LEMMA PublishOkCounts ==
    ASSUME TypeOK, BatchInv, NEW w \in Workers, PublishOk(w)
    PROVE  /\ batch[w][1].id \in Events /\ Head(batch[w]) = batch[w][1]
           /\ batch[w][1].id \in stored
           /\ \A e \in Events :
                 /\ Holders(e)' = Holders(e)
                 /\ e # batch[w][1].id => /\ Waiting(e)' = Waiting(e)
                                         /\ Marking(e)' = Marking(e)
                 /\ e = batch[w][1].id => /\ w \in Holders(e)
                                         /\ w \in Waiting(e)
                                         /\ Waiting(e)' = Waiting(e) \ {w}
                                         /\ w \notin Marking(e)
                                         /\ Marking(e)' = Marking(e) \cup {w}
  <1>1. batch[w] \in Seq(Row) /\ batch[w] # <<>>
    BY DEF PublishOk, BatchInv, TypeOK, Busy
  <1>2. /\ Head(batch[w]) = batch[w][1]
        /\ batch[w][1].id \in Events
        /\ 1 \in 1..Len(batch[w])
    <2>1. Len(batch[w]) \in Nat /\ Len(batch[w]) >= 1
      BY <1>1, HeadTail
    <2>2. batch[w][1] \in Row /\ Head(batch[w]) = batch[w][1]
      BY <1>1, HeadTail
    <2> QED
      BY <2>1, <2>2 DEF Row
  <1>3. /\ batch' = batch
        /\ pc' = [pc EXCEPT ![w] = "markPublished"]
        /\ pc[w] = "loop"
        /\ ~Exhausted(batch[w][1])
    BY <1>2 DEF PublishOk
  <1>4. /\ pc'[w] = "markPublished"
        /\ \A v \in Workers \ {w} : pc'[v] = pc[v]
    BY <1>3 DEF TypeOK
  <1>5. batch[w][1].id \in stored
    BY <1>2 DEF BatchInv
  <1>6. \A i \in 1..Len(batch[w]) : batch[w][i].id = batch[w][1].id => i = 1
    BY <1>2 DEF BatchInv
  <1>7. ASSUME NEW e \in Events
        PROVE  /\ Holders(e)' = Holders(e)
               /\ e # batch[w][1].id => /\ Waiting(e)' = Waiting(e)
                                       /\ Marking(e)' = Marking(e)
               /\ e = batch[w][1].id => /\ w \in Holders(e)
                                       /\ w \in Waiting(e)
                                       /\ Waiting(e)' = Waiting(e) \ {w}
                                       /\ w \notin Marking(e)
                                       /\ Marking(e)' = Marking(e) \cup {w}
    <2>1. Holders(e)' = Holders(e)
      BY <1>3 DEF Holders, Exhausted
    <2>2. Marking(e) = IF e = batch[w][1].id THEN Marking(e)' \ {w} ELSE Marking(e)'
      BY <1>3, <1>4 DEF Marking
    <2>3. e = batch[w][1].id => w \in Holders(e) /\ w \in Waiting(e)
      BY <1>2, <1>3 DEF Holders, Waiting
    <2>4. e = batch[w][1].id => w \in Marking(e)'
      BY <1>3, <1>4 DEF Marking
    <2>5. ASSUME e # batch[w][1].id
          PROVE  Waiting(e)' = Waiting(e)
      BY <1>3, <1>4, <2>5 DEF Waiting
    <2>6. ASSUME e = batch[w][1].id
          PROVE  Waiting(e)' = Waiting(e) \ {w}
      BY <1>3, <1>4, <1>6, <2>6 DEF Waiting
    <2> QED
      BY <2>1, <2>2, <2>3, <2>4, <2>5, <2>6
  <1> QED
    BY <1>2, <1>5, <1>7

\* A crash takes the worker out of every set.
LEMMA CrashCounts ==
    ASSUME TypeOK, BatchInv, NEW w \in Workers, Crash(w)
    PROVE  \A e \in Events : /\ Holders(e)' \subseteq Holders(e)
                             /\ Waiting(e)' \subseteq Waiting(e)
                             /\ Marking(e)' = Marking(e) \ {w}
  <1>1. /\ batch'[w] = <<>> /\ pc'[w] = "down"
        /\ \A v \in Workers \ {w} : batch'[v] = batch[v] /\ pc'[v] = pc[v]
    BY DEF Crash, TypeOK
  <1>2. \A i \in 1..Len(batch'[w]) : FALSE
    BY <1>1
  <1> SUFFICES ASSUME NEW e \in Events
               PROVE  /\ Holders(e)' \subseteq Holders(e)
                      /\ Waiting(e)' \subseteq Waiting(e)
                      /\ Marking(e)' = Marking(e) \ {w}
    OBVIOUS
  <1>3. Holders(e)' \subseteq Holders(e)
    BY <1>1, <1>2 DEF Holders, Exhausted
  <1>4. Waiting(e)' \subseteq Waiting(e)
    BY <1>1, <1>2 DEF Waiting
  <1>5. Marking(e)' = Marking(e) \ {w}
    BY <1>1 DEF Marking
  <1> QED
    BY <1>3, <1>4, <1>5

-----------------------------------------------------------------------------
(* The counting invariants *)

CountInv == RetryInv /\ CopiesInv /\ HandedInv

\* The sets are sets of workers, so their cardinalities are numbers.
LEMMA CountTypes ==
    ASSUME NEW e
    PROVE  /\ Holders(e) \in SUBSET Workers
           /\ Waiting(e) \in SUBSET Workers
           /\ Marking(e) \in SUBSET Workers
  BY DEF Holders, Waiting, Marking

\* Steps that leave rows, slices and copies alone.
LEMMA IdleStep ==
    ASSUME TypeOK, TypeOK', CountInv,
           batch' = batch, published' = published, retryCount' = retryCount,
           copies' = copies, stored \subseteq stored', disruptions <= disruptions',
           \A v \in Workers : pc'[v] = "markPublished" <=> pc[v] = "markPublished"
    PROVE  CountInv'
  <1>1. RetryInv'
    BY IdleCounts DEF CountInv, RetryInv
  <1>2. CopiesInv'
    <2> SUFFICES ASSUME NEW e \in Events
                 PROVE  /\ e \notin published' => copies'[e] <= Cardinality(Marking(e)') + disruptions'
                        /\ copies'[e] + Cardinality(Waiting(e)') <= Cardinality(Workers) + disruptions'
      BY DEF CopiesInv
    <2>1. /\ e \notin published => copies[e] <= Cardinality(Marking(e)) + disruptions
          /\ copies[e] + Cardinality(Waiting(e)) <= Cardinality(Workers) + disruptions
      BY DEF CountInv, CopiesInv
    <2>2. Waiting(e)' = Waiting(e) /\ Marking(e)' = Marking(e)
      BY IdleCounts
    <2>3. Cardinality(Waiting(e)) \in Nat /\ Cardinality(Marking(e)) \in Nat
          /\ Cardinality(Workers) \in Nat
      BY CountTypes, CardSubset
    <2>4. disruptions \in Nat /\ disruptions' \in Nat /\ copies[e] \in Nat
      BY MaxDisruptionsAssumption DEF TypeOK
    <2> QED
      BY <2>1, <2>2, <2>3, <2>4
  <1>3. HandedInv'
    BY DEF CountInv, HandedInv
  <1> QED
    BY <1>1, <1>2, <1>3 DEF CountInv

\* An event whose holders do not grow and whose count stays keeps the bound.
LEMMA RetryFrame ==
    ASSUME TypeOK, RetryInv, NEW e \in Events,
           retryCount'[e] = retryCount[e], Holders(e)' \subseteq Holders(e)
    PROVE  retryCount'[e] + Cardinality(Holders(e)') <= MaxRetries + Cardinality(Workers) - 1
  <1>1. retryCount[e] + Cardinality(Holders(e)) <= MaxRetries + Cardinality(Workers) - 1
    BY DEF RetryInv
  <1>2. /\ Cardinality(Holders(e)') <= Cardinality(Holders(e))
        /\ Cardinality(Holders(e)') \in Nat /\ Cardinality(Holders(e)) \in Nat
        /\ Cardinality(Workers) \in Nat
    BY CountTypes, CardSubset
  <1>3. retryCount[e] \in Nat
    BY DEF TypeOK
  <1> QED
    BY <1>1, <1>2, <1>3, MaxRetriesAssumption

\* Likewise for copies.
LEMMA CopiesFrame ==
    ASSUME TypeOK, CopiesInv, NEW e \in Events,
           copies'[e] = copies[e], Waiting(e)' \subseteq Waiting(e),
           disruptions' \in Nat, disruptions <= disruptions'
    PROVE  copies'[e] + Cardinality(Waiting(e)') <= Cardinality(Workers) + disruptions'
  <1>1. copies[e] + Cardinality(Waiting(e)) <= Cardinality(Workers) + disruptions
    BY DEF CopiesInv
  <1>2. /\ Cardinality(Waiting(e)') <= Cardinality(Waiting(e))
        /\ Cardinality(Waiting(e)') \in Nat /\ Cardinality(Waiting(e)) \in Nat
        /\ Cardinality(Workers) \in Nat
    BY CountTypes, CardSubset
  <1>3. copies[e] \in Nat /\ disruptions \in Nat
    BY MaxDisruptionsAssumption DEF TypeOK
  <1> QED
    BY <1>1, <1>2, <1>3

\* Poll: a new holder only below the limit, a new waiting worker only for an
\* unpublished event, whose copies are all being marked or excused.
LEMMA PollCountInv ==
    ASSUME TypeOK, BatchInv, CountInv, NEW w \in Workers, Poll(w)
    PROVE  CountInv'
  <1>1. /\ stored' = stored /\ published' = published /\ retryCount' = retryCount
        /\ copies' = copies /\ disruptions' = disruptions /\ pc[w] = "select"
    BY DEF Poll, table
  <1>2. disruptions \in Nat /\ disruptions' \in Nat
    BY <1>1, MaxDisruptionsAssumption DEF TypeOK
  <1>3. ASSUME NEW e \in Events
        PROVE  retryCount'[e] + Cardinality(Holders(e)') <= MaxRetries + Cardinality(Workers) - 1
    <2>1. CASE retryCount[e] >= MaxRetries
      BY <1>1, <2>1, PollCounts, RetryFrame DEF CountInv
    <2>2. CASE ~(retryCount[e] >= MaxRetries)
      <3>1. Cardinality(Holders(e)') \in Nat /\ Cardinality(Workers) \in Nat
            /\ Cardinality(Holders(e)') <= Cardinality(Workers)
        <4>1. Holders(e)' \in SUBSET Workers
          BY DEF Holders
        <4> QED
          BY <4>1, CardSubset
      <3>2. retryCount[e] \in Nat
        BY DEF TypeOK
      <3> QED
        BY <1>1, <2>2, <3>1, <3>2, MaxRetriesAssumption
    <2> QED
      BY <2>1, <2>2
  <1>4. ASSUME NEW e \in Events
        PROVE  e \notin published' => copies'[e] <= Cardinality(Marking(e)') + disruptions'
    <2>1. Marking(e)' = Marking(e)
      BY PollCounts
    <2> QED
      BY <1>1, <2>1 DEF CountInv, CopiesInv
  <1>5. ASSUME NEW e \in Events
        PROVE  copies'[e] + Cardinality(Waiting(e)') <= Cardinality(Workers) + disruptions'
    <2>1. CASE e \notin Unpublished
      BY <1>1, <1>2, <2>1, PollCounts, CopiesFrame DEF CountInv
    <2>2. CASE e \in Unpublished
      <3>1. copies[e] <= Cardinality(Marking(e)) + disruptions
        BY <2>2 DEF Unpublished, CountInv, CopiesInv
      <3>2. \A v \in Workers : v \in Marking(e) => v \notin Waiting(e)'
        <4>1. SUFFICES ASSUME NEW v \in Workers, v \in Marking(e), v \in Waiting(e)'
                       PROVE  FALSE
          OBVIOUS
        <4>2. pc[v] = "markPublished" /\ batch[v][1].id = e
          BY <4>1 DEF Marking
        <4>3. v # w /\ batch'[v] = batch[v] /\ pc'[v] = pc[v]
          BY <1>1, <4>2, PollStep
        <4>4. PICK i \in 1..Len(batch[v]) : batch[v][i].id = e /\ i # 1
          BY <4>1, <4>2, <4>3 DEF Waiting
        <4>5. 1 \in 1..Len(batch[v])
          BY <4>4
        <4> QED
          BY <4>2, <4>4, <4>5 DEF BatchInv
      <3>3. /\ Waiting(e)' \in SUBSET Workers /\ Marking(e) \in SUBSET Workers
            /\ Marking(e) \cap Waiting(e)' = {}
        BY <3>2 DEF Waiting, Marking
      <3>4. Cardinality(Marking(e)) + Cardinality(Waiting(e)') <= Cardinality(Workers)
        BY <3>3, CardDisjoint
      <3>5. /\ Cardinality(Marking(e)) \in Nat /\ Cardinality(Waiting(e)') \in Nat
            /\ Cardinality(Workers) \in Nat
        BY <3>3, CardSubset
      <3>6. copies[e] \in Nat
        BY DEF TypeOK
      <3> QED
        BY <1>1, <1>2, <3>1, <3>4, <3>5, <3>6
    <2> QED
      BY <2>1, <2>2
  <1>6. HandedInv'
    <2>1. \A v \in Workers : pc'[v] = "markPublished" => pc[v] = "markPublished" /\ batch'[v] = batch[v]
      BY PollStep
    <2> QED
      BY <1>1, <2>1 DEF CountInv, HandedInv
  <1> QED
    BY <1>3, <1>4, <1>5, <1>6 DEF CountInv, RetryInv, CopiesInv

\* PublishOk: one more copy, one waiting worker less, one more marking.
LEMMA PublishOkCountInv ==
    ASSUME TypeOK, BatchInv, CountInv, NEW w \in Workers, PublishOk(w)
    PROVE  CountInv'
  <1> DEFINE h == batch[w][1].id
  <1>1. /\ stored' = stored /\ published' = published /\ retryCount' = retryCount
        /\ copies' = [copies EXCEPT ![h] = @ + 1] /\ disruptions' = disruptions
        /\ batch' = batch /\ pc' = [pc EXCEPT ![w] = "markPublished"]
        /\ h \in Events /\ h \in stored
    BY PublishOkCounts DEF PublishOk, table
  <1>2. disruptions \in Nat /\ disruptions' \in Nat
    BY <1>1, MaxDisruptionsAssumption DEF TypeOK
  <1>3. copies \in [Events -> Nat]
    BY DEF TypeOK
  <1>4. RetryInv'
    BY <1>1, PublishOkCounts DEF CountInv, RetryInv
  <1>5. ASSUME NEW e \in Events
        PROVE  /\ e \notin published' => copies'[e] <= Cardinality(Marking(e)') + disruptions'
               /\ copies'[e] + Cardinality(Waiting(e)') <= Cardinality(Workers) + disruptions'
    <2>0. /\ e \notin published => copies[e] <= Cardinality(Marking(e)) + disruptions
          /\ copies[e] + Cardinality(Waiting(e)) <= Cardinality(Workers) + disruptions
      BY DEF CountInv, CopiesInv
    <2>1. CASE e # h
      <3>1. Waiting(e)' = Waiting(e) /\ Marking(e)' = Marking(e)
        BY <2>1, PublishOkCounts
      <3>2. copies'[e] = copies[e]
        BY <1>1, <1>3, <2>1
      <3> QED
        BY <1>1, <2>0, <3>1, <3>2
    <2>2. CASE e = h
      <3>1. copies'[e] = copies[e] + 1
        BY <1>1, <1>3, <2>2
      <3>2. /\ w \in Waiting(e) /\ Waiting(e)' = Waiting(e) \ {w}
            /\ w \notin Marking(e) /\ Marking(e)' = Marking(e) \cup {w}
        BY <2>2, PublishOkCounts
      <3>3. /\ Waiting(e) \in SUBSET Workers /\ Marking(e) \in SUBSET Workers
            /\ Waiting(e)' \in SUBSET Workers /\ Marking(e)' \in SUBSET Workers
        BY <3>2, CountTypes
      <3>4. Cardinality(Waiting(e)') <= Cardinality(Waiting(e)) - 1
        BY <3>2, <3>3, CardWithout
      <3>5. Cardinality(Marking(e)) <= Cardinality(Marking(e)') - 1
        <4>1. w \in Marking(e)' /\ Marking(e) \in SUBSET (Marking(e)' \ {w})
          BY <3>2
        <4> QED
          BY <3>3, <4>1, CardWithout
      <3>6. /\ Cardinality(Waiting(e)) \in Nat /\ Cardinality(Waiting(e)') \in Nat
            /\ Cardinality(Marking(e)) \in Nat /\ Cardinality(Marking(e)') \in Nat
            /\ Cardinality(Workers) \in Nat /\ copies[e] \in Nat
        BY <1>3, <3>3, CardSubset
      <3> HIDE DEF h
      <3> QED
        BY <1>1, <1>2, <2>0, <3>1, <3>4, <3>5, <3>6
    <2> QED
      BY <2>1, <2>2
  <1>6. HandedInv'
    <2>1. \A e \in Events : copies[e] > 0 => copies'[e] > 0
      BY <1>1, <1>3
    <2>2. copies'[h] > 0
      BY <1>1, <1>3
    <2>3. \A e \in published' : e \in stored' /\ copies'[e] > 0
      BY <1>1, <2>1 DEF CountInv, HandedInv, TypeOK
    <2>4. ASSUME NEW v \in Workers, pc'[v] = "markPublished"
          PROVE  copies'[batch'[v][1].id] > 0
      <3>1. CASE v = w
        BY <1>1, <2>2, <3>1
      <3>2. CASE v # w
        <4>1. pc[v] = "markPublished"
          BY <1>1, <2>4, <3>2 DEF TypeOK
        <4>2. copies[batch[v][1].id] > 0
          BY <4>1 DEF CountInv, HandedInv
        <4>3. batch[v][1].id \in Events
          BY <4>1, HeadTail DEF TypeOK, BatchInv, Busy, Row
        <4> QED
          BY <1>1, <2>1, <4>2, <4>3
      <3> QED
        BY <3>1, <3>2
    <2> QED
      BY <2>3, <2>4 DEF HandedInv
  <1> QED
    BY <1>4, <1>5, <1>6 DEF CountInv, CopiesInv

\* A worker that drops rows without a failure being counted: every holder,
\* waiting and marking set shrinks, the marking sets by that worker only.
LEMMA DropRows ==
    ASSUME TypeOK, CountInv, NEW w \in Workers,
           retryCount' = retryCount, copies' = copies, stored' = stored,
           disruptions' \in Nat, disruptions <= disruptions',
           \A e \in Events : /\ Holders(e)' \subseteq Holders(e)
                             /\ Waiting(e)' \subseteq Waiting(e)
                             /\ Marking(e)' = Marking(e) \ {w},
           \A v \in Workers \ {w} : batch'[v] = batch[v] /\ pc'[v] = pc[v],
           pc'[w] # "markPublished",
           \/ /\ published' = published
              /\ pc[w] = "markPublished" => disruptions' = disruptions + 1
           \/ /\ published' = published \cup {batch[w][1].id}
              /\ pc[w] = "markPublished"
              /\ batch[w][1].id \in stored
    PROVE  CountInv'
  <1>1. RetryInv'
    BY RetryFrame DEF CountInv, RetryInv
  <1>2. ASSUME NEW e \in Events
        PROVE  copies'[e] + Cardinality(Waiting(e)') <= Cardinality(Workers) + disruptions'
    BY CopiesFrame DEF CountInv
  <1>3. ASSUME NEW e \in Events, e \notin published'
        PROVE  copies'[e] <= Cardinality(Marking(e)') + disruptions'
    <2>1. e \notin published /\ copies[e] <= Cardinality(Marking(e)) + disruptions
      BY <1>3 DEF CountInv, CopiesInv
    <2>2. /\ Marking(e) \in SUBSET Workers /\ Marking(e)' \in SUBSET Workers
          /\ Marking(e) \ {w} \subseteq Marking(e)'
      BY CountTypes
    <2>3. /\ Cardinality(Marking(e)) \in Nat /\ Cardinality(Marking(e)') \in Nat
          /\ copies[e] \in Nat /\ disruptions \in Nat
      <3>1. Cardinality(Marking(e)) \in Nat /\ Cardinality(Marking(e)') \in Nat
        BY <2>2, CardSubset
      <3>2. copies[e] \in Nat /\ disruptions \in Nat
        BY MaxDisruptionsAssumption DEF TypeOK
      <3> QED
        BY <3>1, <3>2
    <2>4. CASE w \notin Marking(e)
      <3>1. Marking(e)' = Marking(e)
        BY <2>4
      <3> QED
        BY <2>1, <2>3, <3>1
    <2>5. CASE w \in Marking(e)
      <3>1. pc[w] = "markPublished" /\ batch[w][1].id = e
        BY <2>5 DEF Marking
      <3>2. disruptions' = disruptions + 1
        BY <1>3, <3>1
      <3>3. Cardinality(Marking(e)) <= Cardinality(Marking(e)') + 1
        BY <2>2, CardAtMostOneLess
      <3> QED
        BY <2>1, <2>3, <3>2, <3>3
    <2> QED
      BY <2>4, <2>5
  <1>4. HandedInv'
    BY DEF CountInv, HandedInv
  <1> QED
    BY <1>1, <1>2, <1>3, <1>4 DEF CountInv, CopiesInv

\* MarkFailed: the count grows by one and the worker is no holder any more.
LEMMA MarkFailedCountInv ==
    ASSUME TypeOK, BatchInv, CountInv, NEW w \in Workers, MarkFailed(w)
    PROVE  CountInv'
  <1> DEFINE h == batch[w][1].id
  <1>1. /\ pc[w] = "markFailed" /\ pc[w] \in Busy /\ NextRow(w)
        /\ UNCHANGED <<stored, published, copies, disruptions>>
    BY DEF MarkFailed, Busy
  <1>2. /\ retryCount' = [retryCount EXCEPT ![h] = @ + 1]
        /\ h \in Events
        /\ 1 \in 1..Len(batch[w])
    BY <1>1, NextRowStep DEF MarkFailed, Row
  <1>3. disruptions \in Nat
    BY MaxDisruptionsAssumption DEF TypeOK
  <1>4. ASSUME NEW e \in Events
        PROVE  retryCount'[e] + Cardinality(Holders(e)') <= MaxRetries + Cardinality(Workers) - 1
    <2>1. CASE e # h
      <3>1. retryCount'[e] = retryCount[e]
        BY <1>2, <2>1 DEF TypeOK
      <3> QED
        BY <1>1, <3>1, NextRowCounts, RetryFrame DEF CountInv
    <2>2. CASE e = h
      <3>1. w \in Holders(e)
        BY <1>1, <1>2, <2>2 DEF Holders, BatchInv
      <3>2. Holders(e)' \in SUBSET (Holders(e) \ {w})
        BY <1>1, <2>2, NextRowCounts
      <3>3. Holders(e) \in SUBSET Workers
        BY CountTypes
      <3>4. Cardinality(Holders(e)') <= Cardinality(Holders(e)) - 1
        BY <3>1, <3>2, <3>3, CardWithout
      <3>5. /\ Cardinality(Holders(e)') \in Nat /\ Cardinality(Holders(e)) \in Nat
            /\ Cardinality(Workers) \in Nat
        BY <3>2, <3>3, CardSubset
      <3>6. retryCount[e] + Cardinality(Holders(e)) <= MaxRetries + Cardinality(Workers) - 1
        BY DEF CountInv, RetryInv
      <3>7. retryCount'[e] = retryCount[e] + 1 /\ retryCount[e] \in Nat
        BY <1>2, <2>2 DEF TypeOK
      <3> QED
        BY <3>4, <3>5, <3>6, <3>7, MaxRetriesAssumption
    <2> QED
      BY <2>1, <2>2
  <1>5. \A e \in Events : w \notin Marking(e)
    BY <1>1 DEF Marking
  <1>6. CopiesInv'
    <2>1. \A e \in Events : Marking(e)' = Marking(e) /\ Waiting(e)' \subseteq Waiting(e)
      BY <1>1, <1>5, NextRowCounts
    <2> QED
      BY <1>1, <1>3, <2>1, CopiesFrame DEF CountInv, CopiesInv
  <1>7. HandedInv'
    <2>1. \A v \in Workers : pc'[v] = "markPublished" => pc[v] = "markPublished" /\ batch'[v] = batch[v]
      BY <1>1, NextRowStep
    <2> QED
      BY <1>1, <2>1 DEF CountInv, HandedInv
  <1> QED
    BY <1>4, <1>6, <1>7 DEF CountInv, RetryInv

\* Every step preserves the counting invariants.
LEMMA CountNext ==
    ASSUME TypeOK, BatchInv, CountInv, [Next]_vars
    PROVE  CountInv'
  <1>0. TypeOK' /\ BatchInv' /\ disruptions \in Nat /\ disruptions' \in Nat
    BY TypeBatchNext, MaxDisruptionsAssumption DEF TypeOK
  <1>1. ASSUME NEW S \in SUBSET Events, Store(S)
        PROVE  CountInv'
    BY <1>0, <1>1, IdleStep DEF Store
  <1>2. ASSUME NEW w \in Workers, Poll(w)
        PROVE  CountInv'
    BY <1>2, PollCountInv
  <1>3. ASSUME NEW w \in Workers, SkipExhausted(w)
        PROVE  CountInv'
    <2>1. /\ pc[w] \in Busy /\ pc[w] # "markPublished" /\ NextRow(w)
          /\ stored' = stored /\ published' = published /\ retryCount' = retryCount
          /\ copies' = copies /\ disruptions' = disruptions
      BY <1>3 DEF SkipExhausted, Busy, table
    <2> QED
      BY <1>0, <2>1, NextRowStep, NextRowCounts, DropRows
  <1>4. ASSUME NEW w \in Workers, PublishOk(w)
        PROVE  CountInv'
    BY <1>4, PublishOkCountInv
  <1>5. ASSUME NEW w \in Workers, PublishErr(w)
        PROVE  CountInv'
    <2>1. \A v \in Workers : pc'[v] = "markPublished" <=> pc[v] = "markPublished"
      BY <1>5 DEF PublishErr, TypeOK
    <2> QED
      BY <1>0, <1>5, <2>1, IdleStep DEF PublishErr, table
  <1>6. ASSUME NEW w \in Workers, MarkPublished(w)
        PROVE  CountInv'
    <2>1. /\ pc[w] \in Busy /\ pc[w] = "markPublished" /\ NextRow(w)
          /\ stored' = stored /\ retryCount' = retryCount
          /\ copies' = copies /\ disruptions' = disruptions
          /\ published' = published \cup {Head(batch[w]).id}
      BY <1>6 DEF MarkPublished, Busy
    <2>2. Head(batch[w]) = batch[w][1] /\ 1 \in 1..Len(batch[w])
      BY <2>1, NextRowStep
    <2>3. batch[w][1].id \in stored
      BY <2>2 DEF BatchInv
    <2> QED
      BY <1>0, <2>1, <2>2, <2>3, NextRowStep, NextRowCounts, DropRows
  <1>7. ASSUME NEW w \in Workers, MarkFailed(w)
        PROVE  CountInv'
    BY <1>7, MarkFailedCountInv
  <1>8. ASSUME NEW w \in Workers, MarkError(w)
        PROVE  CountInv'
    <2>1. /\ pc[w] \in Busy /\ NextRow(w)
          /\ stored' = stored /\ published' = published /\ retryCount' = retryCount
          /\ copies' = copies /\ disruptions' = disruptions + 1
      BY <1>8 DEF MarkError, Busy, table, Disrupt
    <2> QED
      BY <1>0, <2>1, NextRowStep, NextRowCounts, DropRows
  <1>9. ASSUME NEW w \in Workers, ObserveStop(w) \/ Start(w) \/ ClosePublisher(w)
        PROVE  CountInv'
    <2>1. \A v \in Workers : pc'[v] = "markPublished" <=> pc[v] = "markPublished"
      BY <1>9 DEF ObserveStop, Start, ClosePublisher, TypeOK
    <2> QED
      BY <1>0, <1>9, <2>1, IdleStep DEF ObserveStop, Start, ClosePublisher, table
  <1>10. ASSUME NEW w \in Workers, Stop(w) \/ DropConnection(w) \/ Deliver(w)
         PROVE  CountInv'
    BY <1>0, <1>10, IdleStep DEF Stop, DropConnection, Deliver, Disrupt, table
  <1>11. ASSUME NEW w \in Workers, Crash(w)
         PROVE  CountInv'
    <2>1. /\ stored' = stored /\ published' = published /\ retryCount' = retryCount
          /\ copies' = copies /\ disruptions' = disruptions + 1
          /\ pc'[w] = "down"
          /\ \A v \in Workers \ {w} : batch'[v] = batch[v] /\ pc'[v] = pc[v]
      BY <1>11 DEF Crash, table, Disrupt, TypeOK
    <2> QED
      BY <1>0, <1>11, <2>1, CrashCounts, DropRows
  <1>12. CASE UNCHANGED vars
    BY <1>0, <1>12, IdleStep DEF vars, table
  <1> QED
    BY <1>1, <1>2, <1>3, <1>4, <1>5, <1>6, <1>7, <1>8, <1>9, <1>10, <1>11, <1>12
       DEF Next, HandleRow

-----------------------------------------------------------------------------
(* The theorems *)

LEMMA InvInit == Init => IInv
  <1> SUFFICES ASSUME Init PROVE IInv
    OBVIOUS
  <1>1. TypeOK /\ BatchInv
    BY MaxDisruptionsAssumption DEF Init, TypeOK, BatchInv, Busy
  <1>2. \A e \in Events : Holders(e) = {} /\ Waiting(e) = {}
    <2>1. \A w \in Workers : Len(batch[w]) = 0
      BY DEF Init
    <2> QED
      BY <2>1 DEF Holders, Waiting
  <1>3. Cardinality(Workers) \in Nat /\ Cardinality(Workers) # 0 /\ Cardinality({}) = 0
    BY WorkersAssumption, FS_CardinalityType, FS_EmptySet
  <1>4. RetryInv
    <2> SUFFICES ASSUME NEW e \in Events
                 PROVE  retryCount[e] + Cardinality(Holders(e)) <= MaxRetries + Cardinality(Workers) - 1
      BY DEF RetryInv
    <2>1. retryCount[e] = 0 /\ Cardinality(Holders(e)) = 0
      BY <1>2, <1>3 DEF Init
    <2> QED
      BY <1>3, <2>1, MaxRetriesAssumption
  <1>5. \A e \in Events : Cardinality(Marking(e)) \in Nat
    BY CountTypes, CardSubset
  <1>6. CopiesInv
    <2> SUFFICES ASSUME NEW e \in Events
                 PROVE  /\ copies[e] <= Cardinality(Marking(e)) + disruptions
                        /\ copies[e] + Cardinality(Waiting(e)) <= Cardinality(Workers) + disruptions
      BY DEF CopiesInv
    <2>1. copies[e] = 0 /\ disruptions = 0 /\ Cardinality(Waiting(e)) = 0
      BY <1>2, <1>3 DEF Init
    <2> QED
      BY <1>3, <1>5, <2>1
  <1>7. HandedInv
    BY DEF Init, HandedInv
  <1> QED
    BY <1>1, <1>4, <1>6, <1>7 DEF IInv

\* IInv is an inductive invariant of the outbox.
THEOREM Inductive == Spec => []IInv
  <1>1. IInv /\ [Next]_vars => IInv'
    BY TypeBatchNext, CountNext DEF IInv, CountInv
  <1> QED
    BY InvInit, <1>1, PTL DEF Spec

\* The variables keep their types in every behaviour.
THEOREM TypeCorrect == Spec => []TypeOK
  <1>1. IInv => TypeOK
    BY DEF IInv
  <1> QED
    BY <1>1, Inductive, PTL

(***************************************************************************)
(* Workers that share the table overshoot the retry limit by less than one *)
(* failure each (worker.go:107-116), however many there are.               *)
(***************************************************************************)
THEOREM RetryBounded == Spec => []RetryBound
  <1>1. IInv => RetryBound
    <2> SUFFICES ASSUME IInv, NEW e \in Events
                 PROVE  retryCount[e] <= MaxRetries + Cardinality(Workers) - 1
      BY DEF RetryBound
    <2>1. retryCount[e] + Cardinality(Holders(e)) <= MaxRetries + Cardinality(Workers) - 1
      BY DEF IInv, RetryInv
    <2>2. Cardinality(Holders(e)) \in Nat /\ Cardinality(Workers) \in Nat
      BY CountTypes, CardSubset
    <2>3. retryCount[e] \in Nat
      BY DEF IInv, TypeOK
    <2> QED
      BY <2>1, <2>2, <2>3, MaxRetriesAssumption
  <1> QED
    BY <1>1, Inductive, PTL

(***************************************************************************)
(* Publish succeeds for one event at most once per worker plus once per    *)
(* disruption (worker.go:113-128).                                         *)
(***************************************************************************)
THEOREM DuplicatesAreBounded == Spec => []DuplicatesBounded
  <1>1. IInv => DuplicatesBounded
    <2> SUFFICES ASSUME IInv, NEW e \in Events
                 PROVE  copies[e] <= Cardinality(Workers) + disruptions
      BY DEF DuplicatesBounded
    <2>1. copies[e] + Cardinality(Waiting(e)) <= Cardinality(Workers) + disruptions
      BY DEF IInv, CopiesInv
    <2>2. Cardinality(Waiting(e)) \in Nat /\ Cardinality(Workers) \in Nat
      BY CountTypes, CardSubset
    <2>3. copies[e] \in Nat /\ disruptions \in Nat
      BY MaxDisruptionsAssumption DEF IInv, TypeOK
    <2> QED
      BY <2>1, <2>2, <2>3
  <1> QED
    BY <1>1, Inductive, PTL

-----------------------------------------------------------------------------
(* Refinement *)

Handed == {e \in Events : copies[e] > 0}
AbandonedSet == {e \in Events : Abandoned(e)}

\* A step that only gives up on more events is a step of the hand-off.
LEMMA GiveUpStep ==
    ASSUME TypeOK', stored' = stored, published' = published, copies' = copies,
           \A e \in Events : Abandoned(e) => Abandoned(e)'
    PROVE  [Handoff!HNext]_(Handoff!hvars)
  <1>1. Handed' = Handed
    BY DEF Handed
  <1> DEFINE G == AbandonedSet' \ AbandonedSet
  <1>2. G \in SUBSET Events /\ AbandonedSet' = AbandonedSet \cup G
    BY DEF AbandonedSet
  <1>3. G \subseteq stored \ published
    BY DEF AbandonedSet, Abandoned, Unpublished
  <1>4. Handoff!GiveUp(G)
    BY <1>1, <1>2, <1>3 DEF Handoff!GiveUp, Handed, AbandonedSet
  <1> QED
    BY <1>2, <1>4 DEF Handoff!HNext

\* An event given up on stays so when its count and its holders do not change.
LEMMA AbandonedFrame ==
    ASSUME stored' = stored, published' = published, retryCount' = retryCount,
           \A e \in Events : retryCount[e] >= MaxRetries => Holders(e)' \subseteq Holders(e)
    PROVE  \A e \in Events : Abandoned(e) => Abandoned(e)'
  BY DEF Abandoned, Unpublished

\* Handling a row leaves the holders of every other event as they are.
LEMMA NextRowOthers ==
    ASSUME TypeOK, BatchInv, NEW w \in Workers, pc[w] \in Busy, NextRow(w),
           NEW e \in Events, e # batch[w][1].id
    PROVE  Holders(e)' = Holders(e)
  <1>1. Holders(e)' \subseteq Holders(e)
    BY NextRowCounts
  <1>2. ASSUME NEW v \in Holders(e)
        PROVE  v \in Holders(e)'
    <2>1. v \in Workers
      BY DEF Holders
    <2>2. CASE v # w
      <3>1. batch'[v] = batch[v]
        BY <2>1, <2>2, NextRowStep
      <3> QED
        BY <1>2, <3>1 DEF Holders, Exhausted
    <2>3. CASE v = w
      <3>1. PICK i \in 1..Len(batch[w]) : batch[w][i].id = e /\ ~Exhausted(batch[w][i])
        BY <1>2, <2>3 DEF Holders
      <3>2. i # 1
        BY <3>1
      <3>3. /\ Len(batch[w]) \in Nat
            /\ Len(batch'[w]) = Len(batch[w]) - 1
            /\ \A j \in 1..Len(batch'[w]) : batch'[w][j] = batch[w][j + 1]
        BY NextRowStep
      <3>4. i - 1 \in 1..Len(batch'[w]) /\ (i - 1) + 1 = i
        BY <3>2, <3>3
      <3>5. batch'[w][i - 1] = batch[w][i]
        BY <3>3, <3>4
      <3> QED
        BY <2>1, <2>3, <3>1, <3>4, <3>5 DEF Holders, Exhausted
    <2> QED
      BY <2>2, <2>3
  <1> QED
    BY <1>1, <1>2

\* Storing events accepts them; with a limit of zero they are given up on at once.
LEMMA StoreRefines ==
    ASSUME IInv, NEW S \in SUBSET Events, Store(S)
    PROVE  [Handoff!HNext]_(Handoff!hvars)
  <1>1. /\ stored' = stored \cup S /\ published' = published /\ retryCount' = retryCount
        /\ copies' = copies /\ batch' = batch /\ S \cap stored = {}
    BY DEF Store
  <1>2. S \cap published = {}
    BY <1>1 DEF IInv, HandedInv
  <1>3. \A e \in Events : Holders(e)' = Holders(e)
    BY <1>1 DEF Holders, Exhausted
  <1>4. \A e \in Events : /\ Abandoned(e) => Abandoned(e)'
                          /\ Abandoned(e)' => Abandoned(e) \/ e \in S
    BY <1>1, <1>3 DEF Abandoned, Unpublished
  <1> DEFINE G == AbandonedSet' \ AbandonedSet
  <1>5. G \in SUBSET Events /\ G \subseteq S \ published /\ AbandonedSet' = AbandonedSet \cup G
    BY <1>2, <1>4 DEF AbandonedSet
  <1>6. Handoff!Accept(S, G)
    BY <1>1, <1>5 DEF Handoff!Accept, AbandonedSet
  <1>7. G \in SUBSET Events
    BY <1>5
  <1> HIDE DEF G
  <1>8. \E S1, G1 \in SUBSET Events : Handoff!Accept(S1, G1)
    BY <1>6, <1>7
  <1> QED
    BY <1>8 DEF Handoff!HNext

\* A successful Publish hands over an event that is not given up on.
LEMMA PublishOkRefines ==
    ASSUME IInv, NEW w \in Workers, PublishOk(w)
    PROVE  [Handoff!HNext]_(Handoff!hvars)
  <1>0. TypeOK /\ BatchInv /\ copies \in [Events -> Nat]
    BY DEF IInv, TypeOK
  <1>1. PICK h \in Events : h = batch[w][1].id
    BY <1>0, PublishOkCounts
  <1>2. /\ stored' = stored /\ published' = published /\ retryCount' = retryCount
        /\ copies' = [copies EXCEPT ![h] = @ + 1]
        /\ h \in stored /\ w \in Holders(h)
        /\ \A e \in Events : Holders(e)' = Holders(e)
    BY <1>0, <1>1, PublishOkCounts DEF PublishOk, table
  <1>3. AbandonedSet' = AbandonedSet
    BY <1>2 DEF AbandonedSet, Abandoned, Unpublished
  <1>4. h \notin AbandonedSet
    BY <1>2 DEF AbandonedSet, Abandoned
  <1>5. Handed' = Handed \cup {h}
    BY <1>0, <1>2 DEF Handed
  <1>6. Handoff!HandOver(h)
    BY <1>2, <1>3, <1>4, <1>5 DEF Handoff!HandOver, Handed, AbandonedSet
  <1> QED
    BY <1>6 DEF Handoff!HNext

\* MarkPublished settles an event that was handed over and not given up on.
LEMMA MarkPublishedRefines ==
    ASSUME IInv, NEW w \in Workers, MarkPublished(w)
    PROVE  [Handoff!HNext]_(Handoff!hvars)
  <1> DEFINE h == batch[w][1].id
  <1>0. TypeOK /\ BatchInv
    BY DEF IInv
  <1>1. /\ pc[w] = "markPublished" /\ pc[w] \in Busy /\ NextRow(w)
        /\ stored' = stored /\ retryCount' = retryCount /\ copies' = copies
    BY DEF MarkPublished, Busy
  <1>2. /\ published' = published \cup {h}
        /\ h \in Events
        /\ 1 \in 1..Len(batch[w])
    BY <1>0, <1>1, NextRowStep DEF MarkPublished, Row
  <1>3. w \in Holders(h) /\ copies[h] > 0
    BY <1>1, <1>2 DEF Holders, IInv, BatchInv, HandedInv
  <1>4. h \in Handed \ AbandonedSet
    BY <1>2, <1>3 DEF Handed, AbandonedSet, Abandoned
  <1>5. ASSUME NEW e \in Events
        PROVE  Abandoned(e)' <=> Abandoned(e)
    <2>1. CASE e = h
      BY <1>2, <1>4, <2>1 DEF AbandonedSet, Abandoned, Unpublished
    <2>2. CASE e # h
      <3>1. Holders(e)' = Holders(e)
        BY <1>0, <1>1, <2>2, NextRowOthers
      <3> QED
        BY <1>1, <1>2, <2>2, <3>1 DEF Abandoned, Unpublished
    <2> QED
      BY <2>1, <2>2
  <1>6. AbandonedSet' = AbandonedSet
    BY <1>5 DEF AbandonedSet
  <1>7. Handoff!Settle(h)
    BY <1>1, <1>2, <1>4, <1>6 DEF Handoff!Settle, Handed, AbandonedSet
  <1> QED
    BY <1>2, <1>7 DEF Handoff!HNext

\* MarkFailed may be the step that gives up on the event.
LEMMA MarkFailedRefines ==
    ASSUME IInv, TypeOK', NEW w \in Workers, MarkFailed(w)
    PROVE  [Handoff!HNext]_(Handoff!hvars)
  <1>0. TypeOK /\ BatchInv /\ retryCount \in [Events -> Nat]
    BY DEF IInv, TypeOK
  <1>1. /\ pc[w] \in Busy /\ NextRow(w)
        /\ stored' = stored /\ published' = published /\ copies' = copies
        /\ retryCount' = [retryCount EXCEPT ![Head(batch[w]).id] = @ + 1]
    BY DEF MarkFailed, Busy
  <1>2. \A e \in Events : retryCount[e] <= retryCount'[e] /\ retryCount'[e] \in Nat
    <2> SUFFICES ASSUME NEW e \in Events
                 PROVE  retryCount[e] <= retryCount'[e] /\ retryCount'[e] \in Nat
      OBVIOUS
    <2>1. retryCount'[e] = retryCount[e] \/ retryCount'[e] = retryCount[e] + 1
      BY <1>0, <1>1
    <2> QED
      BY <1>0, <2>1
  <1>3. ASSUME NEW e \in Events, Abandoned(e)
        PROVE  Abandoned(e)'
    <2>1. Holders(e)' = {}
      BY <1>0, <1>1, <1>3, NextRowCounts DEF Abandoned
    <2>2. retryCount'[e] >= MaxRetries
      BY <1>0, <1>2, <1>3, MaxRetriesAssumption DEF Abandoned
    <2> QED
      BY <1>1, <1>3, <2>1, <2>2 DEF Abandoned, Unpublished
  <1> QED
    BY <1>1, <1>3, GiveUpStep

(***************************************************************************)
(* The outbox implements the at-least-once hand-off for every number of    *)
(* workers: published only after a successful Publish, never taken back,   *)
(* and an event given up on is never published (worker.go:100-132).        *)
(***************************************************************************)
THEOREM Refinement == Spec => RefinesHandoff
  <1>1. Init => Handoff!HInit
    BY DEF Init, Handoff!HInit, Abandoned, Unpublished
  <1>2. IInv /\ IInv' /\ [Next]_vars => [Handoff!HNext]_(Handoff!hvars)
    <2> SUFFICES ASSUME IInv, IInv', [Next]_vars
                 PROVE  [Handoff!HNext]_(Handoff!hvars)
      OBVIOUS
    <2>0. TypeOK /\ BatchInv /\ TypeOK'
      BY DEF IInv
    <2>1. ASSUME NEW S \in SUBSET Events, Store(S)
          PROVE  [Handoff!HNext]_(Handoff!hvars)
      BY <2>1, StoreRefines
    <2>2. ASSUME NEW w \in Workers, Poll(w)
          PROVE  [Handoff!HNext]_(Handoff!hvars)
      <3>1. stored' = stored /\ published' = published /\ retryCount' = retryCount /\ copies' = copies
        BY <2>2 DEF Poll, table
      <3> QED
        BY <2>0, <2>2, <3>1, PollCounts, AbandonedFrame, GiveUpStep
    <2>3. ASSUME NEW w \in Workers, SkipExhausted(w) \/ MarkError(w)
          PROVE  [Handoff!HNext]_(Handoff!hvars)
      <3>1. /\ stored' = stored /\ published' = published /\ retryCount' = retryCount
            /\ copies' = copies /\ pc[w] \in Busy /\ NextRow(w)
        BY <2>3 DEF SkipExhausted, MarkError, table, Busy
      <3> QED
        BY <2>0, <3>1, NextRowCounts, AbandonedFrame, GiveUpStep
    <2>4. ASSUME NEW w \in Workers, PublishOk(w)
          PROVE  [Handoff!HNext]_(Handoff!hvars)
      BY <2>4, PublishOkRefines
    <2>5. ASSUME NEW w \in Workers, MarkPublished(w)
          PROVE  [Handoff!HNext]_(Handoff!hvars)
      BY <2>5, MarkPublishedRefines
    <2>6. ASSUME NEW w \in Workers, MarkFailed(w)
          PROVE  [Handoff!HNext]_(Handoff!hvars)
      BY <2>0, <2>6, MarkFailedRefines
    <2>7. ASSUME NEW w \in Workers, Crash(w)
          PROVE  [Handoff!HNext]_(Handoff!hvars)
      <3>1. stored' = stored /\ published' = published /\ retryCount' = retryCount /\ copies' = copies
        BY <2>7 DEF Crash, table
      <3> QED
        BY <2>0, <2>7, <3>1, CrashCounts, AbandonedFrame, GiveUpStep
    <2>8. ASSUME NEW w \in Workers,
                 \/ PublishErr(w) \/ ObserveStop(w) \/ Start(w) \/ Stop(w)
                 \/ ClosePublisher(w) \/ DropConnection(w) \/ Deliver(w)
          PROVE  [Handoff!HNext]_(Handoff!hvars)
      <3>1. /\ stored' = stored /\ published' = published /\ retryCount' = retryCount
            /\ copies' = copies /\ batch' = batch
        BY <2>8 DEF PublishErr, ObserveStop, Start, Stop, ClosePublisher, DropConnection,
                    Deliver, table
      <3>2. \A e \in Events : Holders(e)' = Holders(e)
        BY <3>1 DEF Holders, Exhausted
      <3> QED
        BY <2>0, <3>1, <3>2, AbandonedFrame, GiveUpStep
    <2>9. CASE UNCHANGED vars
      <3>1. /\ stored' = stored /\ published' = published /\ retryCount' = retryCount
            /\ copies' = copies /\ batch' = batch
        BY <2>9 DEF vars, table
      <3>2. \A e \in Events : Holders(e)' = Holders(e)
        BY <3>1 DEF Holders, Exhausted
      <3> QED
        BY <2>0, <3>1, <3>2, AbandonedFrame, GiveUpStep
    <2> QED
      BY <2>1, <2>2, <2>3, <2>4, <2>5, <2>6, <2>7, <2>8, <2>9 DEF Next, HandleRow
  <1> QED
    BY <1>1, <1>2, Inductive, PTL DEF Spec, RefinesHandoff, Handoff!HSpec
=============================================================================
