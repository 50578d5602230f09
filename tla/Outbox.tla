------------------------------- MODULE Outbox -------------------------------
(***************************************************************************)
(* The transactional outbox: the table outbox_events (repo OutboxRepo),    *)
(* the polling workers of pkg/eventbus/worker.go and the RabbitMQ          *)
(* publisher each of them owns (pkg/eventbus/rabbitmq.go).                 *)
(*                                                                         *)
(* There is one element of Workers for each process that runs app.Run with *)
(* the outbox enabled: replicas of the service and, in prefork mode, every *)
(* child process poll the same table without any row lock.                 *)
(*                                                                         *)
(* In app.Run the context given to Worker.Start is cancelled only by the   *)
(* deferred cancel(), after Worker.Stop has returned, so the loop always   *)
(* ends by the stop channel and the context is left out.                   *)
(***************************************************************************)
EXTENDS EventBus, Integers, Sequences, FiniteSets

CONSTANTS
    Workers,        \* processes polling the table
    CreatedAt,      \* created_at of each event, fixed when it is raised
    BatchSize,      \* OUTBOX_BATCH_SIZE
    MaxRetries,     \* OUTBOX_MAX_RETRIES
    MaxDisruptions  \* bound: crashes, stops, lost connections and failed
                    \* statements that a behaviour may contain

ASSUME EventsAssumption == IsFiniteSet(Events)
ASSUME WorkersAssumption == IsFiniteSet(Workers) /\ Workers # {}
ASSUME CreatedAtAssumption == CreatedAt \in [Events -> Nat]
ASSUME BatchSizeAssumption == BatchSize \in Int
ASSUME MaxRetriesAssumption == MaxRetries \in Nat
ASSUME MaxDisruptionsAssumption == MaxDisruptions \in Nat

VARIABLES
    stored,       \* rows of outbox_events
    published,    \* rows whose published_at is not NULL
    retryCount,   \* column retry_count
    pc,           \* where each worker's goroutine is
    batch,        \* the rows of the worker's slice it has still to handle
    stop,         \* the worker's stop channel is closed
    conn,         \* the AMQP connection of the worker's publisher
    wire,         \* events written to that connection, first to last, that
                  \* the broker has not received yet
    copies,       \* history: how often Publish returned nil for each event
    disruptions   \* number of disruptions so far

table == <<stored, published, retryCount>>
net == <<conn, wire>>
vars == <<table, pc, batch, stop, net, copies, disruptions>>

Disrupt == /\ disruptions < MaxDisruptions
           /\ disruptions' = disruptions + 1

-----------------------------------------------------------------------------
(* OutboxRepo *)

(***************************************************************************)
(* Store: one INSERT for the whole slice, so all of it or none.            *)
(* A failed INSERT and an empty slice change nothing (stuttering).         *)
(***************************************************************************)
Store(S) ==
    /\ S \cap stored = {}
    /\ stored' = stored \cup S
    /\ UNCHANGED <<published, retryCount, pc, batch, stop, net, copies, disruptions>>

DefaultLimit == 100

\* Query's LIMIT; a negative BatchSize then panics (outbox_postgres.go:73), which
\* is left out.
SafeLimit == IF BatchSize > 0 THEN BatchSize ELSE DefaultLimit

\* A faulty variant: published_at is not asked for.
AnyRow == stored

Unpublished == stored \ published

FetchSize == IF Cardinality(Unpublished) < SafeLimit
             THEN Cardinality(Unpublished) ELSE SafeLimit

(***************************************************************************)
(* The results FetchUnpublished may give: published_at IS NULL, ORDER BY   *)
(* created_at, LIMIT; rows with equal created_at come in any order.        *)
(***************************************************************************)
FetchUnpublished ==
    { ids \in [1..FetchSize -> Unpublished] :
        /\ \A i, j \in 1..FetchSize :
              i < j => /\ ids[i] # ids[j]
                       /\ CreatedAt[ids[i]] <= CreatedAt[ids[j]]
        /\ \A e \in Unpublished \ {ids[i] : i \in 1..FetchSize} :
              \A i \in 1..FetchSize : CreatedAt[ids[i]] <= CreatedAt[e] }

\* The worker keeps the retry count each row had when it was read.
Snapshot(ids) ==
    [i \in 1..FetchSize |-> [id |-> ids[i], retry |-> retryCount[ids[i]]]]

-----------------------------------------------------------------------------
(* Worker.run and Worker.processOutbox *)

\* The ticker fires; a failed SELECT leaves the worker where it is.
Poll(w) ==
    /\ pc[w] = "select"
    /\ \E ids \in FetchUnpublished :
          /\ batch' = [batch EXCEPT ![w] = Snapshot(ids)]
          /\ pc' = [pc EXCEPT ![w] = IF FetchSize = 0 THEN "select" ELSE "loop"]
    /\ UNCHANGED <<table, stop, net, copies, disruptions>>

\* The loop moves to the next row of the slice, or the tick ends.
NextRow(w) ==
    /\ batch' = [batch EXCEPT ![w] = Tail(@)]
    /\ pc' = [pc EXCEPT ![w] = IF Len(batch[w]) = 1 THEN "select" ELSE "loop"]

\* A faulty variant: off by one at the limit.
ExhaustedLate(row) == row.retry > MaxRetries

Exhausted(row) == row.retry >= MaxRetries

SkipExhausted(w) ==
    /\ pc[w] = "loop"
    /\ Exhausted(Head(batch[w]))
    /\ NextRow(w)
    /\ UNCHANGED <<table, stop, net, copies, disruptions>>

(***************************************************************************)
(* Publish returns nil as soon as the frames are handed to the connection: *)
(* the channel is not in confirm mode.  It fails once the connection is    *)
(* closed, and the publisher never dials again.                            *)
(***************************************************************************)
PublishOk(w) ==
    LET e == Head(batch[w]).id IN
    /\ pc[w] = "loop"
    /\ ~Exhausted(Head(batch[w]))
    /\ conn[w] = "open"
    /\ wire' = [wire EXCEPT ![w] = Append(@, e)]
    /\ copies' = [copies EXCEPT ![e] = @ + 1]
    /\ pc' = [pc EXCEPT ![w] = "markPublished"]
    /\ UNCHANGED <<table, batch, stop, conn, disruptions>>

\* A faulty variant: the error of Publish is ignored.
PublishErrIgnored(w) ==
    /\ pc[w] = "loop"
    /\ ~Exhausted(Head(batch[w]))
    /\ conn[w] = "closed"
    /\ pc' = [pc EXCEPT ![w] = "markPublished"]
    /\ UNCHANGED <<table, batch, stop, net, copies, disruptions>>

PublishErr(w) ==
    /\ pc[w] = "loop"
    /\ ~Exhausted(Head(batch[w]))
    /\ conn[w] = "closed"
    /\ pc' = [pc EXCEPT ![w] = "markFailed"]
    /\ UNCHANGED <<table, batch, stop, net, copies, disruptions>>

\* A faulty variant: the UPDATE matches no row.
MarkPublishedNothing(w) ==
    /\ pc[w] = "markPublished"
    /\ NextRow(w)
    /\ UNCHANGED <<table, stop, net, copies, disruptions>>

MarkPublished(w) ==
    /\ pc[w] = "markPublished"
    /\ published' = published \cup {Head(batch[w]).id}
    /\ NextRow(w)
    /\ UNCHANGED <<stored, retryCount, stop, net, copies, disruptions>>

\* A faulty variant: the count goes the wrong way.
MarkFailedBackwards(w) ==
    /\ pc[w] = "markFailed"
    /\ retryCount' = [retryCount EXCEPT ![Head(batch[w]).id] = @ - 1]
    /\ NextRow(w)
    /\ UNCHANGED <<stored, published, stop, net, copies, disruptions>>

\* A faulty variant: only last_error is set.
MarkFailedUncounted(w) ==
    /\ pc[w] = "markFailed"
    /\ NextRow(w)
    /\ UNCHANGED <<table, stop, net, copies, disruptions>>

MarkFailed(w) ==
    /\ pc[w] = "markFailed"
    /\ retryCount' = [retryCount EXCEPT ![Head(batch[w]).id] = @ + 1]
    /\ NextRow(w)
    /\ UNCHANGED <<stored, published, stop, net, copies, disruptions>>

\* The UPDATE of MarkPublished or MarkFailed fails: it is only logged.
MarkError(w) ==
    /\ pc[w] \in {"markPublished", "markFailed"}
    /\ Disrupt
    /\ NextRow(w)
    /\ UNCHANGED <<table, stop, net, copies>>

\* A faulty variant: the worker empties the table before it stops.
ObserveStopDrained(w) ==
    /\ pc[w] = "select"
    /\ stop[w]
    /\ Unpublished = {}
    /\ pc' = [pc EXCEPT ![w] = "done"]
    /\ UNCHANGED <<table, batch, stop, net, copies, disruptions>>

\* The select takes the closed stop channel; the loop does not look at it.
ObserveStop(w) ==
    /\ pc[w] = "select"
    /\ stop[w]
    /\ pc' = [pc EXCEPT ![w] = "done"]
    /\ UNCHANGED <<table, batch, stop, net, copies, disruptions>>

-----------------------------------------------------------------------------
(* The process around the worker: app.Run *)

\* NewRabbitMQPublisher dials, NewWorker makes the channels, Start runs it.
Start(w) ==
    /\ pc[w] = "down"
    /\ pc' = [pc EXCEPT ![w] = "select"]
    /\ conn' = [conn EXCEPT ![w] = "open"]
    /\ stop' = [stop EXCEPT ![w] = FALSE]
    /\ UNCHANGED <<table, batch, wire, copies, disruptions>>

\* Run is shutting down: Stop closes the channel and waits for done.
Stop(w) ==
    /\ pc[w] # "down"
    /\ ~stop[w]
    /\ Disrupt
    /\ stop' = [stop EXCEPT ![w] = TRUE]
    /\ UNCHANGED <<table, pc, batch, net, copies>>

\* A faulty variant: the connection is closed without closing the channel.
ClosePublisherAtOnce(w) ==
    /\ pc[w] = "done"
    /\ conn' = [conn EXCEPT ![w] = "closed"]
    /\ wire' = [wire EXCEPT ![w] = <<>>]
    /\ pc' = [pc EXCEPT ![w] = "down"]
    /\ UNCHANGED <<table, batch, stop, copies, disruptions>>

(***************************************************************************)
(* Stop has returned: RabbitMQPublisher.Close closes channel and           *)
(* connection.  Closing the channel waits for the broker's answer, which   *)
(* comes after every frame written before; then the process exits.         *)
(***************************************************************************)
ClosePublisher(w) ==
    /\ pc[w] = "done"
    /\ wire[w] = <<>>
    /\ conn' = [conn EXCEPT ![w] = "closed"]
    /\ pc' = [pc EXCEPT ![w] = "down"]
    /\ UNCHANGED <<table, batch, stop, wire, copies, disruptions>>

\* The process dies; what it had not flushed to the broker is gone.
Crash(w) ==
    /\ pc[w] # "down"
    /\ Disrupt
    /\ pc' = [pc EXCEPT ![w] = "down"]
    /\ batch' = [batch EXCEPT ![w] = <<>>]
    /\ conn' = [conn EXCEPT ![w] = "closed"]
    /\ wire' = [wire EXCEPT ![w] = <<>>]
    /\ UNCHANGED <<table, stop, copies>>

-----------------------------------------------------------------------------
(* The broker and the network *)

DropConnection(w) ==
    /\ conn[w] = "open"
    /\ Disrupt
    /\ conn' = [conn EXCEPT ![w] = "closed"]
    /\ wire' = [wire EXCEPT ![w] = <<>>]
    /\ UNCHANGED <<table, pc, batch, stop, copies>>

\* What was written to one connection arrives in the order of writing.
Deliver(w) ==
    /\ wire[w] # <<>>
    /\ wire' = [wire EXCEPT ![w] = Tail(@)]
    /\ UNCHANGED <<table, pc, batch, stop, conn, copies, disruptions>>

-----------------------------------------------------------------------------
Init ==
    /\ stored = {}
    /\ published = {}
    /\ retryCount = [e \in Events |-> 0]
    /\ pc = [w \in Workers |-> "down"]
    /\ batch = [w \in Workers |-> <<>>]
    /\ stop = [w \in Workers |-> FALSE]
    /\ conn = [w \in Workers |-> "closed"]
    /\ wire = [w \in Workers |-> <<>>]
    /\ copies = [e \in Events |-> 0]
    /\ disruptions = 0

\* One iteration of the loop of processOutbox.
HandleRow(w) ==
    \/ SkipExhausted(w)
    \/ PublishOk(w)
    \/ PublishErr(w)
    \/ MarkPublished(w)
    \/ MarkFailed(w)
    \/ MarkError(w)

Next ==
    \/ \E S \in SUBSET Events : Store(S)
    \/ \E w \in Workers :
          \/ Poll(w)
          \/ HandleRow(w)
          \/ ObserveStop(w)
          \/ Start(w)
          \/ Stop(w)
          \/ ClosePublisher(w)
          \/ Crash(w)
          \/ DropConnection(w)
          \/ Deliver(w)

(***************************************************************************)
(* Fairness.  The ticker keeps firing and the goroutine keeps running      *)
(* (weak fairness); select chooses at random among its ready cases, so a   *)
(* closed stop channel is not passed over for ever (strong fairness); the  *)
(* deployment starts a process again after it has gone; what was written   *)
(* to a connection arrives in the end, or the connection is found broken.  *)
(* Nothing is assumed of Store or of disruptions.                          *)
(***************************************************************************)
Fairness ==
    \A w \in Workers :
       /\ WF_vars(Poll(w))
       /\ WF_vars(HandleRow(w))
       /\ SF_vars(ObserveStop(w))
       /\ WF_vars(ClosePublisher(w))
       /\ WF_vars(Start(w))
       /\ WF_vars(Deliver(w))

Spec == Init /\ [][Next]_vars

FairSpec == Spec /\ Fairness

-----------------------------------------------------------------------------
(* Properties *)

Row == [id : Events, retry : Nat]

\* The variables keep their types.
TypeOK ==
    /\ stored \in SUBSET Events
    /\ published \in SUBSET Events
    /\ retryCount \in [Events -> Nat]
    /\ pc \in [Workers -> {"down", "select", "loop", "markPublished",
                           "markFailed", "done"}]
    /\ batch \in [Workers -> Seq(Row)]
    /\ stop \in [Workers -> BOOLEAN]
    /\ conn \in [Workers -> {"open", "closed"}]
    /\ wire \in [Workers -> Seq(Events)]
    /\ copies \in [Events -> Nat]
    /\ disruptions \in 0..MaxDisruptions

\* The workers whose slice still holds e with a retry count that lets them
\* publish it, and so perhaps count one more failure.
Holders(e) ==
    { w \in Workers : \E i \in 1..Len(batch[w]) :
                          batch[w][i].id = e /\ ~Exhausted(batch[w][i]) }

(***************************************************************************)
(* The retry limit is tested on the count read by FetchUnpublished, while  *)
(* MarkFailed increments the row (worker.go:107-116).  Workers that share  *)
(* the table can overshoot the limit, but by less than one failure each.   *)
(***************************************************************************)
RetryBound ==
    \A e \in Events : retryCount[e] <= MaxRetries + Cardinality(Workers) - 1

(***************************************************************************)
(* Duplicates (worker.go:123-128): Publish succeeds for one event at most  *)
(* once per worker plus once per disruption, whatever the interleaving:    *)
(* duplicates do not multiply from poll to poll.                           *)
(***************************************************************************)
DuplicatesBounded ==
    \A e \in Events : copies[e] <= Cardinality(Workers) + disruptions

(***************************************************************************)
(* An event given up on: the count in the table has reached the limit and  *)
(* no slice holds an older count, so every worker will skip it.            *)
(***************************************************************************)
Abandoned(e) == /\ e \in Unpublished
                /\ retryCount[e] >= MaxRetries
                /\ Holders(e) = {}

Handoff == INSTANCE EventHandoff WITH
    accepted <- stored,
    handed <- {e \in Events : copies[e] > 0},
    settled <- published,
    abandoned <- {e \in Events : Abandoned(e)}

(***************************************************************************)
(* The outbox implements the at-least-once hand-off of EventHandoff: a row *)
(* is marked published only after some worker's Publish returned nil for   *)
(* it, whichever worker marks it and whatever failed in between, and an    *)
(* abandoned event stays abandoned through every restart                   *)
(* (worker.go:100-132).                                                    *)
(***************************************************************************)
RefinesHandoff == Handoff!HSpec

(***************************************************************************)
(* Stop returns and the process ends: the select notices the closed        *)
(* channel after at most the current slice (worker.go:74-98).              *)
(***************************************************************************)
StopTerminates == \A w \in Workers : stop[w] ~> pc[w] = "down"

(***************************************************************************)
(* With a limit that covers the table, every event is in the end published *)
(* or has used up its retries (worker.go:100-132): no interleaving of      *)
(* workers, failures and restarts leaves one forgotten.                    *)
(***************************************************************************)
EventuallySettled ==
    \A e \in Events :
        e \in stored ~> e \in published \/ retryCount[e] >= MaxRetries

(***************************************************************************)
(* "Worker polls outbox and publishes to message queue": every event of    *)
(* the table is at least tried.                                            *)
(***************************************************************************)
EventuallyTried ==
    \A e \in Events : e \in stored ~> e \in published \/ retryCount[e] > 0

-----------------------------------------------------------------------------
(* The inductive invariant *)

Busy == {"loop", "markPublished", "markFailed"}

\* Where the goroutine is tells what its slice looks like; the rows of a
\* slice are distinct rows of the table, and their counts may only be too low.
BatchInv ==
    \A w \in Workers :
        /\ pc[w] \in Busy <=> batch[w] # <<>>
        /\ \A i, j \in 1..Len(batch[w]) :
              i # j => batch[w][i].id # batch[w][j].id
        /\ \A i \in 1..Len(batch[w]) :
              /\ batch[w][i].id \in stored
              /\ batch[w][i].retry <= retryCount[batch[w][i].id]
        /\ pc[w] \in {"markPublished", "markFailed"} => ~Exhausted(batch[w][1])

\* Each worker that may still count a failure for e is allowed for.
RetryInv ==
    \A e \in Events :
        retryCount[e] + Cardinality(Holders(e)) <= MaxRetries + Cardinality(Workers) - 1

\* The workers that have published e and not yet marked it.
Marking(e) == { w \in Workers : pc[w] = "markPublished" /\ batch[w][1].id = e }

\* The workers that have e in their slice and have not published it.
Waiting(e) ==
    { w \in Workers : \E i \in 1..Len(batch[w]) :
                          /\ batch[w][i].id = e
                          /\ i = 1 => pc[w] # "markPublished" }

\* While e is unpublished its copies are those being marked and those that
\* a disruption excuses; each waiting worker may add one more.
CopiesInv ==
    \A e \in Events :
        /\ e \notin published => copies[e] <= Cardinality(Marking(e)) + disruptions
        /\ copies[e] + Cardinality(Waiting(e)) <= Cardinality(Workers) + disruptions

\* A published event was handed over, and so was one that is being marked.
HandedInv ==
    /\ published \subseteq {e \in stored : copies[e] > 0}
    /\ \A w \in Workers : pc[w] = "markPublished" => copies[batch[w][1].id] > 0

IInv == TypeOK /\ BatchInv /\ RetryInv /\ CopiesInv /\ HandedInv
=============================================================================
