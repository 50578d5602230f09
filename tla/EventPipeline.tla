---------------------------- MODULE EventPipeline ----------------------------
(***************************************************************************)
(* An event's way from the table to its handler: Outbox and EventConsumer  *)
(* joined by the topic exchange.  Their steps are the steps of the two     *)
(* modules; they meet where a frame of a publisher reaches the exchange,   *)
(* which puts a copy into the subscriber's queue if that queue is bound,   *)
(* and otherwise drops it without telling anyone (mandatory is FALSE).     *)
(*                                                                         *)
(* The subscriber is a process of its own: app.Run starts none.  The queue *)
(* is durable, so it stays bound once Subscribe has bound it.  All events  *)
(* are of the topic subscribed to.                                         *)
(***************************************************************************)
EXTENDS Outbox, EventConsumer, Functions

\* The bound on copies that EventConsumer needs where it stands alone does not
\* bind here: it allows all that the outbox may publish.
ASSUME CopiesSuffice ==
    \A e \in Events : Copies[e] >= Cardinality(Workers) + MaxDisruptions

VARIABLES
    bound,      \* the queue exists and is bound to the exchange
    unrouted,   \* history: events that reached the exchange while it was not
    dropped     \* history: events whose frames were lost with a connection

exchange == <<bound, unrouted, dropped>>
pvars == <<vars, cvars, exchange>>

-----------------------------------------------------------------------------
(* The publishing processes *)

\* Steps the consumer does not see.
OutboxStep ==
    /\ \/ \E S \in SUBSET Events : Store(S)
       \/ \E w \in Workers :
             \/ Poll(w)
             \/ HandleRow(w)
             \/ ObserveStop(w)
             \/ Start(w)
             \/ Stop(w)
             \/ ClosePublisher(w)
    /\ UNCHANGED <<cvars, exchange>>

\* What the broker had not read from the connection is lost with it.
LoseFrames(w) ==
    /\ Crash(w) \/ DropConnection(w)
    /\ dropped' = dropped \cup Range(wire[w])
    /\ UNCHANGED <<cvars, bound, unrouted>>

-----------------------------------------------------------------------------
(* The exchange *)

\* A frame arrives, and the exchange routes it by the queue's binding.
Route(w) ==
    /\ Deliver(w)
    /\ LET e == Head(wire[w]) IN
       \/ /\ bound
          /\ Publish(e)
          /\ UNCHANGED unrouted
       \/ /\ ~bound
          /\ unrouted' = unrouted \cup {e}
          /\ UNCHANGED cvars
    /\ UNCHANGED <<bound, dropped>>

\* NewRabbitMQSubscriber declares the queue, Subscribe binds and consumes it.
Subscribe ==
    /\ ~bound
    /\ bound' = TRUE
    /\ UNCHANGED <<vars, cvars, unrouted, dropped>>

-----------------------------------------------------------------------------
(* The consuming process *)

ConsumerStep ==
    /\ bound
    /\ Consume
    /\ UNCHANGED <<vars, exchange>>

-----------------------------------------------------------------------------
PInit ==
    /\ Init
    /\ CInit
    /\ bound = FALSE
    /\ unrouted = {}
    /\ dropped = {}

PNext ==
    \/ OutboxStep
    \/ \E w \in Workers : LoseFrames(w) \/ Route(w)
    \/ Subscribe
    \/ ConsumerStep

PSpec == PInit /\ [][PNext]_pvars

\* Each side is as fair as it is alone; nobody need ever subscribe.
PFairSpec == PSpec /\ Fairness /\ CFairness

-----------------------------------------------------------------------------
(* Properties *)

\* The variables keep their types.
PTypeOK ==
    /\ TypeOK
    /\ CTypeOK
    /\ bound \in BOOLEAN
    /\ unrouted \subseteq Events
    /\ dropped \subseteq Events

\* The workers that may still publish e.
Bringing(e) ==
    { w \in Workers : \E i \in 1..Len(batch[w]) :
                          /\ batch[w][i].id = e
                          /\ ~Exhausted(batch[w][i])
                          /\ i = 1 => pc[w] = "loop" }

\* Nothing that happens any more will have e handled for the first time.
Gone(e) ==
    /\ e \in published
    /\ Bringing(e) = {}
    /\ \A w \in Workers : e \notin Range(wire[w])
    /\ e \notin Range(AtBroker)
    /\ event # e
    /\ handled[e] = 0

(***************************************************************************)
(* docs/EVENT_DRIVEN.md says the outbox "guarantees event delivery".  What *)
(* the code keeps of it: an event is lost between table and handler only   *)
(* with frames the broker had not read (rabbitmq.go:65), at an exchange    *)
(* nobody has bound a queue to yet (rabbitmq.go:63), or in a handler whose *)
(* process died after the hand-over (rabbitmq_subscriber.go:110-117).      *)
(* Every other interleaving of retries, restarts, closes and               *)
(* redeliveries delivers it or keeps it.                                   *)
(***************************************************************************)
LossHasCause ==
    \A e \in Events :
        Gone(e) => e \in dropped \/ e \in unrouted \/ cutOff[e] > 0

(***************************************************************************)
(* "Consumers must handle duplicate events": how many to expect from end   *)
(* to end.  The publishing side makes a copy at most for each worker and   *)
(* each failure (worker.go:123-128); and each of these may be handled      *)
(* again in each life of the consuming process, with its ack under way     *)
(* when the connection goes (rabbitmq_subscriber.go:117): the two sides'   *)
(* repetitions multiply, and do no worse.                                  *)
(***************************************************************************)
RepeatsMultiply ==
    \A e \in Events :
        Begun(e) <= (Cardinality(Workers) + disruptions) * (1 + restarts)

Delivery == INSTANCE EventDelivery WITH
    accepted <- stored,
    delivered <- {e \in Events : handled[e] > 0},
    gone <- {e \in Events : Gone(e)}

\* The composition implements EventDelivery: only stored events are handled,
\* and no row, slice, frame or queue brings a lost event back.
RefinesDelivery == Delivery!DSpec

(***************************************************************************)
(* Every event of the table is handled in the end, uses up its retries, or *)
(* meets one of the losses; a consumer that was disturbed or stopped is    *)
(* excused, because nobody resubscribes (rabbitmq_subscriber.go:106).      *)
(***************************************************************************)
EventuallyHandled ==
    \A e \in Events :
        e \in stored ~> \/ handled[e] > 0
                       \/ retryCount[e] >= MaxRetries
                       \/ e \in dropped \/ e \in unrouted
                       \/ cancelled \/ losses > 0

-----------------------------------------------------------------------------
(* The inductive invariant: that of both modules, and what joins them *)

\* The places of e on the connections of the publishers.
OnWires(e) ==
    UNION { {<<w, i>> : i \in {j \in 1..Len(wire[w]) : wire[w][j] = e}} : w \in Workers }

\* The exchange makes no copy of its own: what was published to the queue or is
\* on its way there has been counted by a Publish.
CountedInv ==
    \A e \in Events : Times(e, sent) + Cardinality(OnWires(e)) <= copies[e]

\* Every event handed over is on its way, has arrived, or is known to be lost.
TraceInv ==
    \A e \in Events :
        copies[e] > 0 => \/ Times(e, sent) > 0
                         \/ OnWires(e) # {}
                         \/ e \in dropped \/ e \in unrouted

\* Nothing but events of the table is under way or handled.
SourceInv ==
    /\ \A w \in Workers : Range(wire[w]) \subseteq stored
    /\ Range(sent) \subseteq stored
    /\ event # None => event \in stored

\* What the goroutine is about to send is still with the broker, also when the
\* connection has gone meanwhile.
HeldInv == sub = "send" => held \in Range(AtBroker)

PInv == PTypeOK /\ IInv /\ CInv /\ CountedInv /\ TraceInv /\ SourceInv /\ HeldInv
=============================================================================
