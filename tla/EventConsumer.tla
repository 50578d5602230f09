---------------------------- MODULE EventConsumer ----------------------------
(***************************************************************************)
(* The consuming end of the event bus: the goroutine that                  *)
(* RabbitMQSubscriber.Subscribe starts (pkg/eventbus/rabbitmq_subscriber.go)*)
(* and the notification worker that reads its channel                      *)
(* (internal/usecase/notification/worker.go), on one durable queue.        *)
(*                                                                         *)
(* The channel events is unbuffered, so a send and the receive that takes  *)
(* it are one step (HandOver).  The delivery is acknowledged after that    *)
(* step and before, during or after handleEvent; the ack is a frame written *)
(* to a socket, which the broker reads later, or never (AckArrives).       *)
(***************************************************************************)
EXTENDS EventBus, Integers, Sequences, FiniteSets

CONSTANTS
    Copies,     \* bound: how often each event may be published
    MaxLosses,  \* bound: lost connections and process crashes
    None        \* no event

ASSUME NoneAssumption == None \notin Events
ASSUME CopiesAssumption == Copies \in [Events -> Nat]
ASSUME MaxLossesAssumption == MaxLosses \in Nat

VARIABLES
    sent,       \* events published so far, in order
    queue,      \* ready messages of the durable queue, first to last
    msgs,       \* deliveries in the Go channel msgs, unacknowledged
    subConn,    \* "open" until the connection is lost
    sub,        \* where the subscriber's goroutine is
    held,       \* the delivery that goroutine has taken from msgs
    acks,       \* deliveries acknowledged whose acks the broker has not read
    worker,     \* where processEvents is
    event,      \* the event handleEvent is running on
    cancelled,  \* the context given to Start is done
    handled,    \* history: how often handleEvent has finished with an event
    cutOff,     \* history: how often a crash caught handleEvent with the event
    losses,     \* losses so far
    restarts    \* history: how many of them were of the whole process

cvars == <<sent, queue, msgs, subConn, sub, held, acks, worker, event, cancelled,
          handled, cutOff, losses, restarts>>

broker == <<sent, queue>>
history == <<handled, cutOff, losses, restarts>>

\* How many copies of e the sequence s holds.
Times(e, s) == Cardinality({i \in 1..Len(s) : s[i] = e})

Lose == /\ losses < MaxLosses
        /\ losses' = losses + 1

-----------------------------------------------------------------------------
(* The broker *)

Publish(e) ==
    /\ Times(e, sent) < Copies[e]
    /\ sent' = Append(sent, e)
    /\ queue' = Append(queue, e)
    /\ UNCHANGED <<msgs, subConn, sub, held, acks, worker, event, cancelled, history>>

\* Consume asked for no prefetch limit: the broker pushes what it has.
Push ==
    /\ subConn = "open"
    /\ queue # <<>>
    /\ queue' = Tail(queue)
    /\ msgs' = Append(msgs, Head(queue))
    /\ UNCHANGED <<sent, subConn, sub, held, acks, worker, event, cancelled, history>>

\* A faulty variant: Consume with autoAck.
UnackedNone == <<>>

\* Deliveries the goroutine has not acknowledged.
Outstanding == (IF held = None THEN <<>> ELSE <<held>>) \o msgs

\* What the broker has delivered on this channel and has read no ack for.
Unacked == acks \o Outstanding

-----------------------------------------------------------------------------
(* The goroutine of Subscribe *)

Receive ==
    /\ sub = "select"
    /\ msgs # <<>>
    /\ held' = Head(msgs)
    /\ msgs' = Tail(msgs)
    /\ sub' = "send"
    /\ UNCHANGED <<broker, subConn, acks, worker, event, cancelled, history>>

\* A faulty variant: what is left in msgs is rejected for requeuing, singly.
EndSubscriptionRequeuing ==
    /\ sub = "select"
    /\ cancelled \/ (subConn = "closed" /\ msgs = <<>>)
    /\ sub' = "done"
    /\ queue' = queue \o msgs
    /\ msgs' = <<>>
    /\ UNCHANGED <<sent, subConn, held, acks, worker, event, cancelled, history>>

\* A faulty variant: only the end of the deliveries is looked at.
EndSubscriptionOnClose ==
    /\ sub = "select"
    /\ subConn = "closed" /\ msgs = <<>>
    /\ sub' = "done"
    /\ UNCHANGED <<broker, msgs, subConn, held, acks, worker, event, cancelled, history>>

\* ctx.Done() or the closed msgs ends the loop; the deferred close(events)
\* is what worker sees of sub = "done".
EndSubscription ==
    /\ sub = "select"
    /\ cancelled \/ (subConn = "closed" /\ msgs = <<>>)
    /\ sub' = "done"
    /\ UNCHANGED <<broker, msgs, subConn, held, acks, worker, event, cancelled, history>>

\* events <- Event{...} meets case e, ok := <-events.
HandOver ==
    /\ sub = "send"
    /\ worker = "select"
    /\ event' = held
    /\ worker' = "handle"
    /\ sub' = "ack"
    /\ UNCHANGED <<broker, msgs, subConn, held, acks, cancelled, history>>

\* A faulty variant: Nack with requeue.
AckRequeuing ==
    /\ sub = "ack"
    /\ held' = None
    /\ queue' = IF subConn = "open" THEN <<held>> \o queue ELSE queue
    /\ sub' = "select"
    /\ UNCHANGED <<sent, msgs, subConn, acks, worker, event, cancelled, history>>

\* A faulty variant: return instead of the next round of the loop.
AckEnding ==
    /\ sub = "ack"
    /\ held' = None
    /\ acks' = IF subConn = "open" THEN Append(acks, held) ELSE acks
    /\ sub' = "done"
    /\ UNCHANGED <<broker, msgs, subConn, worker, event, cancelled, history>>

(***************************************************************************)
(* msg.Ack(false) writes a frame and waits for no answer; its error is     *)
(* ignored.  On a closed connection it fails, and LoseConnection or Close  *)
(* has put the message back already.                                       *)
(***************************************************************************)
Ack ==
    /\ sub = "ack"
    /\ held' = None
    /\ acks' = IF subConn = "open" THEN Append(acks, held) ELSE acks
    /\ sub' = "select"
    /\ UNCHANGED <<broker, msgs, subConn, worker, event, cancelled, history>>

\* The broker reads an ack; until then the message is its own to deliver again.
\* No prefetch limit waits for it, so any number may be on the way.
AckArrives ==
    /\ acks # <<>>
    /\ acks' = Tail(acks)
    /\ UNCHANGED <<broker, msgs, subConn, sub, held, worker, event, cancelled, history>>

-----------------------------------------------------------------------------
(* Worker.processEvents and handleEvent *)

HandleEvent ==
    /\ worker = "handle"
    /\ handled' = [handled EXCEPT ![event] = @ + 1]
    /\ event' = None
    /\ worker' = "select"
    /\ UNCHANGED <<broker, msgs, subConn, sub, held, acks, cancelled, cutOff, losses, restarts>>

EndWorker ==
    /\ worker = "select"
    /\ cancelled \/ sub = "done"
    /\ worker' = "done"
    /\ UNCHANGED <<broker, msgs, subConn, sub, held, acks, event, cancelled, history>>

-----------------------------------------------------------------------------
(* The process and its connection *)

Cancel ==
    /\ ~cancelled
    /\ cancelled' = TRUE
    /\ UNCHANGED <<broker, msgs, subConn, sub, held, acks, worker, event, history>>

\* The broker puts back what it has read no ack for, in front and in order,
\* what was handled and acknowledged meanwhile included; msgs is closed
\* without being drained.  Nobody dials again.
LoseConnection ==
    /\ subConn = "open"
    /\ Lose
    /\ subConn' = "closed"
    /\ queue' = Unacked \o queue
    /\ msgs' = <<>>
    /\ acks' = <<>>
    /\ UNCHANGED <<sent, sub, held, worker, event, cancelled, handled, cutOff, restarts>>

\* RabbitMQSubscriber.Close, by the owner that has cancelled the context.  The
\* frame that closes the channel follows the acks on the same stream, so the
\* broker has read them when it puts the rest back.
Close ==
    /\ cancelled
    /\ subConn = "open"
    /\ subConn' = "closed"
    /\ queue' = Outstanding \o queue
    /\ msgs' = <<>>
    /\ acks' = <<>>
    /\ UNCHANGED <<sent, sub, held, worker, event, cancelled, history>>

\* The process dies and a new one runs NewRabbitMQSubscriber and Start.
Restart ==
    /\ Lose
    /\ subConn' = "open"
    /\ queue' = (IF subConn = "open" THEN Unacked ELSE <<>>) \o queue
    /\ msgs' = <<>>
    /\ sub' = "select"
    /\ held' = None
    /\ acks' = <<>>
    /\ worker' = "select"
    /\ event' = None
    /\ cancelled' = FALSE
    /\ cutOff' = [e \in Events |-> cutOff[e] + (IF event = e THEN 1 ELSE 0)]
    /\ restarts' = restarts + 1
    /\ UNCHANGED <<sent, handled>>

-----------------------------------------------------------------------------
CInit ==
    /\ sent = <<>>
    /\ queue = <<>>
    /\ msgs = <<>>
    /\ subConn = "open"
    /\ sub = "select"
    /\ held = None
    /\ acks = <<>>
    /\ worker = "select"
    /\ event = None
    /\ cancelled = FALSE
    /\ handled = [e \in Events |-> 0]
    /\ cutOff = [e \in Events |-> 0]
    /\ losses = 0
    /\ restarts = 0

\* Everything but the publications.
Consume ==
    \/ Push
    \/ Receive
    \/ EndSubscription
    \/ HandOver
    \/ Ack
    \/ AckArrives
    \/ HandleEvent
    \/ EndWorker
    \/ Cancel
    \/ LoseConnection
    \/ Close
    \/ Restart

CNext ==
    \/ \E e \in Events : Publish(e)
    \/ Consume

CSpec == CInit /\ [][CNext]_cvars

\* The broker pushes, and the two goroutines run; select takes a random ready
\* case, so it does not pass over a context that is done for ever.  Nothing is
\* assumed of publications, cancellation and losses, nor that an ack arrives.
CFairness ==
    /\ WF_cvars(Push)
    /\ WF_cvars(Receive)
    /\ SF_cvars(EndSubscription)
    /\ WF_cvars(HandOver)
    /\ WF_cvars(Ack)
    /\ WF_cvars(HandleEvent)
    /\ SF_cvars(EndWorker)

CFairSpec == CSpec /\ CFairness

-----------------------------------------------------------------------------
(* Properties *)

\* The variables keep their types.
CTypeOK ==
    /\ sent \in Seq(Events)
    /\ queue \in Seq(Events)
    /\ msgs \in Seq(Events)
    /\ subConn \in {"open", "closed"}
    /\ sub \in {"select", "send", "ack", "done"}
    /\ held \in Events \cup {None}
    /\ acks \in Seq(Events)
    /\ worker \in {"select", "handle", "done"}
    /\ event \in Events \cup {None}
    /\ cancelled \in BOOLEAN
    /\ handled \in [Events -> Nat]
    /\ cutOff \in [Events -> Nat]
    /\ losses \in 0..MaxLosses
    /\ restarts \in Nat

\* Copies handleEvent has been given: finished, under way or cut off.
Begun(e) == handled[e] + cutOff[e] + (IF event = e THEN 1 ELSE 0)

\* What the broker has read no ack for, in the order it will deliver it.
AtBroker == (IF subConn = "open" THEN Unacked ELSE <<>>) \o queue

(***************************************************************************)
(* A copy is lost only inside handleEvent (rabbitmq_subscriber.go:110-117):*)
(* one that handleEvent was never given is still with the broker.  A       *)
(* cancelled context and a lost connection at any moment lose nothing.     *)
(***************************************************************************)
NothingLostOutsideHandler ==
    \A e \in Events : Times(e, sent) <= Begun(e) + Times(e, AtBroker)

(***************************************************************************)
(* "Consumers must handle duplicate events": each copy that was published  *)
(* is given to handleEvent at most once in a life of the consumer, so an   *)
(* event comes back only with a new process, and then with every copy of   *)
(* it that was handled and whose ack was under way                         *)
(* (rabbitmq_subscriber.go:106-117).                                       *)
(***************************************************************************)
RepeatsNeedRestarts ==
    \A e \in Events : Begun(e) <= Times(e, sent) * (1 + restarts)

(***************************************************************************)
(* What the broker has read no ack for is, at any time, the tail of what was *)
(* published, each copy once and in order: one consumer on one channel     *)
(* acks in order (rabbitmq_subscriber.go:101-118), and what a loss puts    *)
(* back goes in front of what was never delivered.                         *)
(***************************************************************************)
KeepsOrder == AtBroker = SubSeq(sent, Len(sent) - Len(AtBroker) + 1, Len(sent))

\* While nothing is lost or cancelled, every event published is handled
\* (rabbitmq_subscriber.go:98-120, worker.go:36-49).
HandledUnlessDisturbed ==
    \A e \in Events : Times(e, sent) > 0 ~> handled[e] > 0 \/ cancelled \/ losses > 0

\* The send events <- Event{...} has no other case: if the worker has left,
\* the goroutine stays in it.
Stranded == worker = "done" /\ sub = "send"

(***************************************************************************)
(* Cancelling the context ends both goroutines wherever they are, and the  *)
(* one way to leave a goroutine behind is the unguarded send               *)
(* (rabbitmq_subscriber.go:103-110, worker.go:38-40).                      *)
(***************************************************************************)
CancelEndsBoth ==
    cancelled ~> \/ worker = "done" /\ sub = "done"
                 \/ Stranded
                 \/ ~cancelled

(***************************************************************************)
(* While nobody cancels, the consumer ends only with its connection, and   *)
(* the worker after the subscriber (rabbitmq_subscriber.go:103-106,        *)
(* worker.go:36-46): a goroutine left in its send was left by a Cancel.    *)
(***************************************************************************)
EndsHaveCauses ==
    /\ sub = "done" => cancelled \/ subConn = "closed"
    /\ worker = "done" => cancelled \/ sub = "done"
    /\ Stranded => cancelled

-----------------------------------------------------------------------------
(* The inductive invariant *)

RunInv ==
    /\ sub \in {"send", "ack"} <=> held # None
    /\ worker = "handle" <=> event # None
    /\ subConn = "closed" => msgs = <<>> /\ acks = <<>>

OrderInv == Len(AtBroker) <= Len(sent) /\ KeepsOrder

\* handleEvent was given e, and an ack will be written on an open connection.
BeingAcked(e) == sub = "ack" /\ subConn = "open" /\ held = e

\* handleEvent may still be given e by the goroutine, though the connection
\* it came on is gone.
BeingSent(e) == sub = "send" /\ subConn = "closed" /\ held = e

One(b) == IF b THEN 1 ELSE 0

\* Copies of e whose acks the broker has still to read, those it will be sent
\* included.
Settling(e) == Times(e, acks) + One(BeingAcked(e))

\* NothingLostOutsideHandler with what the acks to come take away.
LossInv ==
    \A e \in Events : Times(e, sent) + Settling(e) <= Begun(e) + Times(e, AtBroker)

\* RepeatsNeedRestarts with what is still to be handled in this life of the
\* process: what the broker has, but for the acks to come.
RepeatInv ==
    \A e \in Events :
        /\ subConn = "open" =>
              Begun(e) + Times(e, AtBroker)
                 <= Times(e, sent) * (1 + restarts) + Settling(e)
        /\ subConn = "closed" =>
              Begun(e) + One(BeingSent(e)) <= Times(e, sent) * (1 + restarts)

CInv == CTypeOK /\ RunInv /\ OrderInv /\ LossInv /\ RepeatInv
=============================================================================
