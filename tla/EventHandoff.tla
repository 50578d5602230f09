---------------------------- MODULE EventHandoff ----------------------------
(***************************************************************************)
(* What the outbox promises of an event once it is in the table: it is     *)
(* recorded as published only after it was handed to the message queue, a  *)
(* record is never taken back, it may be handed over again at any time     *)
(* (at least once, not exactly once), and an event the outbox has given up *)
(* on is never handed over any more.                                       *)
(***************************************************************************)
CONSTANT Events

VARIABLES
    accepted,   \* events in the outbox
    handed,     \* events the publisher accepted at least once
    settled,    \* events recorded as published
    abandoned   \* events given up on

hvars == <<accepted, handed, settled, abandoned>>

HInit == /\ accepted = {}
         /\ handed = {}
         /\ settled = {}
         /\ abandoned = {}

\* Some of the new events, G, may be given up on from the start (a retry
\* limit of zero).
Accept(S, G) == /\ G \subseteq S \ settled
                /\ accepted' = accepted \cup S
                /\ abandoned' = abandoned \cup G
                /\ UNCHANGED <<handed, settled>>

HandOver(e) == /\ e \in accepted \ abandoned
              /\ handed' = handed \cup {e}
              /\ UNCHANGED <<accepted, settled, abandoned>>

Settle(e) == /\ e \in handed \ abandoned
             /\ settled' = settled \cup {e}
             /\ UNCHANGED <<accepted, handed, abandoned>>

GiveUp(S) == /\ S \subseteq accepted \ settled
             /\ abandoned' = abandoned \cup S
             /\ UNCHANGED <<accepted, handed, settled>>

HNext == \/ \E S, G \in SUBSET Events : Accept(S, G)
         \/ \E S \in SUBSET Events : GiveUp(S)
         \/ \E e \in Events : HandOver(e) \/ Settle(e)

HSpec == HInit /\ [][HNext]_hvars
=============================================================================
