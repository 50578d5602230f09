---------------------------- MODULE EventDelivery ----------------------------
(***************************************************************************)
(* What the event bus as a whole promises of an event, from the table to   *)
(* its handler: it may be handled any number of times, or be lost before   *)
(* it was handled once, and what is lost never turns up again.             *)
(***************************************************************************)
CONSTANT Events

VARIABLES
    accepted,   \* events in the outbox
    delivered,  \* events handled at least once
    gone        \* events that will never be handled

dvars == <<accepted, delivered, gone>>

DInit == /\ accepted = {}
         /\ delivered = {}
         /\ gone = {}

Accept(S) == /\ accepted' = accepted \cup S
             /\ UNCHANGED <<delivered, gone>>

Deliver(e) == /\ e \in accepted \ gone
              /\ delivered' = delivered \cup {e}
              /\ UNCHANGED <<accepted, gone>>

Lose(S) == /\ S \subseteq accepted \ delivered
           /\ gone' = gone \cup S
           /\ UNCHANGED <<accepted, delivered>>

DNext == \/ \E S \in SUBSET Events : Accept(S) \/ Lose(S)
         \/ \E e \in Events : Deliver(e)

DSpec == DInit /\ [][DNext]_dvars
=============================================================================
