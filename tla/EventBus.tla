------------------------------ MODULE EventBus ------------------------------
(* What both ends of the event bus speak of: the events of the topic. *)

CONSTANT Events  \* event identifiers (uuid.New, so never reused)
=============================================================================
