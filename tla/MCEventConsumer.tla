-------------------------- MODULE MCEventConsumer --------------------------
(* Instances of EventConsumer for TLC. *)
EXTENDS EventConsumer, TLC

CONSTANTS e1, e2

TwoEvents == {e1, e2}

\* The outbox hands both over twice.
Duplicates == (e1 :> 2) @@ (e2 :> 2)
=============================================================================
