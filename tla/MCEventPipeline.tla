-------------------------- MODULE MCEventPipeline --------------------------
(* Instances of EventPipeline for TLC. *)
EXTENDS EventPipeline, TLC

CONSTANTS e1, e2, w1

TwoEvents == {e1, e2}
OneWorker == {w1}

\* e1 was raised before e2.
InOrder == (e1 :> 1) @@ (e2 :> 2)

\* One worker and one disruption.
TwoOfEach == (e1 :> 2) @@ (e2 :> 2)
=============================================================================
