------------------------------ MODULE MCOutbox ------------------------------
\* Model-checking instances of Outbox.
EXTENDS Outbox, TLC

CONSTANTS e1, e2, w1, w2

MCEvents == {e1, e2}
OneWorker == {w1}
TwoWorkers == {w1, w2}

\* e1 was raised before e2.
InOrder == (e1 :> 1) @@ (e2 :> 2)

Symmetry == Permutations(TwoWorkers)
=============================================================================
