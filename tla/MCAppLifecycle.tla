-------------------------- MODULE MCAppLifecycle --------------------------
(* Instances of AppLifecycle for TLC. *)
EXTENDS AppLifecycle

CONSTANTS r1, c1

OneRequest == {r1}
OneCall == {c1}

\* A single process, and the two kinds of process of prefork mode.
ThreeConfigs ==
    {[migrate |-> TRUE, outbox |-> TRUE, mode |-> "single"],
     [migrate |-> FALSE, outbox |-> FALSE, mode |-> "master"],
     [migrate |-> FALSE, outbox |-> TRUE, mode |-> "child"]}
=============================================================================
