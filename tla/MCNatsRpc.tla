----------------------------- MODULE MCNatsRpc -----------------------------
(* Instances of NatsRpc for TLC. *)
EXTENDS NatsRpc, TLC

CONSTANTS c1, c2, s1, s2

MCCalls == {c1, c2}
MCRegistered == {c1}
MCServers == {s1, s2}
=============================================================================
