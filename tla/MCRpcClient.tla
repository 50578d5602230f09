---------------------------- MODULE MCRpcClient -----------------------------
\* Model-checking instances of RpcClient.
EXTENDS RpcClient

CONSTANTS c1, c2, s1

TwoCalls == {c1, c2}
OneServer == {s1}
=============================================================================
