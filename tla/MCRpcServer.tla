---------------------------- MODULE MCRpcServer -----------------------------
\* Model-checking instances of RpcServer: r1 names a handler, r2 does not.
EXTENDS RpcServer

CONSTANTS r1, r2

MCRequests == {r1, r2}
MCRegistered == {r1}
=============================================================================
