----------------------------- MODULE RemoteCalls -----------------------------
(***************************************************************************)
(* What RemoteCall promises its callers, whatever carries the messages: a  *)
(* call ends once, with a status a server came to for this very call or    *)
(* with an error of the client, and what comes later does not change it.   *)
(***************************************************************************)
CONSTANTS
    Calls,      \* calls of RemoteCall
    Statuses    \* what a server may answer

VARIABLES
    given,      \* the statuses servers have come to for each call
    outcome     \* what each call has returned, or "none"

rvars == <<given, outcome>>

RInit == /\ given = [c \in Calls |-> {}]
         /\ outcome = [c \in Calls |-> "none"]

Answer(c, st) == /\ given' = [given EXCEPT ![c] = @ \cup {st}]
                 /\ UNCHANGED outcome

Return(c, st) == /\ outcome[c] = "none"
                 /\ st \in given[c]
                 /\ outcome' = [outcome EXCEPT ![c] = st]
                 /\ UNCHANGED given

\* Timeouts, lost connections and a shutdown, which ends many calls at once.
Fail(C) == /\ \A c \in C : outcome[c] = "none"
           /\ outcome' = [c \in Calls |-> IF c \in C THEN "error" ELSE outcome[c]]
           /\ UNCHANGED given

RNext == \/ \E c \in Calls, st \in Statuses : Answer(c, st) \/ Return(c, st)
         \/ \E C \in SUBSET Calls : Fail(C)

RSpec == RInit /\ [][RNext]_rvars
=============================================================================
