---------------------------- MODULE RequestService ----------------------------
(***************************************************************************)
(* What the RPC server of pkg/rabbitmq/rmq_rpc/server promises about the   *)
(* requests published to it: at most one answer each, none for a request   *)
(* that was lost, and no request settled with the broker before it is      *)
(* answered.                                                               *)
(***************************************************************************)
CONSTANTS
    Requests,   \* calls that clients may publish
    Statuses    \* what the server may answer

VARIABLES
    asked,      \* the requests published so far
    open,       \* those still to be answered
    answers,    \* the answers given, <<request, status>>
    settled     \* the requests acknowledged to the broker

svars == <<asked, open, answers, settled>>

SInit == asked = {} /\ open = {} /\ answers = {} /\ settled = {}

\* A request published while the server is away is never opened.
Ask(r) == /\ r \notin asked
          /\ asked' = asked \cup {r}
          /\ open' \in {open, open \cup {r}}
          /\ UNCHANGED <<answers, settled>>

Answer(r, st) == /\ r \in open
                 /\ open' = open \ {r}
                 /\ answers' = answers \cup {<<r, st>>}
                 /\ UNCHANGED <<asked, settled>>

\* The connection takes its queue, and the answer under way, with it.
Lose(S) == /\ S \subseteq open
           /\ open' = open \ S
           /\ UNCHANGED <<asked, answers, settled>>

Settle(r, st) == /\ <<r, st>> \in answers
                 /\ settled' = settled \cup {r}
                 /\ UNCHANGED <<asked, open, answers>>

SNext == \/ \E r \in Requests : Ask(r)
         \/ \E r \in Requests, st \in Statuses : Answer(r, st) \/ Settle(r, st)
         \/ \E S \in SUBSET Requests : Lose(S)

SSpec == SInit /\ [][SNext]_svars
=============================================================================
