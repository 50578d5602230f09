--------------------------- MODULE MCNotification ---------------------------
(* Instances of Notification for TLC. *)
EXTENDS Notification, TLC

CONSTANTS c1, u1, u2, d1, t1, t2, a1, a2

OneCall == {c1}
TwoUsers == {u1, u2}
OneDevice == {d1}
TwoTokens == {t1, t2}
TwoAddresses == {a1, a2}
Symmetry == Permutations({u1, u2}) \cup Permutations({t1, t2})
            \cup Permutations({a1, a2})
=============================================================================
