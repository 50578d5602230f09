------------------------ MODULE MCNotificationInbox ------------------------
(* Instances of NotificationInbox for TLC. *)
EXTENDS NotificationInbox, TLC

CONSTANTS n1, n2, n3, u1, u2

MCIds == {n1, n2, n3}
MCRecipients == {u1, u2}
MCTimes == 1..3
Symmetry == Permutations(MCIds)
=============================================================================
