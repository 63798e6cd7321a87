------------------------ MODULE MCNotificationOutbox ------------------------
(* Small instances of NotificationOutbox for TLC.                          *)
EXTENDS NotificationOutbox, TLC

CONSTANTS g1, f1

NoResume == {}
Resuming == {[role |-> "executor", gen |-> 1], [role |-> "cli", gen |-> 0]}
=============================================================================
