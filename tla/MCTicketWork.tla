---------------------------- MODULE MCTicketWork ----------------------------
(* Small instances of TicketWork for TLC.                                  *)
EXTENDS TicketWork, TLC

CONSTANTS t1, t2

Tickets == Permutations(Ticket)
=============================================================================
