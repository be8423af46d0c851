------------------------------ MODULE MCTicketPage ------------------------------
(* Small instances of TicketPage. *)
EXTENDS TicketPage, TLC

\* Nothing tells one ticket from another.
Symmetry == Permutations(Tickets)

=============================================================================
