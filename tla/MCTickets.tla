------------------------------- MODULE MCTickets -------------------------------
(* Small instances of Tickets: ids are only compared. *)
EXTENDS Tickets, TLC

Symmetry == Permutations(Tickets) \cup Permutations(Messages) \cup Permutations(Handlers)

=============================================================================
