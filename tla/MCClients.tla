----------------------------- MODULE MCClients -----------------------------
(* Small instances of Clients. *)
EXTENDS Clients, TLC

Symmetry == Permutations(Handlers) \cup Permutations(Tickets)
=============================================================================
