----------------------------- MODULE MCMagicLinks -----------------------------
(* Small instances of MagicLinks: every ticket belongs to one client. *)
EXTENDS MagicLinks, TLC

OneClient == [t \in Tickets |-> CHOOSE u \in Users : TRUE]

Symmetry == Permutations(Handlers) \cup Permutations(Links) \cup Permutations(Jtis)

=============================================================================
