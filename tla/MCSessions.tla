------------------------------ MODULE MCSessions ------------------------------
(* Small instances of Sessions.  Tokens and handlers are values that  *)
(* are only compared, so permuting them changes no verdict on safety.         *)
EXTENDS Sessions, TLC

Symmetry == Permutations(Tokens) \cup Permutations(Handlers)

=============================================================================
