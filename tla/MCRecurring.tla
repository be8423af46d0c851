---------------------------- MODULE MCRecurring ----------------------------
(* Small instances of Recurring; no symmetry, for the liveness property.    *)
EXTENDS Recurring, TLC
=============================================================================
