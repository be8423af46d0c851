------------------------------- MODULE MCLockout -------------------------------
(* Small instances of Lockout: one failure without consequence, one temporary *)
(* lock of one tick, then the permanent one.                                 *)
EXTENDS Lockout, TLC

DelayTicks == [attempts \in FirstLock .. Threshold - 1 |-> 1]

Symmetry == Permutations(Handlers) \cup Permutations(Tickets) \cup Permutations(Links)

=============================================================================
