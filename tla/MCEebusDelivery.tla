-------------------------- MODULE MCEebusDelivery --------------------------
(* Small instances of EebusDelivery. *)
EXTENDS EebusDelivery, TLC

CONSTANTS p1, k1, t1, t2, n1

MCSymmetry == Permutations(Tasks)
=============================================================================
