-------------------------- MODULE MCDurableTransfer --------------------------
(* DurableTransfer on a small instance, for TLC. *)
EXTENDS DurableTransfer, TLC

Symmetry == Permutations(Driver)
=============================================================================
