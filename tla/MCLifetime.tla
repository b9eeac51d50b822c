----------------------------- MODULE MCLifetime -----------------------------
(* Instances of Lifetime for TLC. *)
EXTENDS Lifetime, TLC

MCOwnerPages == {1}

Symmetry == Permutations(Users) \cup Permutations(Kernels)
=============================================================================
