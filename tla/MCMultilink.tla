----------------------------- MODULE MCMultilink -----------------------------
(* Multilink with small constants. *)
EXTENDS Multilink, TLC

\* Links that may all fail in the same ways are interchangeable.
LinkSymmetry == Permutations(Links)

=============================================================================
