-------------------------------- MODULE MCBank --------------------------------
(* The bank with users that are alike. *)
EXTENDS Bank, TLC

Symmetry == Permutations(User)
=============================================================================
