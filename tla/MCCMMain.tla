------------------------------ MODULE MCCMMain ------------------------------
(* CM-main with ledgers, canisters, codes and upgrades that are alike. *)
EXTENDS CMMain

Symmetry == Permutations(Ledger) \cup Permutations(Canister)
              \cup Permutations(Code) \cup Permutations(Upgrade)
=============================================================================
