----------------------------- MODULE MCPayouts -----------------------------
EXTENDS Payouts, TLC
MCTradeSide == {[mount |-> 5, cts_fee |-> 1]}
RunSymmetry == Permutations(Run)
============================================================================
