------------------------------ MODULE MCMarket ------------------------------
EXTENDS PositionViews, TLC
MCTiers == << [volume_cycles |-> 60, rate |-> 3], [volume_cycles |-> 130, rate |-> 2],
              [volume_cycles |-> 10000, rate |-> 1] >>
MCLedgerFee == [k \in Kind |-> 1]
MCQuantities == [Cycles |-> {62, 187}, Token |-> {20, 50}]
MCQuantity == [Cycles |-> {62}, Token |-> {20}]
Symmetry == Permutations(Call) \cup Permutations(User)
=============================================================================
