--------------------------- MODULE MCTradeContract ---------------------------
EXTENDS TradeContract, TLC
MCTiers == << [volume_cycles |-> 60, rate |-> 3], [volume_cycles |-> 10000, rate |-> 1] >>
MCFee == [k \in {"Cycles", "Token"} |-> 1]
MCQuantity == [Cycles |-> {60}, Token |-> {40}]
MCVoidQuantity == {0, 20, 40, 60}
MCTradeSide == [mount : {60, 20}, cts_fee : {6, 18}]
==============================================================================
