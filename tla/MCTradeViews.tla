---------------------------- MODULE MCTradeViews ----------------------------
EXTENDS TradeViews
MCPositionKind == [p \in Position |-> IF p % 2 = 0 THEN "Cycles" ELSE "Token"]
MCFees == [id \in 0 .. MaxTrades - 1 |-> [tokens |-> id, cycles |-> id + 1]]
PayoutOf(did_transfer, fee) == [did_transfer |-> did_transfer, ledger_transfer_fee |-> fee]
MCPayouts ==
  0 :> [Cycles |-> PayoutOf(TRUE, 1),     Token |-> PayoutOf(FALSE, U64 - 1)] @@
  1 :> [Cycles |-> PayoutOf(FALSE, U64),  Token |-> PayoutOf(TRUE, 2)] @@
  2 :> [Cycles |-> PayoutOf(TRUE, 0),     Token |-> PayoutOf(FALSE, U64 + 1)]
=============================================================================
