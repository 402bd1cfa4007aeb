------------------------------- MODULE Market -------------------------------
(***************************************************************************)
(* The market of a trade contract (cm_tc/src/lib.rs, types.rs,             *)
(* trade_quest.rs): users place positions, positions are matched into      *)
(* trade logs, and what is filled or cancelled becomes a void position.    *)
(*                                                                         *)
(* A trade or a transfer of a user's balance awaits a ledger, so it is two *)
(* message executions of the canister with the ledger's in between; a set  *)
(* of locks keeps a user to one such call per ledger.  The payouts of void *)
(* positions and trade logs are done by the module Payouts; here each of   *)
(* them is one step.                                                       *)
(***************************************************************************)
EXTENDS Calls

CONSTANTS
  MaxId,            \* bound of positions_id_counter
  Quantity,         \* [Kind -> quantities that users trade]
  Rate,             \* cycles-per-token rates that users ask for
  MaxPositions,     \* MAX_CYCLES_POSITIONS, MAX_TOKEN_POSITIONS
  MaxVoidPositions, \* MAX_VOID_CYCLES_POSITIONS, MAX_VOID_TOKEN_POSITIONS
  Reserve,          \* the 10 of the checks of the capacity in _trade
  MatchLimits       \* how many matches the instruction limit may let happen

ASSUME MarketAssumption ==
  /\ Quantity \in [Kind -> SUBSET Nat]
  /\ Rate \subseteq Nat
  /\ {MaxId, MaxPositions, MaxVoidPositions} \subseteq Nat
  /\ Reserve \in Nat \ {0}
  /\ Reserve <= MaxPositions /\ Reserve <= MaxVoidPositions
  /\ MatchLimits \subseteq Nat

VARIABLES
  positions,             \* [Kind -> [ids -> current position]]
  positions_id_counter,
  void_positions,        \* [Kind -> [ids -> the position as it was voided]]
  trade_logs,            \* every trade log made
  settled,               \* [Kind -> numbers of the trade logs paid on that side]
  moved,                 \* how many logs left the queue for the log storage
  cut,                   \* matchers whose matching stopped early
  positions_balance      \* [Kind -> positions-subaccount]

bookVars   == <<positions, positions_id_counter, void_positions, trade_logs, cut>>
paidVars   == <<settled, moved>>
vars == <<bookVars, paidVars, positions_balance, locks, calls>>

----------------------------------------------------------------------------
(* as_stable_memory_position_log *)
PositionLog(k, p) ==
  LET sold == p.quantity - p.mainder
  IN [quantity |-> p.quantity, rate |-> p.rate,
      mainder_position_quantity |-> p.mainder,
      fill_quantity |-> IF k = "Cycles" THEN p.fill ELSE p.rates_sum,
      fill_average_rate |-> IF sold = 0 THEN p.rate ELSE p.rates_sum \div sold,
      payouts_fees_sum |-> p.fees]

(* into_void_position_type *)
VoidPositionOf(k, p) ==
  [positor |-> p.positor, quantity |-> p.mainder, log |-> PositionLog(k, p)]

(* The position is put on the book, matched, and the filled positions are  *)
(* moved to the void positions.                                            *)
CreateAndMatch(k, user, quantity, rate, limit) ==
  LET id   == positions_id_counter
      st   == Matched(k, id, NewPosition(user, quantity, rate), positions[Opposite(k)],
                      Len(trade_logs) - moved, limit)
      book == [positions EXCEPT ![k] = With(@, id, st.matcher),
                                ![Opposite(k)] = st.matchees]
      gone == [j \in Kind |-> IF j # k THEN st.filled
                              ELSE IF st.matcher_filled THEN {id} ELSE {}]
  IN /\ positions_id_counter' = new_id(id)
     /\ positions' = [j \in Kind |-> Without(book[j], gone[j])]
     /\ void_positions' = [j \in Kind |->
          [i \in DOMAIN void_positions[j] \cup gone[j] |->
             IF i \in gone[j] THEN VoidPositionOf(j, book[j][i]) ELSE void_positions[j][i]]]
     /\ trade_logs' = trade_logs \o st.logs
     /\ cut' = IF st.cut THEN cut \cup {id} ELSE cut

----------------------------------------------------------------------------
Init ==
  /\ positions = [k \in Kind |-> <<>>]
  /\ positions_id_counter = 0
  /\ void_positions = [k \in Kind |-> <<>>]
  /\ trade_logs = <<>>
  /\ settled = [k \in Kind |-> {}]
  /\ moved = 0
  /\ cut = {}
  /\ locks = [k \in Kind |-> {}]
  /\ calls = [c \in Call |-> NoCall]
  /\ positions_balance = [k \in Kind |-> 0]

(* Mutant: the calls in progress are not counted. *)
HasRoomNow(k) ==
  /\ Cardinality(DOMAIN positions[k]) + Reserve < MaxPositions
  /\ Cardinality(DOMAIN void_positions[k]) + Cardinality(DOMAIN positions[k])
       + Reserve <= MaxVoidPositions

(* There is room for one more position, and for it as a void position,     *)
(* besides the ones that calls in progress may still create.               *)
HasRoom(k) ==
  /\ Cardinality(DOMAIN positions[k]) + Cardinality(locks[k]) + Reserve < MaxPositions
  /\ Cardinality(DOMAIN void_positions[k]) + Cardinality(DOMAIN positions[k])
       + Cardinality(locks[k]) + Reserve <= MaxVoidPositions

(* _trade up to its await. *)
TradeCall(c, user, k) ==
  \E quantity \in Quantity[k], rate \in Rate :
    /\ positions_id_counter + Cardinality({d \in Call : calls[d].op = "trade"}) < MaxId
    /\ rate # 0 /\ ~BelowMinimumQuest(k, quantity, rate)
    /\ HasRoom(k)
    /\ CallBegins(c, [op |-> "trade", user |-> user, kind |-> k,
                      quantity |-> quantity, rate |-> rate, answer |-> "none"])
    /\ UNCHANGED <<bookVars, paidVars, positions_balance>>

(* _transfer_balance up to its await. *)
TransferBalanceCall(c, user, k) ==
  /\ CallBegins(c, [op |-> "transfer", user |-> user, kind |-> k,
                    quantity |-> 0, rate |-> 0, answer |-> "none"])
  /\ UNCHANGED <<bookVars, paidVars, positions_balance>>

(* The ledger moves the quantity of a trade from the user's subaccount to *)
(* the positions-subaccount, and that of a transfer elsewhere; or it       *)
(* refuses, or the call is rejected.                                       *)
LedgerAccepts(c) ==
  /\ calls[c].op # "none" /\ calls[c].answer = "none"
  /\ positions_balance' = [positions_balance EXCEPT ![calls[c].kind] = @ + calls[c].quantity]
  /\ calls' = [calls EXCEPT ![c].answer = "ok"]
  /\ UNCHANGED <<bookVars, paidVars, locks>>

LedgerRefuses(c) ==
  /\ calls[c].op # "none" /\ calls[c].answer = "none"
  /\ calls' = [calls EXCEPT ![c].answer = "err"]
  /\ UNCHANGED <<bookVars, paidVars, positions_balance, locks>>

TradeReturns(c) ==
  /\ calls[c].op = "trade" /\ calls[c].answer # "none"
  /\ IF calls[c].answer = "ok"
     THEN \E limit \in MatchLimits :
            CreateAndMatch(calls[c].kind, calls[c].user, calls[c].quantity, calls[c].rate, limit)
     ELSE UNCHANGED bookVars
  /\ CallEnds(c)
  /\ UNCHANGED <<paidVars, positions_balance>>

TransferBalanceReturns(c) ==
  /\ calls[c].op = "transfer" /\ calls[c].answer # "none"
  /\ CallEnds(c)
  /\ UNCHANGED <<bookVars, paidVars, positions_balance>>

(* void_position_ *)
VoidPosition(user, k) ==
  \E id \in DOMAIN positions[k] :
    /\ positions[k][id].positor = user
    /\ positions' = [positions EXCEPT ![k] = Without(@, {id})]
    /\ void_positions' = [void_positions EXCEPT
         ![k] = With(@, id, VoidPositionOf(k, positions[k][id]))]
    /\ UNCHANGED <<positions_id_counter, trade_logs, cut, paidVars, positions_balance,
                   locks, calls>>

----------------------------------------------------------------------------
(* The payouts, each as one step. *)

(* Mutant: the ledger's fee is paid on top of the net amount. *)
PayOutFeeOnTop(k, net) ==
  /\ net > LedgerFee[k] => positions_balance[k] >= net + LedgerFee[k]
  /\ positions_balance' = IF net > LedgerFee[k]
                          THEN [positions_balance EXCEPT ![k] = @ - net - LedgerFee[k]]
                          ELSE positions_balance

(* A payout takes its net amount from the positions-subaccount, unless it  *)
(* is not more than the ledger's fee: that dust stays there.               *)
PayOut(k, net) ==
  /\ net > LedgerFee[k] => positions_balance[k] >= net
  /\ positions_balance' = IF net > LedgerFee[k]
                          THEN [positions_balance EXCEPT ![k] = @ - net]
                          ELSE positions_balance

VoidPaidOut(k) ==
  \E id \in DOMAIN void_positions[k] :
    /\ PayOut(k, void_positions[k][id].quantity)
    /\ void_positions' = [void_positions EXCEPT ![k] = Without(@, {id})]
    /\ UNCHANGED <<positions, positions_id_counter, trade_logs, cut, paidVars, locks, calls>>

TradePaidOut(k) ==
  \E i \in (moved + 1 .. Len(trade_logs)) \ settled[k] :
    /\ PayOut(k, trade_logs[i].mount[k] - trade_logs[i].cts_fee[k])
    /\ settled' = [settled EXCEPT ![k] = @ \cup {i}]
    /\ UNCHANGED <<bookVars, moved, locks, calls>>

(* The log at the front of the queue is paid and goes to the log storage.  *)
TradeMoved ==
  /\ \A k \in Kind : moved + 1 \in settled[k]
  /\ moved' = moved + 1
  /\ UNCHANGED <<bookVars, settled, positions_balance, locks, calls>>

Next ==
  \/ \E c \in Call, user \in User, k \in Kind :
       TradeCall(c, user, k) \/ TransferBalanceCall(c, user, k)
  \/ \E c \in Call : \/ LedgerAccepts(c) \/ LedgerRefuses(c)
                     \/ TradeReturns(c) \/ TransferBalanceReturns(c)
  \/ \E user \in User, k \in Kind : VoidPosition(user, k)
  \/ \E k \in Kind : VoidPaidOut(k) \/ TradePaidOut(k)
  \/ TradeMoved

Spec == Init /\ [][Next]_vars
----------------------------------------------------------------------------
(* Properties *)

VoidPositionType ==
  [positor : User, quantity : Nat,
   log : [quantity : Nat, rate : Nat, mainder_position_quantity : Nat,
          fill_quantity : Nat, fill_average_rate : Nat, payouts_fees_sum : Nat]]

(* The contents of the state variables have the types of the code's data.  *)
TypeOK ==
  /\ positions_id_counter \in 0 .. MaxId
  /\ \A k \in Kind :
       /\ DOMAIN positions[k] \subseteq 0 .. positions_id_counter - 1
       /\ positions[k] \in [DOMAIN positions[k] -> PositionType]
       /\ DOMAIN void_positions[k] \subseteq 0 .. positions_id_counter - 1
       /\ void_positions[k] \in [DOMAIN void_positions[k] -> VoidPositionType]
  /\ trade_logs \in Seq(MatchLogType)
  /\ settled \in [Kind -> SUBSET (1 .. Len(trade_logs))]
  /\ moved \in 0 .. Len(trade_logs)
  /\ cut \subseteq 0 .. positions_id_counter - 1
  /\ locks \in [Kind -> SUBSET User]
  /\ calls \in [Call -> CallType]
  /\ positions_balance \in [Kind -> Nat]

(* The trades of a position, and what they add up to.                      *)
TradesOf(id) == {i \in 1 .. Len(trade_logs) : id \in {trade_logs[i].matcher, trade_logs[i].matchee}}
Traded(id, k) == SumFunction([i \in TradesOf(id) |-> trade_logs[i].mount[k]])
FeesOf(id, k) == SumFunction([i \in TradesOf(id) |-> trade_logs[i].cts_fee[k]])

(* A position loses exactly what its trades took: quantity = what is left  *)
(* + what was traded, on the book and when it is voided.  The saturating   *)
(* subtractions of the code never saturate.  The log of a void position    *)
(* reports exactly its trades: what they bought, and the fees they cost.   *)
PositionsConserved ==
  \A k \in Kind :
    /\ \A id \in DOMAIN positions[k] :
         LET p == positions[k][id] IN p.quantity = p.mainder + Traded(id, k)
    /\ \A id \in DOMAIN void_positions[k] :
         LET v == void_positions[k][id]
         IN /\ v.log.quantity = v.quantity + Traded(id, k)
            /\ v.log.fill_quantity = Traded(id, Opposite(k))
            /\ v.log.payouts_fees_sum = FeesOf(id, Opposite(k))

(* Every trade is real and leaves both sides something after the fee, and  *)
(* no position trades at a rate beyond its limit: what a void log reports  *)
(* as its average rate is within the limit too.                            *)
Limit(k, id) == IF id \in DOMAIN positions[k] THEN positions[k][id].rate
                ELSE void_positions[k][id].log.rate
Known(k, id) == id \in DOMAIN positions[k] \cup DOMAIN void_positions[k]
PositionOf(log, k) == IF k = log.matchee_kind THEN log.matchee ELSE log.matcher

TradesWithinLimits ==
  /\ \A i \in 1 .. Len(trade_logs) :
       LET log == trade_logs[i]
       IN /\ log.mount["Token"] > 0 /\ log.mount["Cycles"] = log.mount["Token"] * log.rate
          /\ \A k \in Kind : log.cts_fee[k] < log.mount[k]
          /\ \A k \in Kind :
               LET id == PositionOf(log, k)
               IN Known(k, id) => IF k = "Cycles" THEN log.rate <= Limit(k, id)
                                  ELSE log.rate >= Limit(k, id)
  /\ \A id \in DOMAIN void_positions["Cycles"] :
       LET log == void_positions["Cycles"][id].log IN log.fill_average_rate <= log.rate
  /\ \A id \in DOMAIN void_positions["Token"] :
       LET log == void_positions["Token"][id].log IN log.fill_average_rate >= log.rate

(* The part of [from, to) that lies in tier i, and the fee of a trade as a  *)
(* sum over the tiers: the reference for the loop of calculate_trade_fee.  *)
InTier(i, from, to) ==
  LET low == IF i = 1 THEN 0 ELSE Tiers[i - 1].volume_cycles
  IN Cardinality((from .. to - 1) \cap (low .. Tiers[i].volume_cycles - 1))
TierSum(from, to) ==
  SumFunction([i \in DOMAIN Tiers |-> (InTier(i, from, to) \div TenThousand) * Tiers[i].rate])

VolumeBefore(i, id) ==
  SumFunction([j \in {t \in TradesOf(id) : t < i} |-> trade_logs[j].mount["Cycles"]])

(* Every trade is charged, on both sides, with the rates of the tiers that *)
(* the position's volume went through in this trade, each part once,       *)
(* however the trades of a position follow each other as matcher and as    *)
(* matchee.  Filling a position in pieces never costs more than one trade  *)
(* of its whole volume.                                                    *)
FeesFollowVolume ==
  \A k \in Kind :
    /\ \A i \in 1 .. Len(trade_logs) :
         LET log    == trade_logs[i]
             volume == VolumeBefore(i, PositionOf(log, k))
         IN log.cts_fee[Opposite(k)] =
              FeeAt(k, TierSum(volume, volume + log.mount["Cycles"]), log.rate)
    /\ \A id \in {PositionOf(trade_logs[i], k) : i \in 1 .. Len(trade_logs)} :
         SumFunction([i \in TradesOf(id) |-> trade_logs[i].cts_fee[Opposite(k)]
                                    * (IF k = "Cycles" THEN trade_logs[i].rate ELSE 1)])
           <= TierSum(0, Traded(id, "Cycles"))

(* Two positions that could trade are both on the book only when the       *)
(* matching of the later one was stopped by a limit.                       *)
BookUncrossed ==
  \A c \in DOMAIN positions["Cycles"], t \in DOMAIN positions["Token"] :
    positions["Cycles"][c].rate >= positions["Token"][t].rate =>
      (IF c > t THEN c ELSE t) \in cut

(* The positions-subaccount always covers everything the contract owes at  *)
(* that ledger: the positions on the book, the void positions and the      *)
(* unpaid sides of the trades.                                             *)
Owed(k) ==
  SumFunction([id \in DOMAIN positions[k] |-> positions[k][id].mainder])
  + SumFunction([id \in DOMAIN void_positions[k] |-> void_positions[k][id].quantity])
  + SumFunction([i \in (1 .. Len(trade_logs)) \ settled[k] |-> trade_logs[i].mount[k]])
Solvent == \A k \in Kind : positions_balance[k] >= Owed(k) + PaidIn(k)

(* The maps never outgrow the memory they were given, although a position  *)
(* is made only after an await and every position will need a place among  *)
(* the void positions: the locks keep the room, and the reserve of the     *)
(* checks is never used up.                                                *)
TradesInProgress(k) == Cardinality({c \in Call : calls[c].op = "trade" /\ calls[c].kind = k})
RoomReserved ==
  /\ \A k \in Kind :
       /\ Cardinality(DOMAIN positions[k]) + TradesInProgress(k) + Reserve <= MaxPositions
       /\ Cardinality(DOMAIN void_positions[k]) + Cardinality(DOMAIN positions[k])
            + TradesInProgress(k) + Reserve <= MaxVoidPositions + 1
  /\ Len(trade_logs) - moved <= MaxTradeLogs

(* The maps and queues, within their room, with the types of all the data. *)
RoomInv == TypeOK /\ RoomReserved
=============================================================================
