------------------------------ MODULE Matching ------------------------------
(***************************************************************************)
(* How a trade contract matches a new position with the positions of the   *)
(* other side (cm_tc/src/types.rs, lib.rs: match_trades), without state:   *)
(* Market and TradeContract do it on their books.                          *)
(***************************************************************************)
EXTENDS TradeFee, Sides, FiniteSets

CONSTANTS
  User,
  LedgerFee,        \* [Kind -> transfer fee of that ledger]
  MaxTradeLogs      \* MAX_TRADE_LOGS

ASSUME MatchingAssumption == LedgerFee \in [Kind -> Nat] /\ MaxTradeLogs \in Nat

----------------------------------------------------------------------------
(* Positions (types.rs).  A position keeps its quest and what was traded   *)
(* of it: the cycles volume, and the other side's quantity and fees.       *)

NewPosition(user, quantity, rate) ==
  [positor |-> user, quantity |-> quantity, rate |-> rate, mainder |-> quantity,
   rates_sum |-> 0, fill |-> 0, fees |-> 0]

PositionType ==
  [positor : User, quantity : Nat, rate : Nat, mainder : Nat, rates_sum : Nat,
   fill : Nat, fees : Nat]

(* The trade log that a match makes. *)
MatchLogType ==
  [matcher : Nat, matchee : Nat, matchee_kind : Kind, rate : Nat,
   mount : [Kind -> Nat], cts_fee : [Kind -> Nat]]

minimum_match(k) == TenThousand + LedgerFee[k] * 10

current_position_tokens(k, p, rate) ==
  IF k = "Token" THEN p.mainder ELSE p.mainder \div rate

(* is_less_than_minimum_position of a quest. *)
BelowMinimumQuest(k, quantity, rate) ==
  \/ quantity < minimum_match(k)
  \/ (IF k = "Cycles" THEN quantity \div rate ELSE quantity * rate)
       < minimum_match(Opposite(k))

(* What is left of a position is too little to be matched. *)
BelowMinimum(k, p) ==
  LET tokens == current_position_tokens(k, p, p.rate)
  IN tokens < minimum_match("Token") \/ tokens * p.rate < minimum_match("Cycles")

(* Mutant: positions of the same rate do not match. *)
BetterOnly(k, p, match_rate) ==
  IF k = "Cycles" THEN p.rate > match_rate ELSE p.rate < match_rate

(* is_this_position_better_than_or_equal_to_the_match_rate: the rate of a  *)
(* trade is the middle of the two rates.                                   *)
Compatible(k, p, match_rate) ==
  IF k = "Cycles" THEN p.rate >= match_rate ELSE p.rate <= match_rate

(* Mutant: the difference is doubled, not halved. *)
RateBeyondLimit(k, p, match_rate) ==
  IF k = "Cycles" THEN match_rate - (p.rate - match_rate)
  ELSE match_rate + (match_rate - p.rate)
TradeRate(k, p, match_rate) ==
  IF k = "Cycles" THEN p.rate - (p.rate - match_rate) \div 2
  ELSE p.rate + (match_rate - p.rate) \div 2

FeeCycles(k, p, tokens, rate) ==
  calculate_trade_fee(IF k = "Cycles" THEN p.quantity - p.mainder ELSE p.rates_sum,
                      tokens * rate)

(* The fee of side k of a trade is taken from what that side receives; in  *)
(* tokens it is rounded down at the rate of the trade.                     *)
FeeAt(k, cycles, rate) == IF k = "Cycles" THEN cycles \div rate ELSE cycles

(* Mutant: the cycles are taken at the position's own rate. *)
SubtractAtOwnRate(k, p, tokens, rate) ==
  LET sub == IF k = "Cycles" THEN tokens * p.rate ELSE tokens
      fee == FeeCycles(k, p, tokens, rate)
  IN [p EXCEPT !.mainder   = IF @ >= sub THEN @ - sub ELSE 0,
               !.rates_sum = @ + rate * sub,
               !.fill      = IF k = "Cycles" THEN @ + tokens ELSE @,
               !.fees      = @ + FeeAt(k, fee, rate)]

(* subtract_tokens; its result is FeeCycles. *)
SubtractTokens(k, p, tokens, rate) ==
  LET cycles == tokens * rate
      sub    == IF k = "Cycles" THEN cycles ELSE tokens
      fee    == FeeCycles(k, p, tokens, rate)
  IN [p EXCEPT !.mainder   = IF @ >= sub THEN @ - sub ELSE 0,
               !.rates_sum = @ + rate * sub,
               !.fill      = IF k = "Cycles" THEN @ + tokens ELSE @,
               !.fees      = @ + FeeAt(k, fee, rate)]

----------------------------------------------------------------------------
(* match_trades *)

(* The state of the loop over the matchees: the matcher and the matchees   *)
(* as they are now, the new trade logs and the matchees to remove.         *)
MatchStep(k, matcher_id, queue, limit, st, id) ==
  LET matchee == st.matchees[id]
      rate    == TradeRate(Opposite(k), matchee, st.matcher.rate)
      tokens  == LesserOf(current_position_tokens(k, st.matcher, rate),
                          current_position_tokens(Opposite(k), matchee, rate))
      matcher_ == SubtractTokens(k, st.matcher, tokens, rate)
      matchee_ == SubtractTokens(Opposite(k), matchee, tokens, rate)
      fee     == [j \in Kind |-> FeeCycles(j, IF j = k THEN st.matcher ELSE matchee, tokens, rate)]
      log     == [matcher |-> matcher_id, matchee |-> id, matchee_kind |-> Opposite(k),
                  rate |-> rate,
                  mount |-> [Cycles |-> tokens * rate, Token |-> tokens],
                  cts_fee |-> [Cycles |-> fee["Token"], Token |-> fee["Cycles"] \div rate]]
  IN IF st.stopped \/ ~Compatible(Opposite(k), matchee, st.matcher.rate) THEN st
     ELSE IF queue + Len(st.logs) >= MaxTradeLogs \/ Len(st.logs) >= limit
     THEN [st EXCEPT !.stopped = TRUE, !.cut = TRUE]
     ELSE [st EXCEPT !.matcher = matcher_,
                     !.matchees[id] = matchee_,
                     !.logs = Append(@, log),
                     !.filled = IF BelowMinimum(Opposite(k), matchee_) THEN @ \cup {id} ELSE @,
                     !.stopped = BelowMinimum(k, matcher_),
                     !.matcher_filled = BelowMinimum(k, matcher_)]

(* The matchees in the order of their ids: the iteration of the BTreeMap.  *)
InOrder(S) == [i \in 1 .. Cardinality(S) |->
                 CHOOSE x \in S : Cardinality({y \in S : y < x}) = i - 1]

(* The loop of match_trades: its state after each of the matchees, when    *)
(* there are that many logs in the queue already.                          *)
MatchRun(k, id, matcher, matchees, queue, limit) ==
  LET ids == InOrder(DOMAIN matchees)
      st[i \in 0 .. Len(ids)] ==
        IF i = 0
        THEN [matcher |-> matcher, matchees |-> matchees, logs |-> <<>>, filled |-> {},
              stopped |-> FALSE, matcher_filled |-> FALSE, cut |-> FALSE]
        ELSE MatchStep(k, id, queue, limit, st[i - 1], ids[i])
  IN st

Matched(k, id, matcher, matchees, queue, limit) ==
  MatchRun(k, id, matcher, matchees, queue, limit)[Cardinality(DOMAIN matchees)]

Without(f, S) == [x \in DOMAIN f \ S |-> f[x]]
With(f, x, v) == [y \in DOMAIN f \cup {x} |-> IF y = x THEN v ELSE f[y]]

new_id(id_counter) == id_counter + 1
=============================================================================
