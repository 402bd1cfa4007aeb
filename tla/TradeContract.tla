---------------------------- MODULE TradeContract ----------------------------
(***************************************************************************)
(* A trade contract as a whole: the market and the payouts on one state.   *)
(* Market reduces a payout to one step, and Payouts chooses what the       *)
(* market hands over; here the matching of Market makes the obligations    *)
(* that Payouts pays, with the transfers of both sides on one              *)
(* positions-subaccount.  What is shown: every step is one that Payouts    *)
(* allows for, and the subaccount covers what is paid.                     *)
(*                                                                         *)
(* The state of Payouts is part of the state here, and its positions are   *)
(* the ids of the book; the users' calls and their locks are Market's.     *)
(*                                                                         *)
(* The ledgers do not change their fees and the canister is not upgraded   *)
(* (Payouts has both); transfers of users' balances do not touch this      *)
(* state but for the locks (Market).                                       *)
(***************************************************************************)
EXTENDS Payouts, Calls

CONSTANTS
  Quantity, Rate,    \* what users trade
  MaxPositions, MaxVoidPositions, Reserve, MatchLimits,
  MaxBuffer          \* MAX_STORAGE_BUFFER_SIZE, in logs

(* A match fills a position, so there are no more trades than positions.   *)
ASSUME ContractAssumption ==
  /\ Quantity \in [Kind -> SUBSET Nat]
  /\ Rate \subseteq Nat
  /\ LedgerFee \in [Kind -> LedgerFees]
  /\ {MaxPositions, MaxVoidPositions} \subseteq Nat
  /\ {Reserve, MaxBuffer} \subseteq Nat \ {0}
  /\ Reserve <= MaxPositions /\ Reserve <= MaxVoidPositions
  /\ MatchLimits \subseteq Nat
  /\ MaxTrades >= MaxId

VARIABLES
  book,              \* [Kind -> [ids -> current position]]
  positions_balance

M == INSTANCE Market WITH
       positions <- book, cut <- {}, moved <- 0, settled <- [k \in Kind |-> {}]

callVars  == <<book, locks, calls, positions_balance>>
tradeVars == <<book, positions, positions_id_counter, trade_logs_id_counter, owedVars, position_logs>>
payVars   == <<trades_stored, flushed, flush_lock, feeVars, transfers, runs, boundVars>>
contractVars == <<callVars, vars>>

ContractInit ==
  /\ Init
  /\ ledger_fee = LedgerFee
  /\ book = [k \in Kind |-> <<>>]
  /\ locks = [k \in Kind |-> {}]
  /\ calls = [c \in Call |-> NoCall]
  /\ positions_balance = [k \in Kind |-> 0]

----------------------------------------------------------------------------
(* The market *)

BufferLen(s) ==
  (IF s = "positions" THEN Len(position_logs) ELSE Len(trades_stored)) - flushed[s]

(* Mutant: the buffers are not looked at. *)
NeverFull == TRUE
BuffersHaveRoom == \A s \in Storage : BufferLen(s) < MaxBuffer

(* _trade up to its await. *)
TradeCall(c, user, k) ==
  /\ BuffersHaveRoom
  /\ M!TradeCall(c, user, k)
  /\ UNCHANGED vars

LedgerAnswers(c) ==
  /\ M!LedgerAccepts(c) \/ M!LedgerRefuses(c)
  /\ UNCHANGED vars

(* The positions that a match fills become void positions, the matches     *)
(* trade logs, and the new position gets its log.                          *)
MatchNew(c, limit) ==
  LET k    == calls[c].kind
      id   == positions_id_counter
      st   == Matched(k, id, NewPosition(calls[c].user, calls[c].quantity, calls[c].rate),
                      book[Opposite(k)], Len(trade_logs), limit)
      all  == [book EXCEPT ![k] = With(@, id, st.matcher), ![Opposite(k)] = st.matchees]
      gone == [j \in Kind |-> IF j # k THEN st.filled
                              ELSE IF st.matcher_filled THEN {id} ELSE {}]
      n    == trade_logs_id_counter
  IN /\ book' = [j \in Kind |-> Without(all[j], gone[j])]
     /\ positions' = [j \in Kind |-> DOMAIN all[j] \ gone[j]]
     /\ positions_id_counter' = new_id(id)
     /\ void_positions' = [j \in Kind |->
          [i \in DOMAIN void_positions[j] \cup gone[j] |->
             IF i \in gone[j] THEN NewVoidPosition(all[j][i].mainder)
             ELSE void_positions[j][i]]]
     /\ trade_logs' = trade_logs \o
          [i \in DOMAIN st.logs |-> NewTradeLog(n + i - 1,
             [j \in Kind |-> [mount |-> st.logs[i].mount[j], cts_fee |-> st.logs[i].cts_fee[j]]])]
     /\ trade_logs_id_counter' = n + Len(st.logs)
     /\ position_logs' = Append(position_logs, OpenLog)

(* Mutant: a trade sets a timer only when something was matched. *)
TimerAfterMatch == timers' = IF trade_logs' # trade_logs THEN timers + 1 ELSE timers
SetTimer == timers' = timers + 1

TradeReturns(c) ==
  /\ calls[c].op = "trade" /\ calls[c].answer # "none"
  /\ timers < MaxTimers
  /\ IF calls[c].answer = "ok" THEN \E limit \in MatchLimits : MatchNew(c, limit)
     ELSE UNCHANGED tradeVars
  /\ CallEnds(c)
  /\ SetTimer
  /\ UNCHANGED <<positions_balance, payVars>>

(* void_position, which sets a timer also when it is refused. *)
VoidByUser(user, k) ==
  \E id \in DOMAIN book[k] :
    /\ book[k][id].positor = user
    /\ timers < MaxTimers
    /\ book' = [book EXCEPT ![k] = Without(@, {id})]
    /\ positions' = [positions EXCEPT ![k] = @ \ {id}]
    /\ void_positions' = [void_positions EXCEPT
         ![k] = With(@, id, NewVoidPosition(book[k][id].mainder))]
    /\ UNCHANGED <<locks, calls, positions_balance, trade_logs, trade_logs_id_counter,
                   positions_id_counter, position_logs, payVars>>
    /\ SetTimer

VoidRefused ==
  /\ timers < MaxTimers
  /\ UNCHANGED <<callVars, tradeVars, payVars>>
  /\ SetTimer

----------------------------------------------------------------------------
(* The payouts *)

Apart(Step) == UNCHANGED callVars /\ Step

(* A payout and its fee are taken from the positions-subaccount. *)
TransferPaid(r, o) ==
  LET st == runs[r].payouts[o]
  IN /\ UNCHANGED <<book, locks, calls>>
     /\ positions_balance[o.kind] >= st.amount + st.fee
     /\ positions_balance' = [positions_balance EXCEPT ![o.kind] = @ - st.amount - st.fee]
     /\ Transfer(r, o)

Answers(r) ==
  \/ \E o \in DOMAIN runs[r].payouts : TransferPaid(r, o) \/ Apart(TransferFails(r, o))
  \/ \E u \in DOMAIN runs[r].updates : Apart(CmUpdateLog(r, u) \/ UpdateFails(r, u))

ContractNext ==
  \/ \E c \in Call, user \in User, k \in Kind : TradeCall(c, user, k)
  \/ \E c \in Call : LedgerAnswers(c) \/ TradeReturns(c)
  \/ \E user \in User, k \in Kind : VoidByUser(user, k)
  \/ VoidRefused
  \/ \E r \in Run : Apart(Canister(r)) \/ Answers(r)

ContractSpec == ContractInit /\ [][ContractNext]_contractVars

(* As in Payouts, and the ledgers have what the subaccount promises. *)
ContractFairness ==
  /\ SF_contractVars(\E r \in Run : Apart(TimerFires(r)))
  /\ \A r \in Run :
       /\ WF_contractVars(Apart(runs[r].driven /\ (StartRun(r) \/ SelfCallFails(r))))
       /\ WF_contractVars(Answers(r))
       /\ WF_contractVars(Apart(Replying(r)))
       /\ WF_contractVars(Apart(Resume(r)))
       /\ WF_contractVars(Apart(\E s \in Storage : FlushStep(r, s)))
  /\ <>[][~Failure]_contractVars

FairContract == ContractSpec /\ ContractFairness
----------------------------------------------------------------------------
(* Properties *)

(* The market hands over what Payouts says it may: every match fills one   *)
(* of its positions, a position is voided once, every change that leaves   *)
(* something to pay sets a timer, and the amounts are those foreseen.      *)
PayoutsImplemented == Spec

(* The positions-subaccount covers everything that is not transferred yet, *)
(* at every moment between a ledger's transfer and the contract's record:  *)
(* what is left of the positions, what was paid in for a position that is  *)
(* not made yet, the void positions and both sides of the trades.          *)
Unpaid(o) == transfers[o] = <<>>
UnpaidVoids(k) == {id \in DOMAIN void_positions[k] : Unpaid(VoidObligation(k, id))}
UnpaidTrades(k) == {i \in DOMAIN trade_logs : Unpaid(TradeObligation(k, trade_logs[i].id))}
Owed(k) ==
  SumFunction([id \in DOMAIN book[k] |-> book[k][id].mainder])
  + PaidIn(k)
  + SumFunction([id \in UnpaidVoids(k) |-> void_positions[k][id].quantity])
  + SumFunction([i \in UnpaidTrades(k) |-> trade_logs[i].mount[k] - trade_logs[i].cts_fee[k]])
PaymentsCovered == \A k \in Kind : positions_balance[k] >= Owed(k)

(* The buffers have a limit although it is checked before the await of the *)
(* ledger and used after it: every call that passed the check together     *)
(* with others adds one position log, and at most a full queue of trades.  *)
InProgress == Cardinality({c \in Call : calls[c].op # "none"})
Callers    == Cardinality(Kind) * MaxLocks
BuffersBounded ==
  /\ BufferLen("positions") + InProgress <= MaxBuffer - 1 + Callers
  /\ BufferLen("trades") + Len(trade_logs) + InProgress * MaxTradeLogs
       <= MaxBuffer - 1 + (Callers + 1) * MaxTradeLogs
=============================================================================
