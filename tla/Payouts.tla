------------------------------ MODULE Payouts ------------------------------
(***************************************************************************)
(* The payouts of a trade contract (cm_tc/src/payouts).                    *)
(*                                                                         *)
(* A trade contract owes money for two kinds of things: a void position    *)
(* (what is left of a position that was filled or cancelled goes back to   *)
(* its positor) and each side of a trade log.  Every execution of          *)
(* do_payouts_public_method takes a chunk of what is owed, locks it, calls *)
(* the ledgers and the position-log storage canisters, waits for all the   *)
(* answers and only then records them.  Executions overlap: one is started *)
(* by every timer and by anybody who calls the public method.              *)
(*                                                                         *)
(* An action is one message execution of the canister (what runs between   *)
(* two awaits is atomic), or one execution at a ledger or at a storage     *)
(* canister.  The market, which creates positions, void positions and      *)
(* trade logs, is represented by Trade, VoidPosition and MarketError; the  *)
(* amounts are chosen from small sets, the numbers of logs and voids are   *)
(* the ones match_trades can produce.                                      *)
(***************************************************************************)
EXTENDS Sides, Integers, Sequences, FiniteSets

CONSTANTS
  Run,              \* slots for the executions that may overlap
  MaxId,            \* bound of positions_id_counter
  MaxTrades,        \* bound of trade_logs_id_counter
  MaxTimers,        \* bound of the timers the market may have pending
  MaxFeeChanges,    \* bound of the changes of a ledger's transfer fee
  MaxUpgrades,      \* bound of the upgrades of the canister
  VoidQuantity,     \* what may be left in a position when it is voided
  TradeSide,        \* [mount, cts_fee] of one side of a trade
  LedgerFees,       \* the transfer fees a ledger may charge
  VoidPayoutsChunk, \* DO_VOID_POSITIONS_PAYOUTS_CHUNK_SIZE
  UpdateChunk,      \* DO_VOID_POSITIONS_UPDATE_STORAGE_POSITION_CHUNK_SIZE
  TradePayoutsChunk,\* DO_TRADE_LOGS_CYCLES_PAYOUTS_CHUNK_SIZE, ..TOKEN..
  FlushAt,          \* FLUSH_STORAGE_BUFFER_AT_SIZE, in logs
  FlushChunk,       \* logs that one call of a storage canister's flush takes
  None              \* Rust's None

Storage == {"positions", "trades"}

PayoutData == [did_transfer : BOOLEAN, ledger_transfer_fee : Nat]

ASSUME PayoutsAssumption ==
  /\ MaxId \in Nat /\ MaxTrades \in Nat /\ MaxTimers \in Nat
  /\ MaxFeeChanges \in Nat /\ MaxUpgrades \in Nat
  /\ VoidQuantity \subseteq Nat
  /\ TradeSide \subseteq [mount : Nat, cts_fee : Nat]
  /\ LedgerFees \subseteq Nat /\ LedgerFees # {}
  /\ {VoidPayoutsChunk, UpdateChunk, TradePayoutsChunk} \subseteq Nat
  /\ FlushAt \in Nat /\ FlushChunk \in Nat \ {0}
  /\ None \notin PayoutData /\ None \notin Nat

PositionId == 0 .. MaxId - 1
PurchaseId == 0 .. MaxTrades - 1

(* What the contract owes: the rest of a void position, or one side of a   *)
(* trade.  The memo of every ledger transfer names its obligation.         *)
Obligation ==
  [op : {"void"}, kind : Kind, id : PositionId]
    \cup [op : {"trade"}, kind : Kind, id : PurchaseId]
Update == [kind : Kind, id : PositionId]

VARIABLES
  positions,             \* [Kind -> ids of the current positions on the book]
  positions_id_counter,
  void_positions,        \* [Kind -> [ids -> void position]]
  trade_logs,            \* the queue of trade logs with their payout data
  trade_logs_id_counter,
  position_logs,         \* position logs: on storage canisters, then buffered
  trades_stored,         \* trade logs: on storage canisters, then buffered
  flushed,               \* [Storage -> how many of these are on canisters]
  flush_lock,            \* [Storage -> storage_flush_lock]
  cached_fee,            \* [Kind -> the fee the contract believes in]
  ledger_fee,            \* [Kind -> the fee the ledger charges]
  transfers,             \* [Obligation -> ledger blocks with that memo]
  runs,                  \* [Run -> an execution in progress]
  timers,                \* pending timers that will call do_payouts
  fee_changes, upgrades  \* how many of these happened

marketVars  == <<positions, positions_id_counter, trade_logs_id_counter>>
owedVars    == <<void_positions, trade_logs>>
storageVars == <<position_logs, trades_stored, flushed>>
feeVars     == <<cached_fee, ledger_fee>>
boundVars   == <<fee_changes, upgrades>>
vars == <<marketVars, owedVars, storageVars, flush_lock, feeVars, transfers,
          runs, timers, boundVars>>

----------------------------------------------------------------------------
(* Records *)

NewVoidPosition(q) ==
  [quantity      |-> q,
   payout_lock   |-> FALSE,
   payout_data   |-> None,
   update_lock   |-> FALSE,
   update_status |-> FALSE,
   update_log    |-> [terminated |-> TRUE, payout |-> None]]

(* The log of a position that is on the book. *)
OpenLog == [terminated |-> FALSE, payout |-> None]

NewTradeLog(i, sides) ==
  [id          |-> i,
   mount       |-> [k \in Kind |-> sides[k].mount],
   cts_fee     |-> [k \in Kind |-> sides[k].cts_fee],
   payout_lock |-> [k \in Kind |-> FALSE],
   payout_data |-> [k \in Kind |-> None]]

(* Mutant: a log paid on one side moves already. *)
CanMoveOneSide(tl) ==
  \E k \in Kind : ~tl.payout_lock[k] /\ tl.payout_data[k] # None
CanMove(tl) ==
  \A k \in Kind : ~tl.payout_lock[k] /\ tl.payout_data[k] # None

(* Mutant: a void position does not wait for its log. *)
CanRemoveUnlogged(vp) == vp.payout_data # None
CanRemove(vp) == vp.payout_data # None /\ vp.update_status

NoTasks == [x \in {} |-> None]
Idle    == [pc |-> "idle", driven |-> FALSE, payouts |-> NoTasks,
            updates |-> NoTasks, flushes |-> NoTasks]

(* Mutant: the trade logs are forgotten. *)
PendingVoids == \E k \in Kind : DOMAIN void_positions[k] # {}
Pending == \/ \E k \in Kind : DOMAIN void_positions[k] # {}
           \/ trade_logs # <<>>

SatSub(a, b) == IF a >= b THEN a - b ELSE 0

(* The n smallest members of a set of ids: the maps iterate in id order. *)
FirstN(S, n) == {x \in S : Cardinality({y \in S : y < x}) < n}

Init ==
  /\ positions = [k \in Kind |-> {}]
  /\ positions_id_counter = 0
  /\ void_positions = [k \in Kind |-> NoTasks]
  /\ trade_logs = <<>>
  /\ trade_logs_id_counter = 0
  /\ position_logs = <<>>
  /\ trades_stored = <<>>
  /\ flushed = [s \in Storage |-> 0]
  /\ flush_lock = [s \in Storage |-> FALSE]
  /\ ledger_fee \in [Kind -> LedgerFees]
  /\ cached_fee = ledger_fee
  /\ transfers = [o \in Obligation |-> <<>>]
  /\ runs = [r \in Run |-> Idle]
  /\ timers = 0
  /\ fee_changes = 0
  /\ upgrades = 0

----------------------------------------------------------------------------
(* The market *)

(* A position is created and matched: every one of the n matches makes a   *)
(* trade log and fills the matcher, the matchee or both.                   *)
CreateAndMatch(k, voided, n, q, sides) ==
  LET id == positions_id_counter
  IN /\ id < MaxId /\ trade_logs_id_counter + n <= MaxTrades
     /\ timers < MaxTimers
     /\ \/ n = 0 /\ voided = {}
        \/ n > 0 /\ Cardinality(voided) = n
        \/ n > 0 /\ Cardinality(voided) = n + 1 /\ id \in voided
     /\ positions_id_counter' = id + 1
     /\ positions' = [j \in Kind |->
          (IF j = k THEN positions[j] \cup {id} ELSE positions[j]) \ voided]
     /\ void_positions' = [j \in Kind |->
          LET new == {i \in voided : (i = id) = (j = k)}
          IN [i \in DOMAIN void_positions[j] \cup new |->
               IF i \in new THEN NewVoidPosition(q[i]) ELSE void_positions[j][i]]]
     /\ trade_logs' = trade_logs \o
          [i \in 1 .. n |-> NewTradeLog(trade_logs_id_counter + i - 1, sides[i])]
     /\ trade_logs_id_counter' = trade_logs_id_counter + n
     /\ position_logs' = Append(position_logs, OpenLog)
     /\ timers' = timers + 1
     /\ UNCHANGED <<trades_stored, flushed, flush_lock, feeVars, transfers,
                    runs, boundVars>>

Trade(k) ==
  LET matchees == positions[Opposite(k)]
  IN \E voided \in SUBSET (matchees \cup {positions_id_counter}),
        n \in 0 .. Cardinality(matchees) :
     \E q \in [voided -> VoidQuantity], sides \in [1 .. n -> [Kind -> TradeSide]] :
       CreateAndMatch(k, voided, n, q, sides)

VoidPosition(k, id) ==
  \E q \in VoidQuantity :
    /\ timers < MaxTimers
    /\ positions' = [positions EXCEPT ![k] = @ \ {id}]
    /\ void_positions' = [void_positions EXCEPT ![k] =
         [i \in DOMAIN @ \cup {id} |->
            IF i = id THEN NewVoidPosition(q) ELSE @[i]]]
    /\ timers' = timers + 1
    /\ UNCHANGED <<positions_id_counter, trade_logs_id_counter, trade_logs,
                   storageVars, flush_lock, feeVars, transfers, runs, boundVars>>

(* A trade whose transfer failed, or a refused void_position, also sets a  *)
(* timer.                                                                  *)
MarketError ==
  /\ timers < MaxTimers
  /\ timers' = timers + 1
  /\ UNCHANGED <<marketVars, owedVars, storageVars, flush_lock, feeVars,
                 transfers, runs, boundVars>>

----------------------------------------------------------------------------
(* do_payouts up to its await *)

TimerFires(r) ==
  /\ timers > 0
  /\ runs[r].pc = "idle"
  /\ timers' = timers - 1
  /\ runs' = IF Pending
             THEN [runs EXCEPT ![r] = [Idle EXCEPT !.pc = "called", !.driven = TRUE]]
             ELSE runs
  /\ UNCHANGED <<marketVars, owedVars, storageVars, flush_lock, feeVars,
                 transfers, boundVars>>

(* The canister's call of its own method is rejected. *)
SelfCallFails(r) ==
  /\ runs[r].pc = "called"
  /\ runs' = [runs EXCEPT ![r] = Idle]
  /\ timers' = IF Pending THEN timers + 1 ELSE timers
  /\ UNCHANGED <<marketVars, owedVars, storageVars, flush_lock, feeVars,
                 transfers, boundVars>>

----------------------------------------------------------------------------
(* _do_payouts *)

TradeIndex(tls, id) == CHOOSE i \in 1 .. Len(tls) : tls[i].id = id

Mount(o) == IF o.op = "void"
            THEN void_positions[o.kind][o.id].quantity
            ELSE trade_logs[TradeIndex(trade_logs, o.id)].mount[o.kind]

CtsFee(o) == IF o.op = "void" THEN 0
             ELSE trade_logs[TradeIndex(trade_logs, o.id)].cts_fee[o.kind]

(* What is taken from the positions-subaccount for an obligation. *)
Net(o) == SatSub(Mount(o), CtsFee(o))

VoidPayouts(k) ==
  FirstN({i \in DOMAIN void_positions[k] :
            /\ void_positions[k][i].payout_data = None
            /\ ~void_positions[k][i].payout_lock}, VoidPayoutsChunk)

(* Mutant: the flush lock is not looked at. *)
VoidUpdatesAnyTime(k) ==
  FirstN({i \in DOMAIN void_positions[k] :
            /\ void_positions[k][i].payout_data # None
            /\ ~void_positions[k][i].update_status
            /\ ~void_positions[k][i].update_lock}, UpdateChunk)

VoidUpdates(k) ==
  IF flush_lock["positions"] THEN {}
  ELSE FirstN({i \in DOMAIN void_positions[k] :
                 /\ void_positions[k][i].payout_data # None
                 /\ ~void_positions[k][i].update_status
                 /\ ~void_positions[k][i].update_lock}, UpdateChunk)

(* Mutant: the payout lock is not looked at. *)
TradePayoutsUnlocked(k) ==
  FirstN({trade_logs[i].id : i \in
            {j \in 1 .. Len(trade_logs) : trade_logs[j].payout_data[k] = None}},
         TradePayoutsChunk)

TradePayouts(k) ==
  FirstN({trade_logs[i].id : i \in
            {j \in 1 .. Len(trade_logs) : /\ trade_logs[j].payout_data[k] = None
                                          /\ ~trade_logs[j].payout_lock[k]}},
         TradePayoutsChunk)

(* Mutant: the fee is not taken out of what the positor gets.              *)
SentFeeOnTop(o, f) == [at |-> "sent", amount |-> Net(o), fee |-> f,
                       payout |-> None, expected_fee |-> None]

(* _do_payout up to its await: dust is settled at once, everything else is *)
(* a transfer of the rest, with the fee the contract believes in.          *)
Sent(o, f) == [at |-> "sent", amount |-> SatSub(Net(o), f), fee |-> f,
               payout |-> None, expected_fee |-> None]
Dust(o, f) == [Sent(o, f) EXCEPT !.at = "done",
                 !.payout = [did_transfer |-> FALSE, ledger_transfer_fee |-> f]]

(* Mutant: an amount equal to the fee is transferred. *)
StartPayoutOfNothing(o) ==
  LET f == cached_fee[o.kind] IN IF f > Net(o) THEN Dust(o, f) ELSE Sent(o, f)
StartPayout(o) ==
  LET f == cached_fee[o.kind] IN IF f >= Net(o) THEN Dust(o, f) ELSE Sent(o, f)

(* do_update_storage_position up to its await: a log that is still in the  *)
(* storage buffer is overwritten there.                                    *)
OnCanister(id) == id < flushed["positions"]
StartUpdate(u) ==
  [at |-> IF OnCanister(u.id) THEN "sent" ELSE "ok",
   log |-> void_positions[u.kind][u.id].update_log]

(* The results of an execution, as they are recorded behind its join.      *)
PaidVoid(vp, o, payouts) ==
  IF o \notin DOMAIN payouts THEN vp
  ELSE [vp EXCEPT !.payout_lock = FALSE,
                  !.payout_data = payouts[o].payout,
                  !.update_log.payout = IF payouts[o].payout = None
                                        THEN @ ELSE payouts[o].payout]

(* Mutant: a failed update keeps its lock. *)
SettledVoidLockKept(vp, o, u, payouts, updates) ==
  IF u \notin DOMAIN updates THEN PaidVoid(vp, o, payouts)
  ELSE [PaidVoid(vp, o, payouts) EXCEPT !.update_lock = updates[u].at # "ok",
                                        !.update_status = updates[u].at = "ok"]

SettledVoid(vp, o, u, payouts, updates) ==
  IF u \notin DOMAIN updates THEN PaidVoid(vp, o, payouts)
  ELSE [PaidVoid(vp, o, payouts) EXCEPT !.update_lock = FALSE,
                                        !.update_status = updates[u].at = "ok"]

VoidObligation(k, i) == [op |-> "void", kind |-> k, id |-> i]
VoidUpdate(k, i)     == [kind |-> k, id |-> i]

SettledVoids(k, vps, payouts, updates) ==
  LET Settled(i) == SettledVoid(vps[i], VoidObligation(k, i), VoidUpdate(k, i), payouts, updates)
      removed == {i \in DOMAIN vps : /\ \/ VoidObligation(k, i) \in DOMAIN payouts
                                        \/ VoidUpdate(k, i) \in DOMAIN updates
                                     /\ CanRemove(Settled(i))}
  IN [i \in DOMAIN vps \ removed |-> Settled(i)]

TradeObligation(k, i) == [op |-> "trade", kind |-> k, id |-> i]

(* Mutant: a failed payout keeps its lock. *)
SettledTradeLockKept(tl, payouts) ==
  LET paid == {k \in Kind : TradeObligation(k, tl.id) \in DOMAIN payouts}
      P(k) == payouts[TradeObligation(k, tl.id)].payout
  IN [tl EXCEPT
       !.payout_lock = [k \in Kind |-> IF k \in paid THEN P(k) = None ELSE tl.payout_lock[k]],
       !.payout_data = [k \in Kind |-> IF k \in paid THEN P(k) ELSE tl.payout_data[k]]]

SettledTrade(tl, payouts) ==
  LET paid == {k \in Kind : TradeObligation(k, tl.id) \in DOMAIN payouts}
  IN [tl EXCEPT
       !.payout_lock = [k \in Kind |-> k \notin paid /\ tl.payout_lock[k]],
       !.payout_data = [k \in Kind |-> IF k \in paid
                          THEN payouts[TradeObligation(k, tl.id)].payout
                          ELSE tl.payout_data[k]]]

SettledTrades(tls, payouts) ==
  [i \in 1 .. Len(tls) |-> SettledTrade(tls[i], payouts)]

(* The futures of an execution were polled.  When all of them are ready    *)
(* the same message goes on behind the join: it releases the flush lock if *)
(* the execution took it, records every answer, removes the void positions *)
(* that are done and replies.                                              *)
AllReady(payouts, updates) ==
  /\ \A o \in DOMAIN payouts : payouts[o].at = "done"
  /\ \A u \in DOMAIN updates : updates[u].at \in {"ok", "err"}

Polled(r, vps, tls, lock, payouts, updates) ==
  IF AllReady(payouts, updates)
  THEN /\ void_positions' = [k \in Kind |-> SettledVoids(k, vps[k], payouts, updates)]
       /\ trade_logs' = SettledTrades(tls, payouts)
       /\ flush_lock' = [flush_lock EXCEPT !["positions"] = lock /\ DOMAIN updates = {}]
       /\ runs' = [runs EXCEPT ![r] = IF @.driven
                     THEN [Idle EXCEPT !.pc = "replied", !.driven = TRUE] ELSE Idle]
  ELSE /\ void_positions' = vps
       /\ trade_logs' = tls
       /\ flush_lock' = [flush_lock EXCEPT !["positions"] = lock]
       /\ runs' = [runs EXCEPT ![r] = [@ EXCEPT !.pc = "paying",
                     !.payouts = payouts, !.updates = updates]]

(* What an execution takes, and how it locks it.                           *)
TakenPayouts ==
  {o \in Obligation : o.id \in IF o.op = "void" THEN VoidPayouts(o.kind)
                               ELSE TradePayouts(o.kind)}
TakenUpdates == {u \in Update : u.id \in VoidUpdates(u.kind)}

LockedVoids ==
  [k \in Kind |-> [i \in DOMAIN void_positions[k] |->
     [void_positions[k][i] EXCEPT !.payout_lock = @ \/ i \in VoidPayouts(k),
                                  !.update_lock = @ \/ i \in VoidUpdates(k)]]]
LockedTrades ==
  [i \in 1 .. Len(trade_logs) |-> [trade_logs[i] EXCEPT !.payout_lock =
     [k \in Kind |-> trade_logs[i].payout_lock[k] \/ trade_logs[i].id \in TradePayouts(k)]]]

BufferUpdated ==
  [i \in 1 .. Len(position_logs) |->
     IF ~OnCanister(i - 1) /\ \E u \in TakenUpdates : u.id = i - 1
     THEN LET u == CHOOSE u \in TakenUpdates : u.id = i - 1
          IN void_positions[u.kind][u.id].update_log
     ELSE position_logs[i]]

(* The first message of do_payouts_public_method, called by do_payouts or, *)
(* when the slot is idle, by anybody.                                      *)
StartRun(r) ==
  /\ runs[r].pc \in {"idle", "called"}
  /\ position_logs' = BufferUpdated
  /\ Polled(r, LockedVoids, LockedTrades, flush_lock["positions"] \/ TakenUpdates # {},
            [o \in TakenPayouts |-> StartPayout(o)], [u \in TakenUpdates |-> StartUpdate(u)])
  /\ UNCHANGED <<marketVars, trades_stored, flushed, feeVars, transfers, timers,
                 boundVars>>

(* A ledger executes a transfer of the contract. *)
Answer(r, o, pd, fee) ==
  runs' = [runs EXCEPT ![r].payouts[o] =
             [@ EXCEPT !.at = "answered", !.payout = pd, !.expected_fee = fee]]

Transfer(r, o) ==
  LET st == runs[r].payouts[o]
  IN /\ st.at = "sent"
     /\ st.fee = ledger_fee[o.kind]
     /\ transfers' = [transfers EXCEPT ![o] = Append(@, [amount |-> st.amount, fee |-> st.fee])]
     /\ Answer(r, o, [did_transfer |-> TRUE, ledger_transfer_fee |-> st.fee], None)
     /\ UNCHANGED <<marketVars, owedVars, storageVars, flush_lock, feeVars,
                    timers, boundVars>>

BadFee(r, o) ==
  /\ runs[r].payouts[o].at = "sent"
  /\ runs[r].payouts[o].fee # ledger_fee[o.kind]
  /\ Answer(r, o, None, ledger_fee[o.kind])
  /\ UNCHANGED <<marketVars, owedVars, storageVars, flush_lock, feeVars,
                 transfers, timers, boundVars>>

(* The ledger refuses for any other reason, or the call is rejected. *)
TransferFails(r, o) ==
  /\ runs[r].payouts[o].at = "sent"
  /\ Answer(r, o, None, None)
  /\ UNCHANGED <<marketVars, owedVars, storageVars, flush_lock, feeVars,
                 transfers, timers, boundVars>>

(* Mutant: every answer sets the fee. *)
FeeAlwaysTaken(st, old) == st.expected_fee

(* A BadFee answer names the fee that the contract believes in from now.   *)
FeeAfter(st, old) == IF st.expected_fee = None THEN old ELSE st.expected_fee

(* The answer of a ledger arrives. *)
PayoutReply(r, o) ==
  LET st == runs[r].payouts[o]
  IN /\ st.at = "answered"
     /\ cached_fee' = [cached_fee EXCEPT ![o.kind] = FeeAfter(st, @)]
     /\ Polled(r, void_positions, trade_logs, flush_lock["positions"],
               [runs[r].payouts EXCEPT ![o].at = "done"], runs[r].updates)
     /\ UNCHANGED <<marketVars, storageVars, ledger_fee, transfers, timers, boundVars>>

(* A storage canister executes cm_update_log, or the call is rejected. *)
CmUpdateLog(r, u) ==
  /\ runs[r].updates[u].at = "sent"
  /\ position_logs' = [position_logs EXCEPT ![u.id + 1] = runs[r].updates[u].log]
  /\ runs' = [runs EXCEPT ![r].updates[u].at = "stored"]
  /\ UNCHANGED <<marketVars, owedVars, trades_stored, flushed, flush_lock,
                 feeVars, transfers, timers, boundVars>>

UpdateFails(r, u) ==
  /\ runs[r].updates[u].at = "sent"
  /\ runs' = [runs EXCEPT ![r].updates[u].at = "failed"]
  /\ UNCHANGED <<marketVars, owedVars, storageVars, flush_lock, feeVars,
                 transfers, timers, boundVars>>

UpdateReply(r, u) ==
  /\ runs[r].updates[u].at \in {"stored", "failed"}
  /\ Polled(r, void_positions, trade_logs, flush_lock["positions"], runs[r].payouts,
            [runs[r].updates EXCEPT ![u].at = IF @ = "stored" THEN "ok" ELSE "err"])
  /\ UNCHANGED <<marketVars, storageVars, feeVars, transfers, timers, boundVars>>

----------------------------------------------------------------------------
(* do_payouts behind its await *)

(* The buffers that are long enough to be flushed, and not being flushed.  *)
DueFlushes(n) ==
  {s \in Storage :
     /\ ~flush_lock[s]
     /\ (IF s = "positions" THEN Len(position_logs) ELSE Len(trades_stored) + n)
          >= flushed[s] + FlushAt}

(* The n trade logs at the front of the queue that are paid on both sides  *)
(* are moved to the trades storage buffer in order, then the two           *)
(* flush_logs are joined: each takes its lock when its buffer is long      *)
(* enough.  Without a flush the same message goes on to its end.           *)
Resume(r) ==
  \E n \in 0 .. Len(trade_logs) :
    /\ runs[r].pc = "replied"
    /\ \A i \in 1 .. n : CanMove(trade_logs[i])
    /\ n < Len(trade_logs) => ~CanMove(trade_logs[n + 1])
    /\ trades_stored' = trades_stored \o SubSeq(trade_logs, 1, n)
    /\ trade_logs' = SubSeq(trade_logs, n + 1, Len(trade_logs))
    /\ UNCHANGED <<marketVars, void_positions, position_logs, flushed, feeVars,
                   transfers, boundVars>>
    /\ flush_lock' = [s \in Storage |-> flush_lock[s] \/ s \in DueFlushes(n)]
    /\ IF DueFlushes(n) = {}
       THEN /\ runs' = [runs EXCEPT ![r] = Idle]
            /\ timers' = IF Pending' THEN timers + 1 ELSE timers
       ELSE /\ runs' = [runs EXCEPT ![r].pc = "flushing", ![r].flushes =
                          [s \in DueFlushes(n) |-> IF s = "positions" THEN Len(position_logs)
                                                   ELSE Len(trades_stored) + n]]
            /\ timers' = timers

(* One chunk of a flush is on its storage canister and the answer arrived. *)
FlushLogs(r, s) ==
  /\ s \in DOMAIN runs[r].flushes
  /\ flushed[s] < runs[r].flushes[s]
  /\ flushed' = [flushed EXCEPT ![s] = IF @ + FlushChunk <= runs[r].flushes[s]
                                       THEN @ + FlushChunk ELSE runs[r].flushes[s]]
  /\ UNCHANGED <<marketVars, owedVars, position_logs, trades_stored, flush_lock,
                 feeVars, transfers, runs, timers, boundVars>>

(* A flush releases its lock; the last one to end also ends do_payouts.    *)
Unlock(r, s) ==
  LET left == DOMAIN runs[r].flushes \ {s}
  IN /\ flush_lock' = [flush_lock EXCEPT ![s] = FALSE]
     /\ IF left = {}
        THEN /\ runs' = [runs EXCEPT ![r] = Idle]
             /\ timers' = IF Pending THEN timers + 1 ELSE timers
        ELSE /\ runs' = [runs EXCEPT ![r].flushes = [t \in left |-> @[t]]]
             /\ timers' = timers
     /\ UNCHANGED <<marketVars, owedVars, storageVars, feeVars, transfers, boundVars>>

FlushEnds(r, s) ==
  /\ s \in DOMAIN runs[r].flushes
  /\ flushed[s] = runs[r].flushes[s]
  /\ Unlock(r, s)

(* A flush stops early: no new storage canister could be created, the one  *)
(* it calls is full, or the call is rejected.                              *)
FlushStops(r, s) ==
  /\ s \in DOMAIN runs[r].flushes
  /\ flushed[s] < runs[r].flushes[s]
  /\ Unlock(r, s)

----------------------------------------------------------------------------
(* A ledger changes its transfer fee. *)
LedgerFeeChanges(k) ==
  /\ fee_changes < MaxFeeChanges
  /\ \E f \in LedgerFees \ {ledger_fee[k]} : ledger_fee' = [ledger_fee EXCEPT ![k] = f]
  /\ fee_changes' = fee_changes + 1
  /\ UNCHANGED <<marketVars, owedVars, storageVars, flush_lock, cached_fee,
                 transfers, runs, timers, upgrades>>

(* The canister is stopped, which waits for every call in progress,        *)
(* upgraded and started.  Its data survive, its timers do not.             *)
Upgrade ==
  /\ upgrades < MaxUpgrades
  /\ \A r \in Run : runs[r].pc = "idle"
  /\ timers' = 0
  /\ upgrades' = upgrades + 1
  /\ UNCHANGED <<marketVars, owedVars, storageVars, flush_lock, feeVars,
                 transfers, runs, fee_changes>>

Market ==
  \/ MarketError
  \/ \E k \in Kind : Trade(k) \/ \E id \in positions[k] : VoidPosition(k, id)

Canister(r) ==
  \/ TimerFires(r) \/ SelfCallFails(r) \/ StartRun(r) \/ Resume(r)
  \/ \E o \in DOMAIN runs[r].payouts : PayoutReply(r, o)
  \/ \E u \in DOMAIN runs[r].updates : UpdateReply(r, u)
  \/ \E s \in Storage : FlushLogs(r, s) \/ FlushEnds(r, s) \/ FlushStops(r, s)

Callee(r) ==
  \/ \E o \in DOMAIN runs[r].payouts : Transfer(r, o) \/ BadFee(r, o) \/ TransferFails(r, o)
  \/ \E u \in DOMAIN runs[r].updates : CmUpdateLog(r, u) \/ UpdateFails(r, u)

Next ==
  \/ \E r \in Run : Canister(r) \/ Callee(r)
  \/ Market
  \/ \E k \in Kind : LedgerFeeChanges(k)
  \/ Upgrade

Spec == Init /\ [][Next]_vars
----------------------------------------------------------------------------
(* Type invariant *)

Log == [terminated : BOOLEAN, payout : PayoutData \cup {None}]

VoidPositionType ==
  [quantity : Nat, payout_lock : BOOLEAN, payout_data : PayoutData \cup {None},
   update_lock : BOOLEAN, update_status : BOOLEAN, update_log : Log]

TradeLogType ==
  [id : Nat, mount : [Kind -> Nat], cts_fee : [Kind -> Nat],
   payout_lock : [Kind -> BOOLEAN], payout_data : [Kind -> PayoutData \cup {None}]]

PayoutStatus ==
  [at : {"sent", "answered", "done"}, amount : Nat, fee : Nat,
   payout : PayoutData \cup {None}, expected_fee : Nat \cup {None}]

UpdateStatus == [at : {"sent", "stored", "failed", "ok", "err"}, log : Log]

PartialFunction(f, D, R) == DOMAIN f \subseteq D /\ f \in [DOMAIN f -> R]

RunOK(run) ==
  /\ run \in [pc : {"idle", "called", "paying", "replied", "flushing"}, driven : BOOLEAN,
              payouts : {run.payouts}, updates : {run.updates}, flushes : {run.flushes}]
  /\ PartialFunction(run.payouts, Obligation, PayoutStatus)
  /\ PartialFunction(run.updates, Update, UpdateStatus)
  /\ PartialFunction(run.flushes, Storage, Nat)

(* The contents of the state variables have the types of the code's data.  *)
TypeOK ==
  /\ positions \in [Kind -> SUBSET PositionId]
  /\ positions_id_counter \in 0 .. MaxId
  /\ DOMAIN void_positions = Kind
  /\ \A k \in Kind : PartialFunction(void_positions[k], PositionId, VoidPositionType)
  /\ trade_logs \in Seq(TradeLogType)
  /\ trade_logs_id_counter \in 0 .. MaxTrades
  /\ position_logs \in Seq(Log)
  /\ trades_stored \in Seq(TradeLogType)
  /\ flushed \in [Storage -> Nat]
  /\ flush_lock \in [Storage -> BOOLEAN]
  /\ cached_fee \in [Kind -> Nat]
  /\ ledger_fee \in [Kind -> LedgerFees]
  /\ transfers \in [Obligation -> Seq([amount : Nat, fee : Nat])]
  /\ DOMAIN runs = Run
  /\ \A r \in Run : RunOK(runs[r])
  /\ timers \in Nat
  /\ fee_changes \in 0 .. MaxFeeChanges
  /\ upgrades \in 0 .. MaxUpgrades
----------------------------------------------------------------------------
(* Safety *)

(* No obligation is ever transferred twice, however executions overlap,    *)
(* fail and are retried: the transfers carry no created_at_time, so the    *)
(* ledger would not notice a duplicate (do_payout.rs:34).                  *)
PaidAtMostOnce == \A o \in Obligation : Len(transfers[o]) <= 1

(* What the contract recorded of a payout is what the ledger did: recorded *)
(* transfers exist with the recorded fee and exactly the net amount, dust  *)
(* and open obligations were not transferred, unless an execution has the  *)
(* ledger's answer and did not record it yet.                              *)
Answered(o) == \E r \in Run : /\ o \in DOMAIN runs[r].payouts
                              /\ runs[r].payouts[o].payout # None
RecordMatches(pd, o, net) ==
  IF pd = None THEN transfers[o] = <<>> \/ Answered(o)
  ELSE IF pd.did_transfer
       THEN /\ net > pd.ledger_transfer_fee
            /\ transfers[o] = <<[amount |-> net - pd.ledger_transfer_fee,
                                 fee |-> pd.ledger_transfer_fee]>>
       ELSE net <= pd.ledger_transfer_fee /\ transfers[o] = <<>>

PayoutsMatchLedger ==
  /\ \A k \in Kind : \A i \in DOMAIN void_positions[k] :
       RecordMatches(void_positions[k][i].payout_data,
                     VoidObligation(k, i),
                     void_positions[k][i].quantity)
  /\ \A tls \in {trade_logs, trades_stored}, k \in Kind : \A i \in 1 .. Len(tls) :
       RecordMatches(tls[i].payout_data[k],
                     TradeObligation(k, tls[i].id),
                     SatSub(tls[i].mount[k], tls[i].cts_fee[k]))

(* A void position is forgotten only when its final log, with what became  *)
(* of its payout, is in the log storage; the log of a position that still  *)
(* waits on the book is never touched.                                     *)
FinalLogStored(i) ==
  LET log == position_logs[i + 1]
  IN /\ log.terminated
     /\ log.payout # None
     /\ log.payout.did_transfer <=>
          \E k \in Kind : transfers[VoidObligation(k, i)] # <<>>

PositionLogsFollow ==
  \A i \in 0 .. positions_id_counter - 1 :
    IF \E k \in Kind : i \in positions[k] THEN position_logs[i + 1] = OpenLog
    ELSE (\E k \in Kind : i \in DOMAIN void_positions[k]) \/ FinalLogStored(i)

(* "they are put into the storage only once in the order of their creation" *)
(* (ARCHITECTURE.md:46): the stored trades are numbered 0, 1, 2, .. without *)
(* a gap, the queue goes on where they stop, and a stored trade is paid on  *)
(* both sides.                                                              *)
TradesStoredInOrder ==
  /\ \A i \in 1 .. Len(trades_stored) :
       /\ trades_stored[i].id = i - 1
       /\ \A k \in Kind : ~trades_stored[i].payout_lock[k] /\ trades_stored[i].payout_data[k] # None
  /\ \A i \in 1 .. Len(trade_logs) : trade_logs[i].id = Len(trades_stored) + i - 1
  /\ trade_logs_id_counter = Len(trades_stored) + Len(trade_logs)

(* The one flush lock of the position logs keeps the flushes and the       *)
(* updates of stored logs apart: it is held when and only when exactly one *)
(* execution updates logs or one do_payouts flushes them.                  *)
Updating(r) == DOMAIN runs[r].updates # {}
Flushing(r, s) == s \in DOMAIN runs[r].flushes
Holds(r, s) == Flushing(r, s) \/ (s = "positions" /\ Updating(r))

FlushLockExclusive ==
  \A s \in Storage :
    /\ flush_lock[s] <=> \E r \in Run : Holds(r, s)
    /\ \A q, r \in Run : Holds(q, s) /\ Holds(r, s) => q = r
    /\ \A r \in Run : ~(Flushing(r, s) /\ Updating(r))

(* The obligation is still there, unpaid, and locked.                      *)
Locked(vps, tls, o) ==
  IF o.op = "void"
  THEN /\ o.id \in DOMAIN vps[o.kind]
       /\ vps[o.kind][o.id].payout_lock
       /\ vps[o.kind][o.id].payout_data = None
  ELSE \E i \in 1 .. Len(tls) : /\ tls[i].id = o.id
                                /\ tls[i].payout_lock[o.kind]
                                /\ tls[i].payout_data[o.kind] = None

LocksHeld(vps, tls, pays) ==
  /\ \A r \in Run : \A o \in DOMAIN pays[r] : Locked(vps, tls, o)
  /\ \A q, r \in Run : q # r => DOMAIN pays[q] \cap DOMAIN pays[r] = {}
  /\ \A k \in Kind : \A i \in DOMAIN vps[k] :
       vps[k][i].payout_lock => \E r \in Run : VoidObligation(k, i) \in DOMAIN pays[r]
  /\ \A k \in Kind : \A i \in 1 .. Len(tls) :
       tls[i].payout_lock[k] => \E r \in Run : TradeObligation(k, tls[i].id) \in DOMAIN pays[r]

(* A payout lock is held exactly while one execution has the payout in     *)
(* progress: no lock is left behind, no two executions pay the same thing, *)
(* and no answer comes back to a void position or trade log that is gone   *)
(* (the "None => continue" and "Err(_) => continue" of payouts/mod.rs).    *)
PayoutLocksHeld ==
  LocksHeld(void_positions, trade_logs, [r \in Run |-> runs[r].payouts])

----------------------------------------------------------------------------
(* Liveness *)

Answering(r) ==
  \/ \E o \in DOMAIN runs[r].payouts : Transfer(r, o) \/ BadFee(r, o) \/ TransferFails(r, o)
  \/ \E u \in DOMAIN runs[r].updates : CmUpdateLog(r, u) \/ UpdateFails(r, u)
Replying(r) ==
  \/ \E o \in DOMAIN runs[r].payouts : PayoutReply(r, o)
  \/ \E u \in DOMAIN runs[r].updates : UpdateReply(r, u)
FlushStep(r, s) == FlushLogs(r, s) \/ FlushEnds(r, s) \/ FlushStops(r, s)

Failure ==
  \E r \in Run :
    \/ SelfCallFails(r)
    \/ \E o \in DOMAIN runs[r].payouts : TransferFails(r, o)
    \/ \E u \in DOMAIN runs[r].updates : UpdateFails(r, u)
    \/ \E s \in Storage : FlushStops(r, s)

(* The Internet Computer fires every timer and answers every call: weak    *)
(* fairness.  TimerFires is strong only because the model has few slots,   *)
(* which the callers of the public method may keep taking.  What a callee  *)
(* answers is its own affair; the last conjunct says that the failures,    *)
(* however many, stop at some time.                                        *)
Fairness ==
  /\ SF_vars(\E r \in Run : TimerFires(r))
  /\ \A r \in Run : /\ WF_vars(runs[r].driven /\ (StartRun(r) \/ SelfCallFails(r)))
                    /\ WF_vars(Answering(r))
                    /\ WF_vars(Replying(r))
                    /\ WF_vars(Resume(r))
                    /\ WF_vars(\E s \in Storage : FlushStep(r, s))
  /\ <>[][~Failure]_vars

FairSpec == Spec /\ Fairness

(* Every void position is paid, gets its final log stored and leaves the   *)
(* map.                                                                    *)
VoidsSettle ==
  \A k \in Kind, i \in PositionId :
    i \in DOMAIN void_positions[k] ~> i \notin DOMAIN void_positions[k]

(* "The trades are then payed out in the background, and logs are put into  *)
(* the storage." (ARCHITECTURE.md:39)                                       *)
TradesSettle ==
  \A i \in PurchaseId : trade_logs_id_counter > i ~> Len(trades_stored) > i
============================================================================
